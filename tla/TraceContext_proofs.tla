-------------------------- MODULE TraceContext_proofs --------------------------
(***************************************************************************)
(* Proofs about TraceContext: that spans and contexts keep their types,    *)
(* that segments are trees, that suppression sticks, that a segment is     *)
(* archived exactly when all its spans have ended, that all of this        *)
(* implements SegmentStore, that what references name can be found, and    *)
(* that what has been archived is final, for any flows and any workload.   *)
(***************************************************************************)
EXTENDS TraceContext, SequenceLemmas

-----------------------------------------------------------------------------
(* Types.                                                                  *)

Refs == [ctx : Int, sid : Int, trace : Int]

SpanRecords ==
  [ctx : Nat, sid : Nat \cup {-1}, pid : Nat \cup {-1}, call : Calls \cup {Nothing}, depth : Int,
   comp : Components, refs : SUBSET Refs]

Traces == Seq(Int) \ {<<>>}

CtxRecords ==
  [noop : BOOLEAN, next : Nat, nspans : Int, segment : Seq(Nat), traces : Traces, ownTrace : BOOLEAN]

FlowType ==
  /\ stack \in [Flows -> Seq(Nat)] /\ within \in [Flows -> Seq(Nat)]
  /\ pending \in [Flows -> [span : Nat, call : Calls \cup {Nothing}]]
  /\ stopping \in [Flows -> Nat]
  /\ captured \in [Flows -> Refs]
  /\ running \subseteq Flows /\ raised \subseteq running

Types ==
  /\ calls \subseteq Calls
  /\ spans \in Seq(SpanRecords) /\ ctxs \in Seq(CtxRecords)
  /\ FlowType
  /\ wire \subseteq Refs /\ sent \in Seq(Nat)

\* What names a span or a context names an existing one, of the right kind.
Ranged ==
  /\ \A s \in DOMAIN spans : /\ spans[s].ctx \in DOMAIN ctxs /\ spans[s].call \in calls \cup {Nothing}
                             /\ spans[s].call = Nothing <=> ctxs[spans[s].ctx].noop
  /\ \A f \in Flows : /\ \A n \in DOMAIN stack[f] : stack[f][n] \in DOMAIN spans
                      /\ \A n \in DOMAIN within[f] : within[f][n] \in DOMAIN spans
                      /\ pending[f].span \in {0} \cup DOMAIN spans
                      /\ pending[f].span = 0 => pending[f] = NoSpan
                      /\ stopping[f] \in {0} \cup DOMAIN ctxs
  /\ \A n \in DOMAIN sent : sent[n] \in Segments

LEMMA CallFacts == Local \in Calls /\ Nothing \notin Calls /\ Nothing.kind = "noop"
  BY DEF Calls, Local, Nothing

LEMMA NameFacts ==
  /\ NoSpan = [span |-> 0, call |-> Nothing]
  /\ NoSnapshot \in Refs /\ Remote \in Refs
  BY DEF NoSpan, NoSnapshot, Remote, Refs

LEMMA TypesInit == Init => Types /\ Ranged
<1> SUFFICES ASSUME Init PROVE Types /\ Ranged
  OBVIOUS
<1>1. \A S : <<>> \in Seq(S)
  OBVIOUS
<1>2. calls \subseteq Calls
  BY WorkloadsAssumption DEF Init
<1> QED
  BY <1>1, <1>2, NameFacts, CallFacts, FlowsAssumption DEF Init, Types, FlowType, Ranged

-----------------------------------------------------------------------------
(* What the actions do.                                                    *)

LEMMA Records ==
  ASSUME Types
  PROVE  /\ \A s \in DOMAIN spans : spans[s] \in SpanRecords
         /\ \A c \in DOMAIN ctxs : ctxs[c] \in CtxRecords
         /\ Len(spans) \in Nat /\ DOMAIN spans = 1 .. Len(spans)
         /\ Len(ctxs) \in Nat /\ DOMAIN ctxs = 1 .. Len(ctxs)
  BY DEF Types

LEMMA TopIsSpan ==
  ASSUME Types, Ranged, NEW f \in Flows, ~NoTop(f)
  PROVE  /\ Last(stack[f]) \in DOMAIN spans /\ Parent(f) = spans[Last(stack[f])]
         /\ Parent(f) \in SpanRecords /\ Parent(f).ctx \in DOMAIN ctxs
         /\ Len(stack[f]) \in DOMAIN stack[f] /\ Last(stack[f]) = stack[f][Len(stack[f])]
<1>1. stack[f] \in Seq(Nat) /\ stack[f] # <<>>
  BY DEF Types, FlowType, NoTop
<1>2. Len(stack[f]) \in DOMAIN stack[f] /\ Last(stack[f]) = stack[f][Len(stack[f])]
  BY <1>1 DEF Last
<1> QED
  BY <1>2, Records DEF Ranged, Parent

LEMMA RelateDoes ==
  ASSUME NEW ctx \in CtxRecords, NEW trace \in Int
  PROVE  /\ Relate(ctx, trace) \in CtxRecords
         /\ Relate(ctx, trace).noop = ctx.noop /\ Relate(ctx, trace).next = ctx.next
         /\ Relate(ctx, trace).nspans = ctx.nspans /\ Relate(ctx, trace).segment = ctx.segment
<1>1. ctx.traces \in Traces
  BY DEF CtxRecords
<1> DEFINE t == IF ctx.ownTrace THEN <<trace>> ELSE Append(ctx.traces, trace)
<1>2. t \in Traces
  BY <1>1 DEF Traces
<1>3. Relate(ctx, trace) = [ctx EXCEPT !.traces = t, !.ownTrace = FALSE]
  BY DEF Relate
<1> HIDE DEF t
<1> QED
  BY <1>2, <1>3 DEF CtxRecords

LEMMA RefToIsRef ==
  ASSUME Types, NEW span \in SpanRecords, span.ctx \in DOMAIN ctxs
  PROVE  RefTo(span) \in Refs
<1>1. ctxs[span.ctx].traces \in Traces
  BY Records DEF CtxRecords
<1>2. Head(ctxs[span.ctx].traces) \in Int
  BY <1>1 DEF Traces
<1> QED
  BY <1>2 DEF RefTo, Refs, SpanRecords

\* A span x of a new segment y, or of the open segment of the span on top.
Roots(x, y) ==
  /\ spans' = Append(spans, x) /\ ctxs' = Append(ctxs, y)
  /\ x.ctx = Len(ctxs) + 1 /\ x.sid = 0 /\ x.pid = -1
  /\ y.noop = FALSE /\ y.next = 1 /\ y.nspans = 0 /\ y.segment = <<>>

Extends(f, x, y) ==
  LET c == Parent(f).ctx
  IN  /\ ~NoTop(f) /\ Parent(f).depth # 0
      /\ spans' = Append(spans, x) /\ ctxs' = [ctxs EXCEPT ![c] = y]
      /\ x.ctx = c /\ x.sid = ctxs[c].next /\ x.pid = Parent(f).sid
      /\ y.noop = ctxs[c].noop /\ y.next = ctxs[c].next + 1 /\ y.nspans = ctxs[c].nspans
      /\ y.segment = ctxs[c].segment

LEMMA NewContextDoes ==
  ASSUME NEW c \in Nat, NEW noop \in BOOLEAN
  PROVE  /\ NewContext(c, noop) \in CtxRecords
         /\ NewContext(c, noop).noop = noop /\ NewContext(c, noop).next = 0
         /\ NewContext(c, noop).nspans = 0 /\ NewContext(c, noop).segment = <<>>
<1>1. <<>> \in Seq(Nat) /\ <<c>> \in Traces
  BY DEF Traces
<1> QED
  BY <1>1 DEF NewContext, CtxRecords

LEMMA NewSpanDoes ==
  ASSUME Types, Ranged, NEW f \in Flows, NEW call \in Calls, NEW carriers \in SUBSET Refs,
         NewSpan(f, call, carriers)
  PROVE  \E x \in SpanRecords, y \in CtxRecords :
           /\ x.call = call /\ x.depth = 0
           /\ Roots(x, y) \/ Extends(f, x, y)
<1> DEFINE own  == ~NoTop(f) /\ ~Finished(f)
           c    == IF own THEN Parent(f).ctx ELSE Len(ctxs) + 1
           ctx  == IF own THEN ctxs[c] ELSE NewContext(c, FALSE)
           refs == (IF Finished(f) THEN {RefTo(Parent(f))} ELSE {}) \cup carriers
           late == IF Finished(f) THEN Relate(ctx, RefTo(Parent(f)).trace) ELSE ctx
           one  == CHOOSE r \in carriers : TRUE
           rel  == IF carriers = {} THEN late ELSE Relate(late, one.trace)
           new  == [rel EXCEPT !.next = @ + 1]
           x    == [ctx |-> c, sid |-> ctx.next, pid |-> IF own THEN Parent(f).sid ELSE -1,
                    call |-> call, depth |-> 0, comp |-> "Unset", refs |-> refs]
<1>1. /\ ctxs' = IF own THEN [ctxs EXCEPT ![c] = new] ELSE Append(ctxs, new)
      /\ spans' = Append(spans, x)
  BY DEF NewSpan
<1>2. ~NoTop(f) => Parent(f) \in SpanRecords /\ Parent(f).ctx \in DOMAIN ctxs /\ RefTo(Parent(f)) \in Refs
  BY TopIsSpan, RefToIsRef
<1>3. Finished(f) => ~NoTop(f)
  BY DEF Finished
<1>4. c \in Nat /\ (own => c \in DOMAIN ctxs)
  BY <1>2 DEF Types, SpanRecords
<1>5. ctx \in CtxRecords
  BY <1>4, NewContextDoes, Records
<1>6. ~own => ctx.next = 0 /\ ctx.nspans = 0 /\ ctx.segment = <<>> /\ ctx.noop = FALSE
  BY <1>4, NewContextDoes
<1>7. refs \in SUBSET Refs
  BY <1>2, <1>3
<1> HIDE DEF ctx
<1>8. /\ late \in CtxRecords
      /\ late.noop = ctx.noop /\ late.next = ctx.next /\ late.nspans = ctx.nspans /\ late.segment = ctx.segment
  <2>1. Finished(f) => RefTo(Parent(f)).trace \in Int
    BY <1>2, <1>3 DEF Refs
  <2> QED
    BY <2>1, <1>5, RelateDoes
<1>9. carriers # {} => one.trace \in Int
  BY DEF Refs
<1> HIDE DEF late, one
<1>10. /\ rel \in CtxRecords
       /\ rel.noop = ctx.noop /\ rel.next = ctx.next /\ rel.nspans = ctx.nspans /\ rel.segment = ctx.segment
  BY <1>8, <1>9, RelateDoes
<1> HIDE DEF rel
<1>11. /\ new \in CtxRecords /\ new.next = ctx.next + 1
       /\ new.noop = ctx.noop /\ new.nspans = ctx.nspans /\ new.segment = ctx.segment
  <2>1. rel.next \in Nat
    BY <1>10 DEF CtxRecords
  <2> HIDE DEF own, c, refs, x
  <2> QED
    BY <2>1, <1>10 DEF CtxRecords
<1>12. x \in SpanRecords
  <2>1. ctx.next \in Nat
    BY <1>5 DEF CtxRecords
  <2>2. own => Parent(f).sid \in Nat \cup {-1}
    BY <1>2 DEF SpanRecords
  <2>3. "Unset" \in Components
    BY DEF Components
  <2> HIDE DEF c, refs, own
  <2> QED
    BY <2>1, <2>2, <2>3, <1>4, <1>7 DEF SpanRecords
<1> HIDE DEF new
<1>13. own => Extends(f, x, new)
  <2>1. own => ctx = ctxs[c] /\ Parent(f).depth # 0
    BY DEF ctx, Finished
  <2> QED
    BY <1>1, <1>11, <2>1 DEF Extends
<1>14. ~own => Roots(x, new)
  BY <1>1, <1>6, <1>11 DEF Roots
<1>15. x.call = call /\ x.depth = 0
  OBVIOUS
<1> HIDE DEF x
<1> QED
  BY <1>11, <1>12, <1>13, <1>14, <1>15

\* A no-op span, in a context of its own or in that of the span on top.
LEMMA NewNoopDoes ==
  ASSUME Types, Ranged, NEW f \in Flows, NewNoop(f)
  PROVE  \E x \in SpanRecords :
           /\ spans' = Append(spans, x) /\ x.call = Nothing /\ x.depth = 0
           /\ \/ ctxs' = ctxs /\ x.ctx \in DOMAIN ctxs /\ ctxs[x.ctx].noop
              \/ \E y \in CtxRecords : /\ ctxs' = Append(ctxs, y) /\ y.noop /\ y.nspans = 0 /\ y.segment = <<>>
                                     /\ x.ctx = Len(ctxs) + 1
<1> DEFINE x(c) == [ctx |-> c, sid |-> -1, pid |-> -1, call |-> Nothing, depth |-> 0, comp |-> "Unset",
                    refs |-> {}]
<1>1. \A c \in Nat : x(c) \in SpanRecords /\ x(c).ctx = c /\ x(c).call = Nothing /\ x(c).depth = 0
  BY DEF SpanRecords, Components
<1>2. CASE /\ InNoop(f) /\ ctxs' = ctxs
           /\ spans' = Append(spans, x(Parent(f).ctx))
  <2>1. Parent(f).ctx \in DOMAIN ctxs /\ ctxs[Parent(f).ctx].noop
    BY <1>2, TopIsSpan DEF InNoop, Ranged
  <2>2. Parent(f).ctx \in Nat
    BY <2>1, Records
  <2> HIDE DEF x
  <2> QED
    BY <1>1, <1>2, <2>1, <2>2
<1>3. CASE /\ ctxs' = Append(ctxs, NewContext(Len(ctxs) + 1, TRUE))
           /\ spans' = Append(spans, x(Len(ctxs) + 1))
  <2>1. Len(ctxs) + 1 \in Nat
    BY Records
  <2> HIDE DEF x
  <2> QED
    BY <1>1, <1>3, <2>1, NewContextDoes
<1> QED
  BY <1>2, <1>3 DEF NewNoop

\* A span is changed to x, and its context to y, but neither in what names it nor in its kind.
Touches(s, x, y) ==
  LET c == spans[s].ctx
  IN  /\ spans' = [spans EXCEPT ![s] = x] /\ ctxs' = [ctxs EXCEPT ![c] = y]
      /\ x.ctx = spans[s].ctx /\ x.sid = spans[s].sid /\ x.pid = spans[s].pid /\ x.call = spans[s].call
      /\ y.noop = ctxs[c].noop /\ y.next = ctxs[c].next

LEMMA CountedOnce ==
  ASSUME NEW w \in CtxRecords, NEW v, v = [w EXCEPT !.nspans = w.nspans + 1]
  PROVE  /\ v \in CtxRecords /\ v.noop = w.noop /\ v.next = w.next
         /\ v.segment = w.segment /\ v.nspans = w.nspans + 1
  BY DEF CtxRecords

LEMMA StartDoes ==
  ASSUME Types, Ranged, NEW f \in Flows, Start(f)
  PROVE  LET s == pending[f].span
             c == spans[s].ctx
         IN  /\ s \in DOMAIN spans /\ pending[f] # NoSpan
             /\ \E x \in SpanRecords, y \in CtxRecords :
                  /\ Touches(s, x, y) /\ x.depth = spans[s].depth + 1
                  /\ y.segment = ctxs[c].segment
                  /\ y.nspans = ctxs[c].nspans + (IF spans[s].depth = 0 THEN 1 ELSE 0)
             /\ stack' = [stack EXCEPT ![f] = IF spans[s].depth = 0 /\ ~Contains(@, s) THEN Append(@, s) ELSE @]
             /\ within' = [within EXCEPT ![f] = Append(@, s)]
             /\ wire' \subseteq Refs
<1> DEFINE s     == pending[f].span
           c     == spans[s].ctx
           first == spans[s].depth = 0
           joins == Continues(f, spans[s])
           count == IF first THEN [ctxs[c] EXCEPT !.nspans = @ + 1] ELSE ctxs[c]
           refs  == IF joins THEN spans[s].refs \cup {captured[f]} ELSE spans[s].refs
           comp  == pending[f].call.comp
           x     == [spans[s] EXCEPT !.depth = spans[s].depth + 1, !.comp = comp, !.refs = refs]
           y     == IF joins THEN Relate(count, captured[f].trace) ELSE count
<1>1. s \in DOMAIN spans /\ pending[f] # NoSpan
  BY Zenon DEF Start, Ranged
<1>2. spans[s] \in SpanRecords /\ c \in DOMAIN ctxs /\ ctxs[c] \in CtxRecords
  BY <1>1, Records DEF Ranged
<1>3. comp \in Components
  BY CallFacts DEF Types, FlowType, Calls, Components, Nothing, Local
<1>4. captured[f] \in Refs /\ captured[f].trace \in Int
  BY DEF Types, FlowType, Refs
<1>5. refs \in SUBSET Refs
  BY <1>2, <1>4 DEF SpanRecords
<1>6. /\ count \in CtxRecords /\ count.noop = ctxs[c].noop /\ count.next = ctxs[c].next
      /\ count.segment = ctxs[c].segment
      /\ count.nspans = ctxs[c].nspans + (IF first THEN 1 ELSE 0)
  <2>1. ctxs[c].nspans \in Int
    BY <1>2 DEF CtxRecords
  <2>2. CASE first
    <3>1. count = [ctxs[c] EXCEPT !.nspans = ctxs[c].nspans + 1]
      BY <2>2
    <3> HIDE DEF count, c, first
    <3>2. /\ count \in CtxRecords /\ count.noop = ctxs[c].noop /\ count.next = ctxs[c].next
          /\ count.segment = ctxs[c].segment /\ count.nspans = ctxs[c].nspans + 1
      BY ONLY <1>2, <3>1, CountedOnce
    <3> QED
      BY <2>2, <3>2
  <2>3. CASE ~first
    BY <1>2, <2>1, <2>3
  <2> QED
    BY <2>2, <2>3
<1>7. /\ spans' = [spans EXCEPT ![s].depth = @ + 1, ![s].comp = comp, ![s].refs = IF joins THEN @ \cup {captured[f]} ELSE @]
      /\ ctxs' = [ctxs EXCEPT ![c] = IF joins THEN Relate(count, captured[f].trace) ELSE count]
  BY Zenon DEF Start
<1>8. /\ stack' = [stack EXCEPT ![f] = IF first /\ ~Contains(@, s) THEN Append(@, s) ELSE @]
      /\ within' = [within EXCEPT ![f] = Append(@, s)]
  BY Zenon DEF Start
<1>9. wire' \subseteq Refs
  BY <1>2, RefToIsRef, Zenon DEF Start, Types
<1>10. /\ y \in CtxRecords /\ y.noop = ctxs[c].noop /\ y.next = ctxs[c].next
       /\ y.segment = ctxs[c].segment
       /\ y.nspans = ctxs[c].nspans + (IF first THEN 1 ELSE 0)
  <2> HIDE DEF count, c, first
  <2> QED
    BY <1>4, <1>6, RelateDoes
<1>11. /\ x \in SpanRecords /\ x.ctx = spans[s].ctx /\ x.sid = spans[s].sid /\ x.pid = spans[s].pid
       /\ x.call = spans[s].call /\ x.depth = spans[s].depth + 1
  <2>1. spans[s].depth + 1 \in Int
    BY <1>2 DEF SpanRecords
  <2> DEFINE v == spans[s]
             d == spans[s].depth + 1
  <2>2. v \in SpanRecords /\ d \in Int /\ x = [v EXCEPT !.depth = d, !.comp = comp, !.refs = refs]
    BY <1>2, <2>1
  <2> HIDE DEF refs, comp, x, v, d
  <2>3. /\ x \in SpanRecords /\ x.ctx = v.ctx /\ x.sid = v.sid /\ x.pid = v.pid /\ x.call = v.call /\ x.depth = d
    BY ONLY <1>3, <1>5, <2>2 DEF SpanRecords
  <2> QED
    BY <2>3 DEF v, d
<1>12. spans' = [spans EXCEPT ![s] = x]
  <2> HIDE DEF comp, s
  <2> QED
    BY <1>1, <1>7, Records, Zenon
<1>13. ctxs' = [ctxs EXCEPT ![c] = y]
  BY <1>7, Zenon
<1>14. Touches(s, x, y)
  <2> HIDE DEF x, y
  <2> QED
    BY <1>10, <1>11, <1>12, <1>13 DEF Touches
<1> HIDE DEF x, y
<1> QED
  BY <1>1, <1>8, <1>9, <1>10, <1>11, <1>14

LEMMA ExceptSame ==
  ASSUME NEW S, NEW seq \in Seq(S), NEW i
  PROVE  seq = [seq EXCEPT ![i] = seq[i]]
<1>1. seq = [j \in DOMAIN seq |-> seq[j]]
  OBVIOUS
<1> QED
  BY <1>1

LEMMA InRange ==
  ASSUME Types, Ranged, NEW f \in Flows, NEW n \in DOMAIN within[f]
  PROVE  /\ within[f][n] \in DOMAIN spans /\ spans[within[f][n]] \in SpanRecords
         /\ spans[within[f][n]].ctx \in DOMAIN ctxs /\ ctxs[spans[within[f][n]].ctx] \in CtxRecords
  BY Records DEF Ranged

LEMMA ExtractDoes ==
  ASSUME Types, Ranged, NEW f \in Flows, Extract(f)
  PROVE  LET s == Last(within[f])
             c == spans[s].ctx
         IN  /\ within[f] # <<>> /\ s = within[f][Len(within[f])] /\ s \in DOMAIN spans
             /\ \E x \in SpanRecords, y \in CtxRecords :
                  /\ Touches(s, x, y) /\ x.depth = spans[s].depth
                  /\ y.segment = ctxs[c].segment /\ y.nspans = ctxs[c].nspans
<1> DEFINE s == Last(within[f])
           c == spans[s].ctx
<1>1. within[f] # <<>> /\ within[f] \in Seq(Nat)
  BY DEF Extract, InPoll, Types, FlowType
<1>2. s = within[f][Len(within[f])] /\ Len(within[f]) \in DOMAIN within[f]
  BY <1>1 DEF Last
<1>3. s \in DOMAIN spans /\ spans[s] \in SpanRecords /\ c \in DOMAIN ctxs /\ ctxs[c] \in CtxRecords
  BY <1>2, InRange
<1> DEFINE Done(x, trace) ==
             /\ spans' = [spans EXCEPT ![s] = x] /\ ctxs' = [ctxs EXCEPT ![c] = Relate(@, trace)]
             /\ x \in SpanRecords /\ x.ctx = spans[s].ctx /\ x.sid = spans[s].sid
             /\ x.pid = spans[s].pid /\ x.call = spans[s].call /\ x.depth = spans[s].depth
<1>4. \E x \in SpanRecords : \E trace \in Int : Done(x, trace)
  <2>1. ASSUME NEW r \in wire, spans' = [spans EXCEPT ![s].refs = @ \cup {r}],
               ctxs' = [ctxs EXCEPT ![c] = Relate(@, r.trace)]
        PROVE  \E x \in SpanRecords : \E trace \in Int : Done(x, trace)
    <3> DEFINE v == spans[s]
               x == [v EXCEPT !.refs = v.refs \cup {r}]
               t == r.trace
    <3>1. spans' = [spans EXCEPT ![s] = x] /\ ctxs' = [ctxs EXCEPT ![c] = Relate(@, t)]
      <4>1. spans' = [spans EXCEPT ![s].refs = spans[s].refs \cup {r}]
        BY <2>1
      <4>2. spans' = [spans EXCEPT ![s] = x]
        BY <4>1
      <4> QED
        BY <2>1, <4>2
    <3>2. r \in Refs /\ t \in Int /\ v \in SpanRecords
      BY <1>3 DEF Types, Refs
    <3>3. x \in SpanRecords /\ x.ctx = v.ctx /\ x.sid = v.sid /\ x.pid = v.pid /\ x.call = v.call /\ x.depth = v.depth
      <4> HIDE DEF v
      <4> QED
        BY ONLY <3>2 DEF SpanRecords
    <3> HIDE DEF x, t
    <3>4. Done(x, t)
      BY <3>1, <3>3
    <3> QED
      BY <3>2, <3>3, <3>4
  <2>2. ASSUME UNCHANGED spans, ctxs' = [ctxs EXCEPT ![c] = Relate(@, OtherTrace)]
        PROVE  \E x \in SpanRecords : \E trace \in Int : Done(x, trace)
    <3>1. spans' = [spans EXCEPT ![s] = spans[s]] /\ OtherTrace \in Int
      BY <2>2, ExceptSame DEF OtherTrace, Types
    <3>2. Done(spans[s], OtherTrace)
      BY <1>3, <2>2, <3>1
    <3> QED
      BY <1>3, <3>1, <3>2
  <2> QED
    BY <2>1, <2>2 DEF Extract
<1>5. PICK x \in SpanRecords, trace \in Int : Done(x, trace)
  BY <1>4
<1> DEFINE y == Relate(ctxs[c], trace)
<1>6. /\ y \in CtxRecords /\ y.noop = ctxs[c].noop /\ y.next = ctxs[c].next
      /\ y.segment = ctxs[c].segment /\ y.nspans = ctxs[c].nspans
  BY <1>3, RelateDoes
<1>7. Touches(s, x, y)
  <2>1. ctxs' = [ctxs EXCEPT ![c] = y]
    BY <1>5
  <2> HIDE DEF y, s
  <2> QED
    BY <1>5, <1>6, <2>1 DEF Touches
<1> HIDE DEF y
<1> QED
  BY <1>1, <1>2, <1>3, <1>5, <1>6, <1>7

\* One block of the span s ends, and with it the span if it is the last.
Closes(s, x, y, last) ==
  LET c == spans[s].ctx
  IN  /\ Touches(s, x, y) /\ x.depth = spans[s].depth - 1 /\ y.traces = ctxs[c].traces
      /\ x.comp = spans[s].comp /\ x.refs = spans[s].refs
      /\ y.nspans = IF last THEN ctxs[c].nspans - 1 ELSE ctxs[c].nspans
      /\ y.segment = IF last /\ ~ctxs[c].noop THEN Append(ctxs[c].segment, s) ELSE ctxs[c].segment

LEMMA EndDoes ==
  ASSUME Types, Ranged, NEW f \in Flows, NEW g \in Flows, NEW n \in DOMAIN within[f], EndSpan(f, n, g)
  PROVE  LET s == within[f][n]
             c == spans[s].ctx
             last == spans[s].depth = 1 /\ g \notin unset
         IN  /\ s \in DOMAIN spans /\ \E x \in SpanRecords, y \in CtxRecords : Closes(s, x, y, last)
             /\ within' = [within EXCEPT ![f] = RemoveAt(@, n)]
             /\ stack' = [stack EXCEPT ![g] = IF last THEN RemoveFirst(@, s) ELSE @]
             /\ stopping' = [stopping EXCEPT ![g] = IF last THEN c ELSE @]
             /\ lost' = IF spans[s].depth = 1 /\ g \in unset THEN lost \cup {s} ELSE lost
<1> DEFINE s == within[f][n]
           c == spans[s].ctx
           last == spans[s].depth = 1 /\ g \notin unset
           v == spans[s]
           w == ctxs[c]
           x == [v EXCEPT !.depth = v.depth - 1]
           seg == IF w.noop THEN w.segment ELSE Append(w.segment, s)
           y == IF last THEN [w EXCEPT !.nspans = w.nspans - 1, !.segment = seg] ELSE w
<1>1. s \in DOMAIN spans /\ v \in SpanRecords /\ c \in DOMAIN ctxs /\ w \in CtxRecords /\ s \in Nat
  BY InRange, Records
<1>2. /\ spans' = [spans EXCEPT ![s].depth = @ - 1]
      /\ within' = [within EXCEPT ![f] = RemoveAt(@, n)]
      /\ last => /\ ctxs' = [ctxs EXCEPT ![c].nspans = @ - 1, ![c].segment = IF ctxs[c].noop THEN @ ELSE Append(@, s)]
                 /\ stack' = [stack EXCEPT ![g] = RemoveFirst(@, s)]
                 /\ stopping' = [stopping EXCEPT ![g] = c]
      /\ ~last => ctxs' = ctxs /\ stack' = stack /\ stopping' = stopping
      /\ lost' = IF spans[s].depth = 1 /\ g \in unset THEN lost \cup {s} ELSE lost
  BY Zenon DEF EndSpan
<1>3. spans' = [spans EXCEPT ![s] = x]
  BY <1>2, Zenon
<1>4. /\ x \in SpanRecords /\ x.ctx = v.ctx /\ x.sid = v.sid /\ x.pid = v.pid /\ x.call = v.call
      /\ x.depth = v.depth - 1 /\ x.comp = v.comp /\ x.refs = v.refs
  <2> HIDE DEF v
  <2>1. v.depth - 1 \in Int
    BY <1>1 DEF SpanRecords
  <2> QED
    BY ONLY <1>1, <2>1 DEF SpanRecords
<1>5. seg \in Seq(Nat) /\ w.nspans - 1 \in Int
  <2> HIDE DEF w, s
  <2>1. w.segment \in Seq(Nat) /\ w.nspans \in Int
    BY <1>1 DEF CtxRecords
  <2> QED
    BY <1>1, <2>1
<1>6. /\ y \in CtxRecords /\ y.noop = w.noop /\ y.next = w.next /\ y.traces = w.traces
      /\ y.nspans = IF last THEN w.nspans - 1 ELSE w.nspans
      /\ y.segment = IF last THEN seg ELSE w.segment
  <2> HIDE DEF w, seg, last
  <2> QED
    BY <1>1, <1>5 DEF CtxRecords
<1>7. ctxs' = [ctxs EXCEPT ![c] = y]
  <2>1. CASE last
    <3>1. ctxs' = [ctxs EXCEPT ![c] = [w EXCEPT !.nspans = w.nspans - 1, !.segment = seg]]
      BY <1>2, <2>1, Zenon
    <3> QED
      BY <2>1, <3>1
  <2>2. CASE ~last
    <3>1. ctxs' = ctxs /\ y = ctxs[c]
      BY <1>2, <2>2, Zenon
    <3> HIDE DEF y
    <3> QED
      BY <3>1, ExceptSame DEF Types
  <2> QED
    BY <2>1, <2>2
<1>8. Touches(s, x, y)
  <2> HIDE DEF x, y
  <2> QED
    BY <1>3, <1>4, <1>6, <1>7 DEF Touches
<1>9. /\ stack' = [stack EXCEPT ![g] = IF last THEN RemoveFirst(@, s) ELSE @]
      /\ stopping' = [stopping EXCEPT ![g] = IF last THEN c ELSE @]
  <2>1. stack = [stack EXCEPT ![g] = @] /\ stopping = [stopping EXCEPT ![g] = @]
    BY DEF Types, FlowType
  <2> HIDE DEF c, last, s
  <2> QED
    BY <1>2, <2>1
<1>10. y.segment = IF last /\ ~w.noop THEN Append(w.segment, s) ELSE w.segment
  <2> HIDE DEF y
  <2> QED
    BY <1>6
<1>11. Closes(s, x, y, last)
  <2> HIDE DEF x, y, s, last
  <2> QED
    BY <1>4, <1>6, <1>8, <1>10 DEF Closes
<1> HIDE DEF x, y
<1> QED
  BY <1>1, <1>2, <1>4, <1>6, <1>9, <1>11

LEMMA TouchedAre ==
  ASSUME Types, Ranged, NEW s \in DOMAIN spans, NEW x \in SpanRecords, NEW y \in CtxRecords, Touches(s, x, y)
  PROVE  /\ spans' \in Seq(SpanRecords) /\ DOMAIN spans' = DOMAIN spans /\ Len(spans') = Len(spans)
         /\ ctxs' \in Seq(CtxRecords) /\ DOMAIN ctxs' = DOMAIN ctxs
         /\ spans'[s] = x /\ ctxs'[spans[s].ctx] = y
         /\ \A t \in DOMAIN spans : /\ t # s => spans'[t] = spans[t]
                                    /\ spans'[t].ctx = spans[t].ctx /\ spans'[t].call = spans[t].call
                                    /\ spans'[t].sid = spans[t].sid /\ spans'[t].pid = spans[t].pid
         /\ \A d \in DOMAIN ctxs : /\ d # spans[s].ctx => ctxs'[d] = ctxs[d]
                                   /\ ctxs'[d].noop = ctxs[d].noop /\ ctxs'[d].next = ctxs[d].next
<1> DEFINE c == spans[s].ctx
<1>1. spans \in Seq(SpanRecords) /\ ctxs \in Seq(CtxRecords) /\ c \in DOMAIN ctxs
  BY DEF Types, Ranged
<1>2. /\ spans' = [spans EXCEPT ![s] = x] /\ ctxs' = [ctxs EXCEPT ![c] = y]
      /\ x.ctx = spans[s].ctx /\ x.sid = spans[s].sid /\ x.pid = spans[s].pid /\ x.call = spans[s].call
      /\ y.noop = ctxs[c].noop /\ y.next = ctxs[c].next
  BY DEF Touches
<1>3. /\ spans' \in Seq(SpanRecords) /\ DOMAIN spans' = DOMAIN spans /\ Len(spans') = Len(spans)
      /\ spans'[s] = x /\ \A t \in DOMAIN spans : t # s => spans'[t] = spans[t]
  BY <1>1, <1>2
<1>4. /\ ctxs' \in Seq(CtxRecords) /\ DOMAIN ctxs' = DOMAIN ctxs
      /\ ctxs'[c] = y /\ \A d \in DOMAIN ctxs : d # c => ctxs'[d] = ctxs[d]
  <2> HIDE DEF c
  <2> QED
    BY <1>1, <1>2
<1> QED
  BY <1>2, <1>3, <1>4

-----------------------------------------------------------------------------
(* The kinds of steps.                                                     *)

\* A span x is created in flow f: in a context that exists, open if it is a real one, or in a new one.
Created(f, x) ==
  /\ AtLiberty(f) /\ f \notin raised /\ Len(spans) < MaxSpans
  /\ x \in SpanRecords /\ spans' = Append(spans, x) /\ x.depth = 0
  /\ x.call \in calls \cup {Nothing} /\ (x.call # Nothing => ~InNoop(f))
  /\ ctxs' \in Seq(CtxRecords) /\ Len(ctxs') \in {Len(ctxs), Len(ctxs) + 1}
  /\ x.ctx \in DOMAIN ctxs' /\ (x.call = Nothing <=> ctxs'[x.ctx].noop)
  /\ \A c \in DOMAIN ctxs : /\ ctxs'[c].noop = ctxs[c].noop /\ ctxs'[c].nspans = ctxs[c].nspans
                            /\ ctxs'[c].segment = ctxs[c].segment
                            /\ c # x.ctx => ctxs'[c] = ctxs[c]
  /\ \A c \in DOMAIN ctxs' \ DOMAIN ctxs : c = x.ctx /\ ctxs'[c].nspans = 0 /\ ctxs'[c].segment = <<>>
  /\ x.call # Nothing =>
       /\ ctxs'[x.ctx].next = x.sid + 1
       /\ x.ctx \notin DOMAIN ctxs => x.sid = 0 /\ x.pid = -1
       /\ x.ctx \in DOMAIN ctxs => /\ ~NoTop(f) /\ Parent(f).depth # 0 /\ Parent(f).ctx = x.ctx
                                   /\ x.sid = ctxs[x.ctx].next /\ x.pid = Parent(f).sid
  /\ pending' = [pending EXCEPT ![f] = [span |-> Len(spans) + 1, call |-> x.call]]
  /\ unset' = unset \ {f}
  /\ UNCHANGED <<calls, stack, running, within, stopping, captured, wire, sent, raised, lost>>

\* Flow f takes the span on top of its stack for another call.
Inherited(f, call) ==
  /\ AtLiberty(f) /\ ~NoTop(f) /\ ~InNoop(f) /\ captured[f] = NoSnapshot
  /\ ~Parent(f).call.streams /\ (Parent(f).comp = "General" \/ Parent(f).call.kind = "exit")
  /\ pending' = [pending EXCEPT ![f] = [span |-> Last(stack[f]), call |-> call]]
  /\ unset' = unset \ {f}
  /\ UNCHANGED <<calls, spans, ctxs, stack, running, within, stopping, captured, wire, sent, raised, lost>>

\* The n-th block of g ends, in flow f.
Ended(f, g, n) ==
  /\ AtLiberty(f) /\ EndSpan(g, n, f)
  /\ (spans[within[g][n]].call.streams \/ g = f)
  /\ UNCHANGED <<calls, running, pending, captured, wire, sent, raised, unset>>

LEMMA NewNoopCreates ==
  ASSUME Types, Ranged, NEW f \in Flows, NewNoop(f), unset' = unset \ {f}
  PROVE  \E x \in SpanRecords : Created(f, x)
<1>1. PICK x \in SpanRecords :
           /\ spans' = Append(spans, x) /\ x.call = Nothing /\ x.depth = 0
           /\ \/ ctxs' = ctxs /\ x.ctx \in DOMAIN ctxs /\ ctxs[x.ctx].noop
              \/ \E y \in CtxRecords : /\ ctxs' = Append(ctxs, y) /\ y.noop /\ y.nspans = 0 /\ y.segment = <<>>
                                     /\ x.ctx = Len(ctxs) + 1
  BY NewNoopDoes
<1>2. /\ AtLiberty(f) /\ f \notin raised /\ Len(spans) < MaxSpans
      /\ pending' = [pending EXCEPT ![f] = [span |-> Len(spans) + 1, call |-> x.call]]
      /\ UNCHANGED <<calls, stack, running, within, stopping, captured, wire, sent, raised, lost>>
  BY <1>1 DEF NewNoop, MayCreate, MayCall, Pend
<1> DEFINE Fits == /\ ctxs' \in Seq(CtxRecords) /\ Len(ctxs') \in {Len(ctxs), Len(ctxs) + 1}
                   /\ x.ctx \in DOMAIN ctxs' /\ ctxs'[x.ctx].noop
                   /\ \A c \in DOMAIN ctxs : ctxs'[c] = ctxs[c]
                   /\ \A c \in DOMAIN ctxs' \ DOMAIN ctxs :
                        c = x.ctx /\ ctxs'[c].nspans = 0 /\ ctxs'[c].segment = <<>>
<1>3. Fits
  <2>1. CASE ctxs' = ctxs /\ x.ctx \in DOMAIN ctxs /\ ctxs[x.ctx].noop
    BY <2>1, Records DEF Types
  <2>2. ASSUME NEW y \in CtxRecords, ctxs' = Append(ctxs, y), y.noop, y.nspans = 0, y.segment = <<>>,
               x.ctx = Len(ctxs) + 1
        PROVE  Fits
    BY <2>2 DEF Types
  <2> QED
    BY <1>1, <2>1, <2>2
<1> QED
  BY <1>1, <1>2, <1>3 DEF Created

LEMMA NewRealCreates ==
  ASSUME Types, Ranged, NEW f \in Flows, NEW kind, NewRealSpan(f, kind), unset' = unset \ {f}
  PROVE  \E x \in SpanRecords : Created(f, x)
<1>1. PICK call \in calls :
        /\ MayCreate(f, call)
        /\ NewSpan(f, call, {}) \/ \E r \in wire : NewSpan(f, call, {r})
        /\ Pend(f, Len(spans) + 1, call)
  BY DEF NewRealSpan
<1>2. call \in Calls /\ call # Nothing
  BY CallFacts DEF Types
<1>3. PICK x \in SpanRecords, y \in CtxRecords :
        x.call = call /\ x.depth = 0 /\ (Roots(x, y) \/ Extends(f, x, y))
  <2>1. \A r \in wire : {r} \in SUBSET Refs
    BY DEF Types
  <2> QED
    BY <1>1, <1>2, <2>1, NewSpanDoes
<1>4. /\ AtLiberty(f) /\ f \notin raised /\ ~InNoop(f) /\ Len(spans) < MaxSpans
      /\ pending' = [pending EXCEPT ![f] = [span |-> Len(spans) + 1, call |-> x.call]]
      /\ UNCHANGED <<calls, stack, running, within, stopping, captured, wire, sent, raised, lost>>
  BY <1>1, <1>3 DEF NewRealSpan, MayCreate, MayCall, Pend
<1>5. CASE Roots(x, y)
  <2>1. /\ spans' = Append(spans, x) /\ ctxs' = Append(ctxs, y) /\ x.ctx = Len(ctxs) + 1
        /\ x.sid = 0 /\ x.pid = -1 /\ y.noop = FALSE /\ y.next = 1 /\ y.nspans = 0 /\ y.segment = <<>>
    BY <1>5 DEF Roots
  <2>2. /\ ctxs' \in Seq(CtxRecords) /\ Len(ctxs') = Len(ctxs) + 1 /\ x.ctx \in DOMAIN ctxs'
        /\ ctxs'[x.ctx] = y /\ x.ctx \notin DOMAIN ctxs
        /\ \A c \in DOMAIN ctxs : ctxs'[c] = ctxs[c]
        /\ \A c \in DOMAIN ctxs' \ DOMAIN ctxs : c = x.ctx
    BY <2>1 DEF Types
  <2>3. x.call \in calls \cup {Nothing} /\ x.call # Nothing /\ ~ctxs'[x.ctx].noop /\ ctxs'[x.ctx].next = x.sid + 1
    BY <1>2, <1>3, <2>1, <2>2
  <2>4. Len(ctxs') \in {Len(ctxs), Len(ctxs) + 1}
        /\ \A c \in DOMAIN ctxs' \ DOMAIN ctxs : c = x.ctx /\ ctxs'[c].nspans = 0 /\ ctxs'[c].segment = <<>>
    BY <2>1, <2>2
  <2>5. \A c \in DOMAIN ctxs : /\ ctxs'[c].noop = ctxs[c].noop /\ ctxs'[c].nspans = ctxs[c].nspans
                               /\ ctxs'[c].segment = ctxs[c].segment /\ ctxs'[c] = ctxs[c]
    BY <2>2
  <2> QED
    BY <1>3, <1>4, <2>1, <2>2, <2>3, <2>4, <2>5 DEF Created
<1>6. CASE Extends(f, x, y)
  <2> DEFINE c == Parent(f).ctx
  <2>1. /\ ~NoTop(f) /\ Parent(f).depth # 0
        /\ spans' = Append(spans, x) /\ ctxs' = [ctxs EXCEPT ![c] = y]
        /\ x.ctx = c /\ x.sid = ctxs[c].next /\ x.pid = Parent(f).sid
        /\ y.noop = ctxs[c].noop /\ y.next = ctxs[c].next + 1 /\ y.nspans = ctxs[c].nspans
        /\ y.segment = ctxs[c].segment
    BY <1>6 DEF Extends
  <2>2. c \in DOMAIN ctxs /\ ~ctxs[c].noop
    <3>1. Parent(f).call # Nothing
      BY <1>4, <2>1 DEF InNoop
    <3> QED
      BY <2>1, <3>1, TopIsSpan DEF Ranged
  <2> HIDE DEF c
  <2>3. /\ ctxs' \in Seq(CtxRecords) /\ Len(ctxs') = Len(ctxs) /\ DOMAIN ctxs' = DOMAIN ctxs
        /\ ctxs'[c] = y /\ \A d \in DOMAIN ctxs : d # c => ctxs'[d] = ctxs[d]
    BY <2>1, <2>2 DEF Types
  <2>4. \A d \in DOMAIN ctxs : /\ ctxs'[d].noop = ctxs[d].noop /\ ctxs'[d].nspans = ctxs[d].nspans
                               /\ ctxs'[d].segment = ctxs[d].segment
    BY <2>1, <2>3
  <2>5. x.ctx = Parent(f).ctx
    BY <2>1 DEF c
  <2> QED
    BY <1>2, <1>3, <1>4, <2>1, <2>2, <2>3, <2>4, <2>5, Zenon DEF Created
<1> QED
  BY <1>3, <1>5, <1>6

LEMMA InheritsCall ==
  ASSUME Types, Ranged, NEW f \in Flows, InheritEntrySpan(f) \/ InheritExitSpan(f), unset' = unset \ {f}
  PROVE  \E call \in calls : Inherited(f, call)
<1>1. PICK call \in calls : /\ MayInherit(f, call) /\ Pend(f, Last(stack[f]), call)
                            /\ call.kind \in {"entry", "exit"}
                            /\ UnderServer(f) \/ UnderClient(f)
  BY DEF InheritEntrySpan, InheritExitSpan, Joins
<1>2. ~NoTop(f) /\ ~InNoop(f)
  BY <1>1, CallFacts DEF UnderServer, UnderClient, InNoop
<1>3. ~Parent(f).call.streams
  <2>1. Parent(f).call \in Calls
    BY <1>2, TopIsSpan DEF InNoop, SpanRecords
  <2> QED
    BY <1>1, <2>1 DEF UnderServer, UnderClient, Calls
<1>4. captured[f] = NoSnapshot
  <2>1. call \notin {Runnable, Nothing}
    BY <1>1, CallFacts DEF Runnable, Local
  <2> QED
    BY <1>1, <2>1 DEF MayInherit, MayCall
<1>5. AtLiberty(f)
  BY <1>1 DEF MayInherit, MayCall
<1>6. UNCHANGED <<calls, spans, ctxs, stack, running, within, stopping, captured, wire, sent, raised, lost>>
  BY DEF InheritEntrySpan, InheritExitSpan
<1> QED
  BY <1>1, <1>2, <1>3, <1>4, <1>5, <1>6 DEF Inherited, Pend, UnderServer, UnderClient

LEMMA EndCases ==
  ASSUME Types, NEW f \in Flows, Stop(f) \/ Abandon(f)
  PROVE  \E g \in Flows : \E n \in DOMAIN within[g] : Ended(f, g, n)
<1>1. CASE Stop(f)
  <2>1. Len(within[f]) \in DOMAIN within[f]
    BY <1>1 DEF Stop, Types, FlowType
  <2>2. Ended(f, f, Len(within[f]))
    BY <1>1 DEF Stop, Ended
  <2> QED
    BY <2>1, <2>2
<1>2. CASE Abandon(f)
  BY <1>2 DEF Abandon, Ended
<1> QED
  BY <1>1, <1>2

LEMMA EndTouches ==
  ASSUME Types, Ranged, NEW f \in Flows, NEW g \in Flows, NEW n \in DOMAIN within[g], Ended(f, g, n)
  PROVE  LET s == within[g][n]
         IN  /\ s \in DOMAIN spans /\ within' = [within EXCEPT ![g] = RemoveAt(@, n)]
             /\ \E x \in SpanRecords, y \in CtxRecords :
                  Closes(s, x, y, spans[s].depth = 1 /\ f \notin unset)
             /\ \E x \in SpanRecords, y \in CtxRecords : Touches(s, x, y) /\ x.depth = spans[s].depth - 1
<1> DEFINE s    == within[g][n]
           last == spans[s].depth = 1 /\ f \notin unset
<1>1. /\ s \in DOMAIN spans /\ within' = [within EXCEPT ![g] = RemoveAt(@, n)]
      /\ \E x \in SpanRecords, y \in CtxRecords : Closes(s, x, y, last)
  BY EndDoes DEF Ended
<1> HIDE DEF s, last
<1>2. \E x \in SpanRecords, y \in CtxRecords : Touches(s, x, y) /\ x.depth = spans[s].depth - 1
  BY <1>1 DEF Closes
<1> QED
  BY <1>1, <1>2 DEF s, last

LEMMA StepCases ==
  ASSUME Types, Ranged, Next
  PROVE  \E f \in Flows :
           \/ \E x \in SpanRecords : Created(f, x)
           \/ \E call \in calls : Inherited(f, call)
           \/ LateRaises(f) /\ unset' = unset \ {f}
           \/ Start(f) \/ Extract(f)
           \/ \E g \in Flows : \E n \in DOMAIN within[g] : Ended(f, g, n)
           \/ Archive(f) \/ Spawn(f) \/ RunThread(f)
<1>1. PICK f \in Flows :
        \/ Create(f) \/ Start(f) \/ Extract(f) \/ Stop(f) \/ Abandon(f) \/ Archive(f)
        \/ Spawn(f) \/ RunThread(f)
  BY DEF Next
<1>2. ASSUME Create(f)
      PROVE  \/ \E x \in SpanRecords : Created(f, x)
             \/ \E call \in calls : Inherited(f, call)
             \/ LateRaises(f) /\ unset' = unset \ {f}
  BY <1>2, NewNoopCreates, NewRealCreates, InheritsCall DEF Create, NewLocalSpan, NewEntrySpan, NewExitSpan
<1>3. ASSUME Stop(f) \/ Abandon(f)
      PROVE  \E g \in Flows : \E n \in DOMAIN within[g] : Ended(f, g, n)
  BY <1>3, EndCases
<1> QED
  BY <1>1, <1>2, <1>3

-----------------------------------------------------------------------------
(* Types, and what names what, are kept.                                   *)

LEMMA CreatedAre ==
  ASSUME Types, Ranged, NEW f \in Flows, NEW x \in SpanRecords, Created(f, x)
  PROVE  LET new == Len(spans) + 1
         IN  /\ spans' \in Seq(SpanRecords) /\ DOMAIN spans' = DOMAIN spans \cup {new}
             /\ new \notin DOMAIN spans /\ new \in Nat \ {0} /\ Len(spans') = new
             /\ spans'[new] = x /\ \A t \in DOMAIN spans : spans'[t] = spans[t] /\ t < new
             /\ DOMAIN ctxs \subseteq DOMAIN ctxs'
             /\ DOMAIN ctxs' = DOMAIN ctxs \cup {x.ctx}
<1>1. /\ spans \in Seq(SpanRecords) /\ ctxs \in Seq(CtxRecords) /\ spans' = Append(spans, x)
      /\ ctxs' \in Seq(CtxRecords) /\ Len(ctxs') \in {Len(ctxs), Len(ctxs) + 1}
  BY DEF Types, Created
<1>2. DOMAIN ctxs \subseteq DOMAIN ctxs'
  BY <1>1
<1>3. DOMAIN ctxs' = DOMAIN ctxs \cup {x.ctx}
  BY <1>2 DEF Created
<1> QED
  BY <1>1, <1>2, <1>3

LEMMA TypesCreated ==
  ASSUME Types, Ranged, NEW f \in Flows, NEW x \in SpanRecords, Created(f, x)
  PROVE  Types' /\ Ranged'
<1> DEFINE new == Len(spans) + 1
           p   == [span |-> new, call |-> x.call]
<1>1. /\ spans' \in Seq(SpanRecords) /\ DOMAIN spans' = DOMAIN spans \cup {new}
      /\ new \notin DOMAIN spans /\ new \in Nat \ {0}
      /\ spans'[new] = x /\ \A t \in DOMAIN spans : spans'[t] = spans[t]
      /\ DOMAIN ctxs \subseteq DOMAIN ctxs'
  BY CreatedAre
<1>2. /\ x.call \in calls \cup {Nothing} /\ ctxs' \in Seq(CtxRecords)
      /\ x.ctx \in DOMAIN ctxs' /\ (x.call = Nothing <=> ctxs'[x.ctx].noop)
      /\ \A c \in DOMAIN ctxs : ctxs'[c].noop = ctxs[c].noop
      /\ pending' = [pending EXCEPT ![f] = p]
      /\ UNCHANGED <<calls, stack, running, within, stopping, captured, wire, sent, raised>>
  BY DEF Created
<1>3. p \in [span : Nat, call : Calls \cup {Nothing}] /\ p.span = new /\ p.span # 0
  BY <1>1, <1>2 DEF Types
<1> HIDE DEF p
<1>4. pending' \in [Flows -> [span : Nat, call : Calls \cup {Nothing}]]
  BY <1>2, <1>3 DEF Types, FlowType
<1>5. Types'
  BY <1>1, <1>2, <1>4 DEF Types, FlowType
<1> HIDE DEF new
<1>6. Ranged'
  <2>1. \A s \in DOMAIN spans' : /\ spans'[s].ctx \in DOMAIN ctxs' /\ spans'[s].call \in calls \cup {Nothing}
                                 /\ spans'[s].call = Nothing <=> ctxs'[spans'[s].ctx].noop
    BY <1>1, <1>2 DEF Ranged
  <2>2. \A h \in Flows : /\ pending'[h].span \in {0} \cup DOMAIN spans'
                         /\ pending'[h].span = 0 => pending'[h] = NoSpan
    BY <1>1, <1>2, <1>3 DEF Ranged, Types, FlowType
  <2>3. \A n \in DOMAIN sent : sent[n] \in DOMAIN ctxs' /\ ~ctxs'[sent[n]].noop
    BY <1>1, <1>2 DEF Ranged, Segments
  <2> QED
    BY <1>1, <1>2, <2>1, <2>2, <2>3 DEF Ranged, Segments
<1> QED
  BY <1>5, <1>6

\* A step that touches one span and its context, and no more than the flows otherwise.
LEMMA TypesTouched ==
  ASSUME Types, Ranged, NEW s \in DOMAIN spans, NEW x \in SpanRecords, NEW y \in CtxRecords, Touches(s, x, y),
         FlowType', wire' \subseteq Refs, UNCHANGED <<calls, sent>>,
         \A f \in Flows : /\ \A n \in DOMAIN stack'[f] : stack'[f][n] \in DOMAIN spans
                          /\ \A n \in DOMAIN within'[f] : within'[f][n] \in DOMAIN spans
                          /\ pending'[f] \in {pending[f], NoSpan}
                          /\ stopping'[f] \in {0} \cup DOMAIN ctxs
  PROVE  Types' /\ Ranged'
<1>1. /\ spans' \in Seq(SpanRecords) /\ DOMAIN spans' = DOMAIN spans
      /\ ctxs' \in Seq(CtxRecords) /\ DOMAIN ctxs' = DOMAIN ctxs
      /\ \A t \in DOMAIN spans : spans'[t].ctx = spans[t].ctx /\ spans'[t].call = spans[t].call
      /\ \A d \in DOMAIN ctxs : ctxs'[d].noop = ctxs[d].noop
  BY TouchedAre
<1>2. Types'
  BY <1>1 DEF Types
<1>3. \A t \in DOMAIN spans' : /\ spans'[t].ctx \in DOMAIN ctxs' /\ spans'[t].call \in calls' \cup {Nothing}
                               /\ spans'[t].call = Nothing <=> ctxs'[spans'[t].ctx].noop
  BY <1>1 DEF Ranged
<1>4. \A h \in Flows : /\ pending'[h].span \in {0} \cup DOMAIN spans'
                       /\ pending'[h].span = 0 => pending'[h] = NoSpan
  BY <1>1 DEF Ranged, NoSpan
<1>5. \A n \in DOMAIN sent : sent[n] \in DOMAIN ctxs' /\ ~ctxs'[sent[n]].noop
  BY <1>1 DEF Ranged, Segments
<1>6. Ranged'
  BY <1>1, <1>3, <1>4, <1>5 DEF Ranged, Segments
<1> QED
  BY <1>2, <1>6

LEMMA TypesStart ==
  ASSUME Types, Ranged, NEW f \in Flows, Start(f)
  PROVE  Types' /\ Ranged'
<1> DEFINE s == pending[f].span
<1>1. /\ s \in DOMAIN spans
      /\ \E x \in SpanRecords, y \in CtxRecords : Touches(s, x, y)
      /\ stack' = [stack EXCEPT ![f] = IF spans[s].depth = 0 /\ ~Contains(@, s) THEN Append(@, s) ELSE @]
      /\ within' = [within EXCEPT ![f] = Append(@, s)]
      /\ wire' \subseteq Refs
  BY StartDoes
<1>2. /\ pending' = [pending EXCEPT ![f] = NoSpan] /\ captured' = [captured EXCEPT ![f] = NoSnapshot]
      /\ UNCHANGED <<calls, running, stopping, sent, raised>>
  BY Zenon DEF Start
<1> HIDE DEF s
<1>3. s \in Nat
  BY <1>1, Records
<1>4. /\ \A h \in Flows : stack[h] \in Seq(Nat) /\ within[h] \in Seq(Nat)
      /\ stack \in [Flows -> Seq(Nat)] /\ within \in [Flows -> Seq(Nat)]
  BY DEF Types, FlowType
<1>5. /\ \A h \in Flows : stack'[h] \in {stack[h], Append(stack[h], s)}
      /\ \A h \in Flows : within'[h] \in {within[h], Append(within[h], s)}
  BY <1>1, <1>4
<1>6. \A h \in Flows : /\ \A n \in DOMAIN stack'[h] : stack'[h][n] \in DOMAIN spans
                       /\ \A n \in DOMAIN within'[h] : within'[h][n] \in DOMAIN spans
  BY <1>1, <1>3, <1>4, <1>5 DEF Ranged
<1>7. stack' \in [Flows -> Seq(Nat)] /\ within' \in [Flows -> Seq(Nat)]
  BY <1>1, <1>3, <1>4
<1>8. NoSpan \in [span : Nat, call : Calls \cup {Nothing}] /\ NoSnapshot \in Refs
  BY NameFacts
<1>9. FlowType'
  BY <1>2, <1>7, <1>8 DEF Types, FlowType
<1>10. \A h \in Flows : pending'[h] \in {pending[h], NoSpan} /\ stopping'[h] \in {0} \cup DOMAIN ctxs
  BY <1>2 DEF Types, FlowType, Ranged
<1> QED
  BY <1>1, <1>2, <1>6, <1>9, <1>10, TypesTouched

LEMMA TypesExtract ==
  ASSUME Types, Ranged, NEW f \in Flows, Extract(f)
  PROVE  Types' /\ Ranged'
<1> DEFINE s == Last(within[f])
<1>1. s \in DOMAIN spans /\ \E x \in SpanRecords, y \in CtxRecords : Touches(s, x, y)
  BY ExtractDoes
<1>2. UNCHANGED <<calls, stack, running, pending, within, stopping, captured, wire, sent, raised>>
  BY DEF Extract
<1> HIDE DEF s
<1>3. FlowType' /\ wire' \subseteq Refs
  BY <1>2 DEF Types, FlowType
<1>4. \A h \in Flows : /\ \A n \in DOMAIN stack'[h] : stack'[h][n] \in DOMAIN spans
                       /\ \A n \in DOMAIN within'[h] : within'[h][n] \in DOMAIN spans
                       /\ pending'[h] \in {pending[h], NoSpan}
                       /\ stopping'[h] \in {0} \cup DOMAIN ctxs
  BY <1>2 DEF Ranged
<1> QED
  BY <1>1, <1>2, <1>3, <1>4, TypesTouched

\* A stack, or the list of blocks, loses at most one element.
LEMMA Shortened ==
  ASSUME NEW D \in SUBSET Nat, NEW seq \in Seq(Nat), \A n \in DOMAIN seq : seq[n] \in D
  PROVE  /\ \A k \in DOMAIN seq : RemoveAt(seq, k) \in Seq(Nat) /\ \A n \in DOMAIN RemoveAt(seq, k) : RemoveAt(seq, k)[n] \in D
         /\ \A e : RemoveFirst(seq, e) \in Seq(Nat) /\ \A n \in DOMAIN RemoveFirst(seq, e) : RemoveFirst(seq, e)[n] \in D
<1>1. ASSUME NEW k \in DOMAIN seq
      PROVE  RemoveAt(seq, k) \in Seq(Nat) /\ \A n \in DOMAIN RemoveAt(seq, k) : RemoveAt(seq, k)[n] \in D
  <2> DEFINE r == RemoveAt(seq, k)
  <2>1. /\ r \in Seq(Nat)
        /\ \A j \in DOMAIN r : j \in DOMAIN seq /\ j + 1 \in DOMAIN seq /\ r[j] = IF j < k THEN seq[j] ELSE seq[j + 1]
    BY RemoveAtProperties
  <2> HIDE DEF r
  <2>2. \A j \in DOMAIN r : r[j] \in D
    BY <2>1
  <2> QED
    BY <2>1, <2>2 DEF r
<1>2. ASSUME NEW e
      PROVE  RemoveFirst(seq, e) \in Seq(Nat) /\ \A n \in DOMAIN RemoveFirst(seq, e) : RemoveFirst(seq, e)[n] \in D
  <2> DEFINE r == RemoveFirst(seq, e)
  <2>1. r = seq \/ \E k \in DOMAIN seq : r = RemoveAt(seq, k)
    BY RemoveFirstRemoves
  <2> HIDE DEF r
  <2>2. r \in Seq(Nat) /\ \A n \in DOMAIN r : r[n] \in D
    BY <1>1, <2>1
  <2> QED
    BY <2>2 DEF r
<1> QED
  BY <1>1, <1>2

LEMMA TypesEnded ==
  ASSUME Types, Ranged, NEW f \in Flows, NEW g \in Flows, NEW n \in DOMAIN within[g], Ended(f, g, n)
  PROVE  Types' /\ Ranged'
<1> DEFINE s == within[g][n]
           c == spans[s].ctx
           last == spans[s].depth = 1 /\ f \notin unset
<1>1. /\ s \in DOMAIN spans /\ \E x \in SpanRecords, y \in CtxRecords : Touches(s, x, y)
      /\ within' = [within EXCEPT ![g] = RemoveAt(@, n)]
      /\ stack' = [stack EXCEPT ![f] = IF last THEN RemoveFirst(@, s) ELSE @]
      /\ stopping' = [stopping EXCEPT ![f] = IF last THEN c ELSE @]
  BY EndDoes, EndTouches DEF Ended
<1>2. UNCHANGED <<calls, running, pending, captured, wire, sent, raised>>
  BY DEF Ended
<1>3. c \in DOMAIN ctxs /\ c \in Nat /\ DOMAIN spans \subseteq Nat
  BY <1>1, Records DEF Ranged
<1> HIDE DEF s, c, last
<1>4. /\ \A h \in Flows : stack[h] \in Seq(Nat) /\ within[h] \in Seq(Nat)
      /\ stack \in [Flows -> Seq(Nat)] /\ within \in [Flows -> Seq(Nat)] /\ stopping \in [Flows -> Nat]
  BY DEF Types, FlowType
<1>5. /\ \A h \in Flows : stack'[h] \in {stack[h], RemoveFirst(stack[h], s)}
      /\ \A h \in Flows : within'[h] = IF h = g THEN RemoveAt(within[g], n) ELSE within[h]
      /\ \A h \in Flows : stopping'[h] \in {c, stopping[h]}
  BY <1>1, <1>4
<1>6. \A h \in Flows : /\ stack'[h] \in Seq(Nat) /\ within'[h] \in Seq(Nat)
                       /\ \A i \in DOMAIN stack'[h] : stack'[h][i] \in DOMAIN spans
                       /\ \A i \in DOMAIN within'[h] : within'[h][i] \in DOMAIN spans
  <2> SUFFICES ASSUME NEW h \in Flows
               PROVE  /\ stack'[h] \in Seq(Nat) /\ within'[h] \in Seq(Nat)
                      /\ \A i \in DOMAIN stack'[h] : stack'[h][i] \in DOMAIN spans
                      /\ \A i \in DOMAIN within'[h] : within'[h][i] \in DOMAIN spans
    OBVIOUS
  <2>1. /\ \A i \in DOMAIN stack[h] : stack[h][i] \in DOMAIN spans
        /\ \A i \in DOMAIN within[h] : within[h][i] \in DOMAIN spans
    BY DEF Ranged
  <2>2. stack'[h] \in Seq(Nat) /\ \A i \in DOMAIN stack'[h] : stack'[h][i] \in DOMAIN spans
    <3>1. stack'[h] \in {stack[h], RemoveFirst(stack[h], s)} /\ stack[h] \in Seq(Nat)
      BY <1>4, <1>5
    <3> DEFINE a == stack[h]
               b == RemoveFirst(a, s)
    <3>2. b \in Seq(Nat) /\ \A i \in DOMAIN b : b[i] \in DOMAIN spans
      BY <1>3, <2>1, <3>1, Shortened
    <3> HIDE DEF b
    <3>3. stack'[h] = a \/ stack'[h] = b
      BY <3>1 DEF b
    <3> QED
      BY <2>1, <3>1, <3>2, <3>3
  <2>3. within'[h] \in Seq(Nat) /\ \A i \in DOMAIN within'[h] : within'[h][i] \in DOMAIN spans
    <3> DEFINE a == within[h]
               b == RemoveAt(a, n)
    <3>1. a \in Seq(Nat) /\ (within'[h] = a \/ (h = g /\ within'[h] = b))
      BY <1>4, <1>5
    <3>2. h = g => b \in Seq(Nat) /\ \A i \in DOMAIN b : b[i] \in DOMAIN spans
      BY <1>3, <2>1, <3>1, Shortened
    <3> HIDE DEF b
    <3> QED
      BY <2>1, <3>1, <3>2
  <2> QED
    BY <2>2, <2>3
<1>7. stack' \in [Flows -> Seq(Nat)] /\ within' \in [Flows -> Seq(Nat)] /\ stopping' \in [Flows -> Nat]
  <2>1. /\ DOMAIN stack' = Flows /\ DOMAIN within' = Flows /\ DOMAIN stopping' = Flows
        /\ stack' = [h \in Flows |-> stack'[h]] /\ within' = [h \in Flows |-> within'[h]]
        /\ stopping' = [h \in Flows |-> stopping'[h]]
    BY <1>1, <1>4
  <2> QED
    BY <2>1, <1>3, <1>4, <1>5, <1>6
<1>8. FlowType'
  BY <1>2, <1>7 DEF Types, FlowType
<1>9. \A h \in Flows : pending'[h] \in {pending[h], NoSpan} /\ stopping'[h] \in {0} \cup DOMAIN ctxs
  BY <1>2, <1>3, <1>5 DEF Ranged
<1>10. wire' \subseteq Refs
  BY <1>2 DEF Types
<1> QED
  BY <1>1, <1>2, <1>6, <1>8, <1>9, <1>10, TypesTouched

LEMMA TypesFlows ==
  ASSUME Types, Ranged, NEW f \in Flows,
         Archive(f) \/ LateRaises(f) \/ Spawn(f) \/ RunThread(f) \/ (\E call \in calls : Inherited(f, call))
  PROVE  Types' /\ Ranged'
<1>1. CASE Archive(f)
  <2> DEFINE c == stopping[f]
  <2>1. /\ c \in DOMAIN ctxs /\ c \in Nat /\ (sent' = sent \/ (sent' = Append(sent, c) /\ ~ctxs[c].noop))
        /\ stopping' = [stopping EXCEPT ![f] = 0]
        /\ UNCHANGED <<calls, spans, ctxs, stack, running, pending, within, captured, wire, raised>>
    BY <1>1, Records DEF Archive, Ranged
  <2> HIDE DEF c
  <2>2. sent' \in Seq(Nat) /\ \A n \in DOMAIN sent' : sent'[n] \in Segments
    <3>1. sent \in Seq(Nat) /\ \A n \in DOMAIN sent : sent[n] \in Segments
      BY DEF Types, Ranged
    <3>2. ~ctxs[c].noop => c \in Segments
      BY <2>1 DEF Segments
    <3> DEFINE a == Append(sent, c)
    <3>3. a \in Seq(Nat) /\ \A n \in DOMAIN a : a[n] = c \/ (n \in DOMAIN sent /\ a[n] = sent[n])
      BY <2>1, <3>1
    <3>4. sent' = sent \/ (sent' = a /\ ~ctxs[c].noop)
      BY <2>1
    <3> HIDE DEF a
    <3>5. ~ctxs[c].noop => \A n \in DOMAIN a : a[n] \in Segments
      BY <3>1, <3>2, <3>3
    <3> QED
      BY <3>1, <3>3, <3>4, <3>5
  <2>3. stopping' \in [Flows -> Nat] /\ \A h \in Flows : stopping'[h] \in {0} \cup DOMAIN ctxs
    BY <2>1 DEF Types, FlowType, Ranged
  <2>4. Types'
    BY <2>1, <2>2, <2>3 DEF Types, FlowType
  <2>5. Ranged'
    BY <2>1, <2>2, <2>3 DEF Ranged, Segments
  <2> QED
    BY <2>4, <2>5
<1>2. CASE LateRaises(f)
  <2>1. /\ raised' = raised \cup {f} /\ f \in running
        /\ UNCHANGED <<calls, spans, ctxs, stack, running, pending, within, stopping, captured, wire, sent>>
    BY <1>2 DEF LateRaises, MayCall, AtLiberty, Turn
  <2>2. Types'
    BY <2>1 DEF Types, FlowType
  <2>3. Ranged'
    BY <2>1 DEF Ranged, Segments
  <2> QED
    BY <2>2, <2>3
<1>3. CASE Spawn(f)
  <2>1. PICK g \in Flows \ running : running' = running \cup {g} /\ stack' = [stack EXCEPT ![g] = stack[f]]
    BY <1>3 DEF Spawn
  <2>2. UNCHANGED <<calls, spans, ctxs, pending, within, stopping, captured, wire, sent, raised>>
    BY <1>3 DEF Spawn
  <2>3. \A h \in Flows : stack'[h] \in {stack[h], stack[f]}
    BY <2>1 DEF Types, FlowType
  <2>4. Types'
    BY <2>1, <2>2 DEF Types, FlowType
  <2>5. Ranged'
    BY <2>2, <2>3 DEF Ranged, Segments
  <2> QED
    BY <2>4, <2>5
<1>4. CASE RunThread(f)
  <2> DEFINE snap == IF NoTop(f) \/ InNoop(f) THEN NoSnapshot ELSE RefTo(Parent(f))
  <2>1. PICK g \in Flows \ running :
          running' = running \cup {g} /\ captured' \in {captured, [captured EXCEPT ![g] = snap]}
    BY <1>4 DEF RunThread
  <2>2. UNCHANGED <<calls, spans, ctxs, stack, pending, within, stopping, wire, sent, raised>>
    BY <1>4 DEF RunThread
  <2>3. snap \in Refs
    BY NameFacts, TopIsSpan, RefToIsRef
  <2> HIDE DEF snap
  <2>4. Types'
    BY <2>1, <2>2, <2>3 DEF Types, FlowType
  <2>5. Ranged'
    BY <2>2 DEF Ranged, Segments
  <2> QED
    BY <2>4, <2>5
<1>5. ASSUME NEW call \in calls, Inherited(f, call) PROVE Types' /\ Ranged'
  <2> DEFINE p == [span |-> Last(stack[f]), call |-> call]
  <2>1. /\ ~NoTop(f) /\ pending' = [pending EXCEPT ![f] = p]
        /\ UNCHANGED <<calls, spans, ctxs, stack, running, within, stopping, captured, wire, sent, raised>>
    BY <1>5 DEF Inherited
  <2>2. p.span \in DOMAIN spans /\ p.span # 0 /\ p \in [span : Nat, call : Calls \cup {Nothing}]
    BY <2>1, TopIsSpan, Records DEF Types
  <2> HIDE DEF p
  <2>3. /\ pending' \in [Flows -> [span : Nat, call : Calls \cup {Nothing}]]
        /\ \A h \in Flows : /\ pending'[h].span \in {0} \cup DOMAIN spans
                            /\ pending'[h].span = 0 => pending'[h] = NoSpan
    BY <2>1, <2>2 DEF Types, FlowType, Ranged
  <2>4. Types'
    BY <2>1, <2>3 DEF Types, FlowType
  <2>5. Ranged'
    BY <2>1, <2>3 DEF Ranged, Segments
  <2> QED
    BY <2>4, <2>5
<1> QED
  BY <1>1, <1>2, <1>3, <1>4, <1>5

LEMMA TypesStep == Types /\ Ranged /\ [Next]_vars => Types' /\ Ranged'
<1> SUFFICES ASSUME Types, Ranged, [Next]_vars PROVE Types' /\ Ranged'
  OBVIOUS
<1>1. CASE Next
  BY <1>1, StepCases, TypesCreated, TypesStart, TypesExtract, TypesEnded, TypesFlows
<1>2. CASE UNCHANGED vars
  BY <1>2 DEF vars, Types, FlowType, Ranged, Segments
<1> QED
  BY <1>1, <1>2

-----------------------------------------------------------------------------
(* Segments are trees.                                                     *)

LEMMA SpansOfFinite ==
  ASSUME Types, NEW c
  PROVE  IsFiniteSet(SpansOf(c)) /\ Cardinality(SpansOf(c)) \in Nat
<1>1. SpansOf(c) \subseteq 1 .. Len(spans) /\ Len(spans) \in Nat
  BY Records DEF SpansOf
<1>2. IsFiniteSet(1 .. Len(spans))
  BY <1>1, FS_Interval
<1> QED
  BY <1>1, <1>2, FS_Subset, FS_CardinalityType

\* A segment c whose next id is n.
TreeOf(c, n) ==
  /\ n = Cardinality(SpansOf(c))
  /\ {spans[s].sid : s \in SpansOf(c)} = 0 .. n - 1
  /\ \A s \in SpansOf(c) :
       /\ \A t \in SpansOf(c) : t < s => spans[t].sid < spans[s].sid
       /\ IF spans[s].sid = 0 THEN spans[s].pid = -1 ELSE spans[s].pid \in 0 .. spans[s].sid - 1

Tree == \A c \in Segments : TreeOf(c, ctxs[c].next)

LEMMA TreeGrows ==
  ASSUME Types, Ranged, Tree, NEW f \in Flows, NEW x \in SpanRecords, Created(f, x)
  PROVE  Tree'
<1> DEFINE new == Len(spans) + 1
<1>1. /\ DOMAIN spans' = DOMAIN spans \cup {new} /\ new \notin DOMAIN spans
      /\ spans'[new] = x /\ \A t \in DOMAIN spans : spans'[t] = spans[t] /\ t < new
      /\ DOMAIN ctxs' = DOMAIN ctxs \cup {x.ctx} /\ DOMAIN spans \subseteq Nat /\ new \in Nat
  <2>1. DOMAIN spans \subseteq Nat
    BY Records
  <2> QED
    BY <2>1, CreatedAre
<1>2. /\ x.ctx \in DOMAIN ctxs' /\ (x.call = Nothing <=> ctxs'[x.ctx].noop)
      /\ \A c \in DOMAIN ctxs : ctxs'[c].noop = ctxs[c].noop /\ (c # x.ctx => ctxs'[c] = ctxs[c])
      /\ x.call # Nothing =>
           /\ ctxs'[x.ctx].next = x.sid + 1
           /\ x.ctx \notin DOMAIN ctxs => x.sid = 0 /\ x.pid = -1
           /\ x.ctx \in DOMAIN ctxs => /\ ~NoTop(f) /\ Parent(f).ctx = x.ctx
                                       /\ x.sid = ctxs[x.ctx].next /\ x.pid = Parent(f).sid
  BY DEF Created
<1> HIDE DEF new
<1>3. ASSUME NEW c \in Segments', c # x.ctx PROVE TreeOf(c, ctxs[c].next)'
  <2>1. c \in Segments /\ ctxs'[c] = ctxs[c]
    BY <1>1, <1>2, <1>3 DEF Segments
  <2>2. SpansOf(c)' = SpansOf(c) /\ \A s \in SpansOf(c) : spans'[s] = spans[s]
    BY <1>1, <1>3 DEF SpansOf
  <2>3. TreeOf(c, ctxs[c].next)
    BY <2>1 DEF Tree
  <2> QED
    BY <2>1, <2>2, <2>3 DEF TreeOf
<1>4. ASSUME x.ctx \in Segments' PROVE TreeOf(x.ctx, ctxs[x.ctx].next)'
  <2> DEFINE c   == x.ctx
             Old == SpansOf(c)
             n   == Cardinality(Old)
  <2>1. x.call # Nothing
    BY <1>2, <1>4 DEF Segments
  <2>2. /\ SpansOf(c)' = Old \cup {new} /\ new \notin Old
        /\ \A s \in Old : spans'[s] = spans[s] /\ s < new /\ s \in Nat
    BY <1>1 DEF SpansOf
  <2>3. IsFiniteSet(Old) /\ n \in Nat
    BY SpansOfFinite
  <2>4. Cardinality(SpansOf(c)') = n + 1
    <3> HIDE DEF Old
    <3> QED
      BY <2>2, <2>3, FS_AddElement
  <2>5. /\ x.sid = n /\ (IF n = 0 THEN x.pid = -1 ELSE x.pid \in 0 .. n - 1)
        /\ {spans[s].sid : s \in Old} = 0 .. n - 1
        /\ \A s \in Old :
             /\ \A t \in Old : t < s => spans[t].sid < spans[s].sid
             /\ IF spans[s].sid = 0 THEN spans[s].pid = -1 ELSE spans[s].pid \in 0 .. spans[s].sid - 1
    <3>1. CASE c \notin DOMAIN ctxs
      <4>1. Old = {}
        BY <3>1 DEF SpansOf, Ranged
      <4>2. n = 0
        BY <4>1, FS_EmptySet
      <4>3. {spans[s].sid : s \in Old} = 0 .. n - 1
        BY <4>1, <4>2
      <4> QED
        BY <1>2, <2>1, <3>1, <4>1, <4>2, <4>3
    <3>2. CASE c \in DOMAIN ctxs
      <4>1. c \in Segments
        BY <1>2, <1>4, <3>2 DEF Segments
      <4>2. TreeOf(c, ctxs[c].next)
        BY <4>1 DEF Tree
      <4>3. /\ n = ctxs[c].next /\ {spans[s].sid : s \in Old} = 0 .. n - 1
            /\ \A s \in Old :
                 /\ \A t \in Old : t < s => spans[t].sid < spans[s].sid
                 /\ IF spans[s].sid = 0 THEN spans[s].pid = -1 ELSE spans[s].pid \in 0 .. spans[s].sid - 1
        BY <4>2 DEF TreeOf
      <4>4. Parent(f).sid \in {spans[s].sid : s \in Old}
        <5>1. Last(stack[f]) \in Old
          BY <1>2, <2>1, <3>2, TopIsSpan DEF SpansOf
        <5> QED
          BY <5>1 DEF Parent
      <4>5. x.pid \in 0 .. n - 1 /\ x.sid = n
        BY <1>2, <2>1, <3>2, <4>3, <4>4
      <4>6. n # 0
        BY <2>3, <4>5
      <4> HIDE DEF n, Old
      <4> QED
        BY <4>3, <4>5, <4>6
    <3> QED
      BY <3>1, <3>2
  <2> HIDE DEF n, Old, c
  <2>6. \A s \in Old : spans[s].sid \in 0 .. n - 1
    BY <2>5
  <2>7. {spans'[s].sid : s \in Old \cup {new}} = 0 .. n
    <3>1. {spans'[s].sid : s \in Old \cup {new}} = {spans[s].sid : s \in Old} \cup {n}
      BY <1>1, <2>2, <2>5
    <3>2. (0 .. n - 1) \cup {n} = 0 .. n
      BY <2>3
    <3> QED
      BY <2>5, <3>1, <3>2
  <2>8. \A s, t \in Old \cup {new} : t < s => spans'[t].sid < spans'[s].sid
    BY <1>1, <2>2, <2>3, <2>5, <2>6
  <2>9. \A s \in Old \cup {new} :
          IF spans'[s].sid = 0 THEN spans'[s].pid = -1 ELSE spans'[s].pid \in 0 .. spans'[s].sid - 1
    BY <1>1, <2>2, <2>5
  <2>10. ctxs'[c].next = n + 1
    BY <1>2, <2>1, <2>5 DEF c
  <2>11. TreeOf(c, ctxs[c].next)'
    <3>1. 0 .. (n + 1) - 1 = 0 .. n
      BY <2>3
    <3> QED
      BY <2>2, <2>4, <2>7, <2>8, <2>9, <2>10, <3>1 DEF TreeOf
  <2> QED
    BY <2>11 DEF c
<1> QED
  BY <1>3, <1>4 DEF Tree

\* What Tree speaks of is not changed.
TreeKept ==
  /\ DOMAIN spans' = DOMAIN spans /\ DOMAIN ctxs' = DOMAIN ctxs
  /\ \A s \in DOMAIN spans : /\ spans'[s].ctx = spans[s].ctx /\ spans'[s].sid = spans[s].sid
                             /\ spans'[s].pid = spans[s].pid
  /\ \A c \in DOMAIN ctxs : ctxs'[c].noop = ctxs[c].noop /\ ctxs'[c].next = ctxs[c].next

LEMMA TreeStays ==
  ASSUME Types, Ranged, Tree, TreeKept
  PROVE  Tree'
<1> SUFFICES ASSUME NEW c \in Segments' PROVE TreeOf(c, ctxs[c].next)'
  BY DEF Tree
<1>1. c \in Segments /\ ctxs'[c].next = ctxs[c].next
  BY DEF TreeKept, Segments
<1>2. SpansOf(c)' = SpansOf(c)
  BY DEF TreeKept, SpansOf
<1>3. \A s \in SpansOf(c) : spans'[s].sid = spans[s].sid /\ spans'[s].pid = spans[s].pid
  BY DEF TreeKept, SpansOf
<1>4. TreeOf(c, ctxs[c].next)
  BY <1>1 DEF Tree
<1> QED
  BY <1>1, <1>2, <1>3, <1>4 DEF TreeOf

LEMMA TreeKeeps ==
  ASSUME Types, Ranged, NEW f \in Flows,
         \/ Start(f) \/ Extract(f) \/ (\E g \in Flows : \E n \in DOMAIN within[g] : Ended(f, g, n))
         \/ Archive(f) \/ LateRaises(f) \/ Spawn(f) \/ RunThread(f) \/ (\E call \in calls : Inherited(f, call))
         \/ UNCHANGED vars
  PROVE  TreeKept
<1>1. ASSUME NEW s \in DOMAIN spans, NEW x \in SpanRecords, NEW y \in CtxRecords, Touches(s, x, y) PROVE TreeKept
  BY <1>1, TouchedAre DEF TreeKept
<1>2. CASE Start(f)
  BY <1>1, <1>2, StartDoes
<1>3. CASE Extract(f)
  BY <1>1, <1>3, ExtractDoes
<1>4. ASSUME NEW g \in Flows, NEW n \in DOMAIN within[g], Ended(f, g, n) PROVE TreeKept
  BY <1>1, <1>4, EndTouches
<1>5. ASSUME UNCHANGED <<spans, ctxs>> PROVE TreeKept
  BY <1>5 DEF TreeKept
<1> QED
  BY <1>2, <1>3, <1>4, <1>5 DEF Archive, LateRaises, Spawn, RunThread, Inherited, vars

LEMMA TreeStep == Types /\ Ranged /\ Tree /\ [Next]_vars => Tree'
<1> SUFFICES ASSUME Types, Ranged, Tree, [Next]_vars PROVE Tree'
  OBVIOUS
<1>1. CASE Next
  BY <1>1, StepCases, TreeGrows, TreeKeeps, TreeStays
<1>2. CASE UNCHANGED vars
  BY <1>2, FlowsAssumption, TreeKeeps, TreeStays
<1> QED
  BY <1>1, <1>2

LEMMA TreeInit == Init => Tree
  BY DEF Init, Tree, Segments

\* The ids of a segment's spans are those of a tree, whatever is created in it by which flow, in
\* every workload: SpanContext.new_span (trace/context.py:91) and sid.next.
THEOREM SegmentsAreTrees == Spec => []SpanTree
<1> DEFINE IInv == Types /\ Ranged /\ Tree
<1>1. Init => IInv
  BY TypesInit, TreeInit
<1>2. IInv /\ [Next]_vars => IInv'
  BY TypesStep, TreeStep
<1>3. IInv => SpanTree
  BY DEF Tree, TreeOf, SpanTree
<1> QED
  BY <1>1, <1>2, <1>3, PTL DEF Spec

-----------------------------------------------------------------------------
(* Suppression sticks.                                                     *)

\* Above a no-op span of the sequence q there are only such ones.
Sticks(q, sp) == \A m, n \in DOMAIN q : m < n /\ sp[q[m]].call = Nothing => sp[q[n]].call = Nothing
Real(q, sp)   == \A n \in DOMAIN q : sp[q[n]].call # Nothing

\* While a flow creates a real span nothing on its stack is a no-op span.
Suppress ==
  /\ \A f \in Flows : Sticks(stack[f], spans)
  /\ \A f \in Flows : pending[f] # NoSpan /\ spans[pending[f].span].call # Nothing => Real(stack[f], spans)
  /\ \A f \in Flows \ running : pending[f] = NoSpan

LEMMA StackTypes ==
  ASSUME Types, Ranged, NEW f \in Flows
  PROVE  stack[f] \in Seq(Nat) /\ \A n \in DOMAIN stack[f] : stack[f][n] \in DOMAIN spans
  BY DEF Types, FlowType, Ranged

LEMMA RemoveFirstSticks ==
  ASSUME NEW sp, NEW q \in Seq(Nat), Sticks(q, sp), NEW e
  PROVE  Sticks(RemoveFirst(q, e), sp) /\ (Real(q, sp) => Real(RemoveFirst(q, e), sp))
<1> DEFINE r == RemoveFirst(q, e)
<1>1. r = q \/ \E k \in DOMAIN q : r = RemoveAt(q, k)
  BY RemoveFirstRemoves
<1>2. ASSUME NEW k \in DOMAIN q, r = RemoveAt(q, k) PROVE Sticks(r, sp) /\ (Real(q, sp) => Real(r, sp))
  <2>1. r \in Seq(Nat) /\ \A j \in DOMAIN r : /\ j \in DOMAIN q /\ j + 1 \in DOMAIN q
                                              /\ r[j] = IF j < k THEN q[j] ELSE q[j + 1]
    BY <1>2, RemoveAtProperties
  <2>2. DOMAIN r \subseteq Nat /\ DOMAIN q \subseteq Nat /\ k \in Nat
    BY <2>1
  <2> HIDE DEF r
  <2>3. Sticks(r, sp)
    <3> SUFFICES ASSUME NEW m \in DOMAIN r, NEW n \in DOMAIN r, m < n, sp[r[m]].call = Nothing
                 PROVE  sp[r[n]].call = Nothing
      BY DEF Sticks
    <3>1. m + 1 < n + 1 /\ m < n + 1
      BY <2>2
    <3>2. ~(m < k) => ~(n < k)
      BY <2>2
    <3> QED
      BY <2>1, <3>1, <3>2, Zenon DEF Sticks
  <2> QED
    BY <2>1, <2>3 DEF Real
<1> HIDE DEF r
<1>3. Sticks(r, sp) /\ (Real(q, sp) => Real(r, sp))
  BY <1>1, <1>2
<1> QED
  BY <1>3 DEF r

\* Without a no-op span on top there is none.
LEMMA RealStack ==
  ASSUME Types, Ranged, Suppress, NEW f \in Flows, ~InNoop(f)
  PROVE  Real(stack[f], spans)
<1>1. stack[f] \in Seq(Nat) /\ Sticks(stack[f], spans)
  BY StackTypes DEF Suppress
<1>2. CASE NoTop(f)
  BY <1>2 DEF NoTop, Real
<1>3. CASE ~NoTop(f)
  <2>1. /\ Len(stack[f]) \in DOMAIN stack[f] /\ spans[stack[f][Len(stack[f])]].call # Nothing
    BY <1>3, TopIsSpan DEF InNoop
  <2>2. \A n \in DOMAIN stack[f] : n = Len(stack[f]) \/ n < Len(stack[f])
    BY <1>1
  <2> QED
    BY <1>1, <2>1, <2>2 DEF Sticks, Real
<1> QED
  BY <1>2, <1>3

LEMMA CallsKept ==
  ASSUME Types, Ranged, Next
  PROVE  \A s \in DOMAIN spans : s \in DOMAIN spans' /\ spans'[s].call = spans[s].call
<1> DEFINE Kept == \A s \in DOMAIN spans : s \in DOMAIN spans' /\ spans'[s].call = spans[s].call
<1>1. ASSUME NEW s \in DOMAIN spans, NEW x \in SpanRecords, NEW y \in CtxRecords, Touches(s, x, y) PROVE Kept
  BY <1>1, TouchedAre
<1>2. ASSUME NEW f \in Flows, NEW x \in SpanRecords, Created(f, x) PROVE Kept
  BY <1>2, CreatedAre
<1>3. ASSUME NEW f \in Flows, Start(f) PROVE Kept
  BY <1>1, <1>3, StartDoes
<1>4. ASSUME NEW f \in Flows, Extract(f) PROVE Kept
  BY <1>1, <1>4, ExtractDoes
<1>5. ASSUME NEW f \in Flows, NEW g \in Flows, NEW n \in DOMAIN within[g], Ended(f, g, n) PROVE Kept
  BY <1>1, <1>5, EndDoes DEF Ended, Closes
<1>6. ASSUME UNCHANGED spans PROVE Kept
  BY <1>6
<1>7. ASSUME NEW f \in Flows,
             Archive(f) \/ LateRaises(f) \/ Spawn(f) \/ RunThread(f) \/ (\E call \in calls : Inherited(f, call))
      PROVE  Kept
  BY <1>6, <1>7 DEF Archive, LateRaises, Spawn, RunThread, Inherited
<1> QED
  BY StepCases, <1>2, <1>3, <1>4, <1>5, <1>7

LEMMA SuppressStep == Types /\ Ranged /\ Suppress /\ [Next]_vars => Suppress'
<1> SUFFICES ASSUME Types, Ranged, Suppress, [Next]_vars PROVE Suppress'
  OBVIOUS
<1>1. CASE UNCHANGED vars
  BY <1>1 DEF vars, Suppress
<1>2. CASE Next
  <2>1. \A s \in DOMAIN spans : s \in DOMAIN spans' /\ spans'[s].call = spans[s].call
    BY <1>2, CallsKept
  \* What is shown of the new stacks and the old spans holds of the new spans.
  <2>2. ASSUME \A h \in Flows : \A n \in DOMAIN stack'[h] : stack'[h][n] \in DOMAIN spans,
               \A h \in Flows : Sticks(stack'[h], spans),
               \A h \in Flows : pending'[h] # NoSpan /\ spans'[pending'[h].span].call # Nothing => Real(stack'[h], spans),
               \A h \in Flows \ running' : pending'[h] = NoSpan
        PROVE  Suppress'
    <3>1. \A h \in Flows : Sticks(stack'[h], spans')
      BY <2>1, <2>2 DEF Sticks
    <3>2. \A h \in Flows : Real(stack'[h], spans) => Real(stack'[h], spans')
      BY <2>1, <2>2 DEF Real
    <3> QED
      BY <2>2, <3>1, <3>2 DEF Suppress
  <2>3. \A h \in Flows : /\ stack[h] \in Seq(Nat) /\ Sticks(stack[h], spans)
                         /\ \A n \in DOMAIN stack[h] : stack[h][n] \in DOMAIN spans
    BY StackTypes DEF Suppress
  <2>4. /\ \A h \in Flows : pending[h] # NoSpan => pending[h].span \in DOMAIN spans
        /\ \A h \in Flows : pending[h] # NoSpan /\ spans[pending[h].span].call # Nothing => Real(stack[h], spans)
        /\ \A h \in Flows : pending[h] # NoSpan /\ spans'[pending[h].span].call # Nothing => Real(stack[h], spans)
        /\ \A h \in Flows \ running : pending[h] = NoSpan
        /\ pending \in [Flows -> [span : Nat, call : Calls \cup {Nothing}]] /\ stack \in [Flows -> Seq(Nat)]
    BY <2>1 DEF Suppress, Ranged, Types, FlowType
  <2>5. \A h \in Flows : AtLiberty(h) => pending[h] = NoSpan /\ h \in running
    BY DEF AtLiberty, Turn
  <2>6. ASSUME NEW f \in Flows, AtLiberty(f), UNCHANGED <<stack, running>>, NEW p, p.span \in DOMAIN spans',
               pending' = [pending EXCEPT ![f] = p], spans'[p.span].call # Nothing => ~InNoop(f)
        PROVE  Suppress'
    <3>1. spans'[p.span].call # Nothing => Real(stack[f], spans)
      BY <2>6, RealStack
    <3> QED
      BY <2>2, <2>3, <2>4, <2>5, <2>6, <3>1
  <2>7. ASSUME NEW f \in Flows, NEW x \in SpanRecords, Created(f, x) PROVE Suppress'
    <3> DEFINE p == [span |-> Len(spans) + 1, call |-> x.call]
    <3>1. p.span \in DOMAIN spans' /\ spans'[p.span] = x
      BY <2>7, CreatedAre
    <3>2. /\ AtLiberty(f) /\ UNCHANGED <<stack, running>> /\ pending' = [pending EXCEPT ![f] = p]
          /\ x.call # Nothing => ~InNoop(f)
      BY <2>7 DEF Created
    <3> HIDE DEF p
    <3> QED
      BY <2>6, <3>1, <3>2
  <2>8. ASSUME NEW f \in Flows, NEW call \in calls, Inherited(f, call) PROVE Suppress'
    <3> DEFINE p == [span |-> Last(stack[f]), call |-> call]
    <3>1. p.span \in DOMAIN spans'
      BY <2>1, <2>8, TopIsSpan DEF Inherited
    <3>2. AtLiberty(f) /\ UNCHANGED <<stack, running>> /\ pending' = [pending EXCEPT ![f] = p] /\ ~InNoop(f)
      BY <2>8 DEF Inherited
    <3> HIDE DEF p
    <3> QED
      BY <2>6, <3>1, <3>2
  <2>9. ASSUME NEW f \in Flows, Start(f) PROVE Suppress'
    <3> DEFINE s == pending[f].span
               q == Append(stack[f], s)
    <3>1. /\ s \in DOMAIN spans /\ pending[f] # NoSpan
          /\ stack' = [stack EXCEPT ![f] = IF spans[s].depth = 0 /\ ~Contains(@, s) THEN Append(@, s) ELSE @]
      BY <2>9, StartDoes
    <3>2. pending' = [pending EXCEPT ![f] = NoSpan] /\ UNCHANGED running
      BY <2>9, Zenon DEF Start
    <3>3. s \in Nat /\ (spans[s].call # Nothing => Real(stack[f], spans))
      BY <2>4, <3>1, Records
    <3> HIDE DEF s
    <3>4. /\ q \in Seq(Nat) /\ DOMAIN q = 1 .. Len(stack[f]) + 1 /\ q[Len(stack[f]) + 1] = s
          /\ \A n \in 1 .. Len(stack[f]) : n \in DOMAIN stack[f] /\ q[n] = stack[f][n]
          /\ Len(stack[f]) \in Nat /\ Sticks(stack[f], spans)
      BY <2>3, <3>3
    <3>5. \A h \in Flows : stack'[h] = stack[h] \/ (h = f /\ stack'[h] = q)
      BY <2>4, <3>1
    <3> HIDE DEF q
    <3>6. (\A n \in DOMAIN q : q[n] \in DOMAIN spans) /\ Sticks(q, spans)
      <4>1. \A n \in DOMAIN q : (n \in 1 .. Len(stack[f])) \/ n = Len(stack[f]) + 1
        BY <3>4
      <4>2. \A n \in DOMAIN q : q[n] \in DOMAIN spans
        BY <2>3, <3>1, <3>4, <4>1
      <4>3. ASSUME NEW m \in DOMAIN q, NEW n \in DOMAIN q, m < n, spans[q[m]].call = Nothing
            PROVE  spans[q[n]].call = Nothing
        <5>1. m \in 1 .. Len(stack[f])
          BY <3>4, <4>3
        <5>2. CASE n \in 1 .. Len(stack[f])
          BY <3>4, <4>3, <5>1, <5>2 DEF Sticks
        <5>3. CASE n = Len(stack[f]) + 1
          BY <3>3, <3>4, <4>3, <5>1, <5>3 DEF Real
        <5> QED
          BY <4>1, <5>2, <5>3
      <4> QED
        BY <4>2, <4>3 DEF Sticks
    <3>7. \A h \in Flows : pending'[h] # NoSpan => h # f /\ pending'[h] = pending[h]
      BY <2>4, <3>2
    <3>8. \A h \in Flows \ running' : pending'[h] = NoSpan
      BY <2>4, <3>2
    <3> QED
      BY <2>2, <2>3, <2>4, <3>5, <3>6, <3>7, <3>8
  <2>10. ASSUME UNCHANGED <<stack, pending, running>> PROVE Suppress'
    BY <2>2, <2>3, <2>4, <2>10
  <2>11. ASSUME NEW f \in Flows, Extract(f) \/ Archive(f) \/ LateRaises(f) PROVE Suppress'
    BY <2>10, <2>11 DEF Extract, Archive, LateRaises
  <2>12. ASSUME NEW f \in Flows, NEW g \in Flows, NEW n \in DOMAIN within[g], Ended(f, g, n) PROVE Suppress'
    <3> DEFINE s == within[g][n]
               r(h) == RemoveFirst(stack[h], s)
    <3>1. /\ stack' = [stack EXCEPT ![f] = IF spans[s].depth = 1 /\ f \notin unset THEN RemoveFirst(@, s) ELSE @]
          /\ UNCHANGED <<pending, running>>
      BY <2>12, EndDoes DEF Ended
    <3>2. \A h \in Flows : stack'[h] \in {stack[h], r(h)}
      BY <2>4, <3>1
    <3>3. ASSUME NEW h \in Flows
          PROVE  /\ Sticks(r(h), spans) /\ (Real(stack[h], spans) => Real(r(h), spans))
                 /\ \A i \in DOMAIN r(h) : r(h)[i] \in DOMAIN spans
      <4>1. DOMAIN spans \subseteq Nat
        BY Records
      <4> QED
        BY <2>3, <4>1, RemoveFirstSticks, Shortened
    <3> HIDE DEF r
    <3> QED
      BY <2>2, <2>3, <2>4, <3>1, <3>2, <3>3
  <2>13. ASSUME NEW f \in Flows, Spawn(f) PROVE Suppress'
    <3>1. PICK g \in Flows \ running : running' = running \cup {g} /\ stack' = [stack EXCEPT ![g] = stack[f]]
      BY <2>13 DEF Spawn
    <3>2. UNCHANGED pending
      BY <2>13 DEF Spawn
    <3>3. \A h \in Flows : stack'[h] = IF h = g THEN stack[f] ELSE stack[h]
      BY <2>4, <3>1
    <3> QED
      BY <2>2, <2>3, <2>4, <3>1, <3>2, <3>3
  <2>14. ASSUME NEW f \in Flows, RunThread(f) PROVE Suppress'
    <3>1. running \subseteq running' /\ UNCHANGED <<stack, pending>>
      BY <2>14 DEF RunThread
    <3> QED
      BY <2>2, <2>3, <2>4, <3>1
  <2> QED
    BY <1>2, StepCases, <2>7, <2>8, <2>9, <2>11, <2>12, <2>13, <2>14
<1> QED
  BY <1>1, <1>2

LEMMA SuppressInit == Init => Suppress
  BY DEF Init, Suppress, Sticks

\* Nothing is recorded above a no-op span, in the flow that was suppressed and in those it
\* spawns, in whatever order spans end: SpanContext.ignore_check and NoopContext.
THEOREM SuppressedForGood == Spec => []SuppressionSticks
<1> DEFINE IInv == Types /\ Ranged /\ Suppress
<1>1. Init => IInv
  BY TypesInit, SuppressInit
<1>2. IInv /\ [Next]_vars => IInv'
  BY TypesStep, SuppressStep
<1>3. IInv => SuppressionSticks
  BY DEF Suppress, Sticks, SuppressionSticks
<1> QED
  BY <1>1, <1>2, <1>3, PTL DEF Spec

-----------------------------------------------------------------------------
(* Depths and counts are those of the blocks and of the spans that are open. *)

Blocks(w, s) == {b \in Flows \X Nat : b[2] \in DOMAIN w[b[1]] /\ w[b[1]][b[2]] = s}

Depths == \A s \in DOMAIN spans : IsFiniteSet(Blocks(within, s)) /\ spans[s].depth = Cardinality(Blocks(within, s))

\* What the count of a context counts: the spans that are open, or whose end was lost.
Counted == Started \cup lost

Counts == \A c \in DOMAIN ctxs : ctxs[c].nspans = Cardinality(SpansOf(c) \cap Counted)

LEMMA WithinTypes ==
  ASSUME Types
  PROVE  /\ within \in [Flows -> Seq(Nat)]
         /\ \A f \in Flows : /\ within[f] \in Seq(Nat) /\ DOMAIN within[f] \subseteq Nat
                             /\ Len(within[f]) \in Nat /\ DOMAIN within[f] = 1 .. Len(within[f])
  BY DEF Types, FlowType

LEMMA BlocksGrow ==
  ASSUME Types, NEW f \in Flows, NEW s \in Nat, within' = [within EXCEPT ![f] = Append(@, s)], NEW t,
         IsFiniteSet(Blocks(within, t))
  PROVE  /\ IsFiniteSet(Blocks(within', t))
         /\ Cardinality(Blocks(within', t)) = Cardinality(Blocks(within, t)) + (IF t = s THEN 1 ELSE 0)
<1> DEFINE n == Len(within[f]) + 1
           B == Blocks(within, t)
<1>1. /\ n \in Nat /\ n \notin DOMAIN within[f] /\ DOMAIN within'[f] = DOMAIN within[f] \cup {n}
      /\ within'[f][n] = s /\ \A i \in DOMAIN within[f] : within'[f][i] = within[f][i]
      /\ \A h \in Flows : h # f => within'[h] = within[h]
  BY WithinTypes
<1> HIDE DEF n
<1>2. <<f, n>> \notin B
  BY <1>1 DEF Blocks
<1>3. Blocks(within', t) = IF t = s THEN B \cup {<<f, n>>} ELSE B
  <2>1. ASSUME NEW b \in Flows \X Nat PROVE b \in Blocks(within', t) <=> b \in B \/ (t = s /\ b = <<f, n>>)
    <3>1. b = <<b[1], b[2]>> /\ b[1] \in Flows /\ b[2] \in Nat
      OBVIOUS
    <3>2. CASE b[1] = f
      <4>1. b[2] = n <=> b = <<f, n>>
        BY <3>1, <3>2
      <4> QED
        BY <1>1, <3>2, <4>1 DEF Blocks
    <3>3. CASE b[1] # f
      BY <1>1, <3>3 DEF Blocks
    <3> QED
      BY <3>2, <3>3
  <2>2. Blocks(within', t) \subseteq Flows \X Nat /\ B \subseteq Flows \X Nat /\ <<f, n>> \in Flows \X Nat
    BY <1>1 DEF Blocks
  <2> HIDE DEF B
  <2> QED
    BY <2>1, <2>2
<1> HIDE DEF B
<1>4. Cardinality(B) \in Nat
  BY FS_CardinalityType DEF B
<1> QED
  BY <1>2, <1>3, <1>4, FS_AddElement DEF B

LEMMA BlocksShrink ==
  ASSUME Types, NEW g \in Flows, NEW n \in DOMAIN within[g], within' = [within EXCEPT ![g] = RemoveAt(@, n)], NEW t,
         IsFiniteSet(Blocks(within, t))
  PROVE  /\ IsFiniteSet(Blocks(within', t))
         /\ Cardinality(Blocks(within', t)) = Cardinality(Blocks(within, t)) - (IF t = within[g][n] THEN 1 ELSE 0)
<1> DEFINE S == Blocks(within, t) \ {<<g, n>>}
           T == Blocks(within', t)
           move(b) == IF b[1] = g /\ b[2] > n THEN <<g, b[2] - 1>> ELSE b
           m == [b \in S |-> move(b)]
           q == within[g]
           r == RemoveAt(q, n)
<1>1. /\ q \in Seq(Nat) /\ n \in DOMAIN q /\ DOMAIN q = 1 .. Len(q) /\ Len(q) \in Nat
      /\ within'[g] = r /\ \A h \in Flows : h # g => within'[h] = within[h]
  BY WithinTypes
<1>2. /\ DOMAIN r = 1 .. Len(q) - 1
      /\ \A j \in 1 .. Len(q) - 1 : r[j] = IF j < n THEN q[j] ELSE q[j + 1]
  <2> HIDE DEF q
  <2>1. /\ r \in Seq(Nat) /\ Len(r) = Len(q) - 1
        /\ \A j \in DOMAIN r : /\ j \in DOMAIN q /\ j + 1 \in DOMAIN q
                              /\ r[j] = IF j < n THEN q[j] ELSE q[j + 1]
    <3>1. q \in Seq(Nat) /\ n \in DOMAIN q
      BY <1>1
    <3> QED
      BY ONLY <3>1, RemoveAtProperties
  <2> HIDE DEF r
  <2> QED
    BY <2>1
<1> HIDE DEF r
<1>3. \A h \in Flows : \A i \in Nat :
        /\ <<h, i>> \in S <=> i \in DOMAIN within[h] /\ within[h][i] = t /\ ~(h = g /\ i = n)
        /\ <<h, i>> \in T <=> i \in DOMAIN within'[h] /\ within'[h][i] = t
  BY DEF Blocks
<1>4. S \subseteq Flows \X Nat /\ T \subseteq Flows \X Nat
  BY DEF Blocks
<1> HIDE DEF S, T
<1>5. \A b \in S : move(b) \in T
  <2> SUFFICES ASSUME NEW h \in Flows, NEW i \in Nat, <<h, i>> \in S PROVE move(<<h, i>>) \in T
    BY <1>4
  <2>1. CASE h # g
    BY <1>1, <1>3, <2>1
  <2>2. CASE h = g /\ i > n
    <3>1. i \in 1 .. Len(q) /\ q[i] = t
      BY <1>1, <1>3, <2>2
    <3>2. i - 1 \in 1 .. Len(q) - 1 /\ ~(i - 1 < n) /\ (i - 1) + 1 = i /\ i - 1 \in Nat
      BY <1>1, <2>2, <3>1
    <3>3. r[i - 1] = t
      BY <1>2, <3>1, <3>2
    <3>4. <<g, i - 1>> \in T
      BY <1>1, <1>2, <1>3, <3>2, <3>3
    <3> QED
      BY <2>2, <3>4
  <2>3. CASE h = g /\ ~(i > n)
    <3>1. i \in 1 .. Len(q) /\ q[i] = t /\ i # n
      BY <1>1, <1>3, <2>3
    <3>2. i \in 1 .. Len(q) - 1 /\ i < n
      BY <1>1, <2>3, <3>1
    <3> QED
      BY <1>1, <1>2, <1>3, <2>3, <3>1, <3>2
  <2> QED
    BY <2>1, <2>2, <2>3
<1>6. ASSUME NEW a \in S, NEW b \in S, move(a) = move(b) PROVE a = b
  <2>1. /\ a = <<a[1], a[2]>> /\ a[1] \in Flows /\ a[2] \in Nat
        /\ b = <<b[1], b[2]>> /\ b[1] \in Flows /\ b[2] \in Nat
    BY <1>4
  <2>2. /\ ~(a[1] = g /\ a[2] = n) /\ ~(b[1] = g /\ b[2] = n) /\ n \in Nat
    BY <1>1, <1>3, <2>1
  <2>3. /\ move(a)[1] = a[1] /\ move(a)[2] = IF a[1] = g /\ a[2] > n THEN a[2] - 1 ELSE a[2]
        /\ move(b)[1] = b[1] /\ move(b)[2] = IF b[1] = g /\ b[2] > n THEN b[2] - 1 ELSE b[2]
    BY <2>1
  <2>4. a[1] = b[1]
    BY <1>6, <2>3
  <2>5. a[2] = b[2]
    <3>1. move(a)[2] = move(b)[2]
      BY <1>6
    <3> HIDE DEF move
    <3> QED
      BY <2>1, <2>2, <2>3, <2>4, <3>1
  <2> QED
    BY <2>1, <2>4, <2>5
<1>7. ASSUME NEW d \in T PROVE \E b \in S : move(b) = d
  <2>1. PICK h \in Flows, i \in Nat : d = <<h, i>>
    BY <1>4
  <2>2. i \in DOMAIN within'[h] /\ within'[h][i] = t
    BY <1>3, <2>1
  <2>3. CASE h # g
    <3>1. d \in S
      BY <1>1, <1>3, <2>1, <2>2, <2>3
    <3>2. move(d) = d
      BY <2>1, <2>3
    <3> QED
      BY <3>1, <3>2
  <2>4. CASE h = g
    <3>1. i \in 1 .. Len(q) - 1 /\ r[i] = t
      BY <1>1, <1>2, <2>2, <2>4
    <3>2. CASE i < n
      <4>1. i \in 1 .. Len(q) /\ q[i] = t /\ ~(i > n) /\ i # n
        BY <1>1, <1>2, <3>1, <3>2
      <4>2. d \in S
        BY <1>1, <1>3, <2>1, <2>4, <4>1
      <4>3. move(d) = d
        BY <2>1, <2>4, <4>1
      <4> QED
        BY <4>2, <4>3
    <3>3. CASE ~(i < n)
      <4>1. i + 1 \in 1 .. Len(q) /\ q[i + 1] = t /\ i + 1 > n /\ i + 1 # n /\ i + 1 \in Nat /\ (i + 1) - 1 = i
        BY <1>1, <1>2, <3>1, <3>3
      <4>2. <<g, i + 1>> \in S
        BY <1>1, <1>3, <4>1
      <4>3. move(<<g, i + 1>>) = d
        BY <2>1, <2>4, <4>1
      <4> QED
        BY <4>2, <4>3
    <3> QED
      BY <3>2, <3>3
  <2> QED
    BY <2>3, <2>4
<1>8. m \in Bijection(S, T)
  <2>1. m \in [S -> T] /\ \A b \in S : m[b] = move(b)
    BY <1>5
  <2> HIDE DEF move
  <2>2. \A d \in T : \E b \in S : m[b] = d
    BY <1>7, <2>1
  <2>3. \A a, b \in S : m[a] = m[b] => a = b
    BY <1>6, <2>1
  <2> HIDE DEF m
  <2> QED
    BY <2>1, <2>2, <2>3 DEF Bijection, Injection, Surjection, IsInjective
<1>9. /\ IsFiniteSet(S)
      /\ Cardinality(S) = Cardinality(Blocks(within, t)) - (IF t = within[g][n] THEN 1 ELSE 0)
  <2>1. <<g, n>> \in Blocks(within, t) <=> t = within[g][n]
    BY <1>1 DEF Blocks
  <2>2. Cardinality(Blocks(within, t)) \in Nat
    BY FS_CardinalityType
  <2> QED
    BY <2>1, <2>2, FS_RemoveElement DEF S
<1>10. IsFiniteSet(T) /\ Cardinality(T) = Cardinality(S)
  BY <1>8, <1>9, FS_Bijection DEF ExistsBijection
<1> QED
  BY <1>9, <1>10 DEF T

LEMMA DepthFacts ==
  ASSUME Types, Ranged, Depths
  PROVE  /\ \A s \in DOMAIN spans : spans[s].depth \in Nat /\ (s \in Started <=> spans[s].depth # 0)
         /\ \A f \in Flows : \A n \in DOMAIN within[f] : within[f][n] \in Started
<1>1. ASSUME NEW s \in DOMAIN spans PROVE spans[s].depth \in Nat /\ (s \in Started <=> spans[s].depth # 0)
  <2>1. spans[s].depth \in Nat
    BY FS_CardinalityType DEF Depths
  <2> QED
    BY <2>1 DEF Started
<1>2. ASSUME NEW f \in Flows, NEW n \in DOMAIN within[f] PROVE within[f][n] \in Started
  <2>1. within[f][n] \in DOMAIN spans /\ n \in Nat
    BY WithinTypes DEF Ranged
  <2>2. <<f, n>> \in Blocks(within, within[f][n])
    BY <2>1 DEF Blocks
  <2>3. spans[within[f][n]].depth # 0
    BY <2>1, <2>2, FS_EmptySet DEF Depths
  <2> QED
    BY <1>1, <2>1, <2>3
<1> QED
  BY <1>1, <1>2

\* The steps that enter and leave no block.
LEMMA DepthsStay ==
  ASSUME Types, Ranged, Depths, UNCHANGED within, DOMAIN spans' = DOMAIN spans,
         \A s \in DOMAIN spans : spans'[s].depth = spans[s].depth
  PROVE  Depths'
  BY DEF Depths

LEMMA DepthsStep == Types /\ Ranged /\ Depths /\ [Next]_vars => Depths'
<1> SUFFICES ASSUME Types, Ranged, Depths, [Next]_vars PROVE Depths'
  OBVIOUS
<1>1. ASSUME UNCHANGED <<spans, within>> PROVE Depths'
  BY <1>1, DepthsStay
<1>2. ASSUME NEW f \in Flows, NEW x \in SpanRecords, Created(f, x) PROVE Depths'
  <2> DEFINE new == Len(spans) + 1
  <2>1. /\ DOMAIN spans' = DOMAIN spans \cup {new} /\ new \notin DOMAIN spans
        /\ spans'[new] = x /\ \A t \in DOMAIN spans : spans'[t] = spans[t]
    BY <1>2, CreatedAre
  <2>2. UNCHANGED within /\ x.depth = 0
    BY <1>2 DEF Created
  <2> HIDE DEF new
  <2>3. Blocks(within, new) = {}
    BY <2>1 DEF Blocks, Ranged
  <2> QED
    BY <2>1, <2>2, <2>3, FS_EmptySet DEF Depths
<1>3. ASSUME NEW f \in Flows, Start(f) PROVE Depths'
  <2> DEFINE s == pending[f].span
  <2>1. /\ s \in DOMAIN spans /\ within' = [within EXCEPT ![f] = Append(@, s)]
        /\ \E x \in SpanRecords, y \in CtxRecords : Touches(s, x, y) /\ x.depth = spans[s].depth + 1
    BY <1>3, StartDoes
  <2> HIDE DEF s
  <2>2. DOMAIN spans' = DOMAIN spans /\ spans'[s].depth = spans[s].depth + 1
        /\ \A t \in DOMAIN spans : t # s => spans'[t] = spans[t]
    BY <2>1, TouchedAre
  <2>3. s \in Nat
    BY <2>1, Records
  <2> SUFFICES ASSUME NEW t \in DOMAIN spans
               PROVE  IsFiniteSet(Blocks(within', t)) /\ spans'[t].depth = Cardinality(Blocks(within', t))
    BY <2>2 DEF Depths
  <2>4. /\ IsFiniteSet(Blocks(within', t))
        /\ Cardinality(Blocks(within', t)) = Cardinality(Blocks(within, t)) + (IF t = s THEN 1 ELSE 0)
    BY <2>1, <2>3, BlocksGrow DEF Depths
  <2>5. spans[t].depth = Cardinality(Blocks(within, t)) /\ spans[t].depth \in Nat
    BY DepthFacts DEF Depths
  <2> QED
    BY <2>2, <2>4, <2>5
<1>4. ASSUME NEW f \in Flows, Extract(f) PROVE Depths'
  <2> DEFINE s == Last(within[f])
  <2>1. /\ s \in DOMAIN spans
        /\ \E x \in SpanRecords, y \in CtxRecords : Touches(s, x, y) /\ x.depth = spans[s].depth
    BY <1>4, ExtractDoes
  <2>2. UNCHANGED within
    BY <1>4 DEF Extract
  <2> HIDE DEF s
  <2>3. DOMAIN spans' = DOMAIN spans /\ \A t \in DOMAIN spans : spans'[t].depth = spans[t].depth
    BY <2>1, TouchedAre
  <2> QED
    BY <2>2, <2>3, DepthsStay
<1>5. ASSUME NEW f \in Flows, NEW g \in Flows, NEW n \in DOMAIN within[g], Ended(f, g, n) PROVE Depths'
  <2> DEFINE s == within[g][n]
  <2>1. /\ s \in DOMAIN spans /\ within' = [within EXCEPT ![g] = RemoveAt(@, n)]
        /\ \E x \in SpanRecords, y \in CtxRecords : Touches(s, x, y) /\ x.depth = spans[s].depth - 1
    BY <1>5, EndTouches
  <2>2. DOMAIN spans' = DOMAIN spans /\ spans'[s].depth = spans[s].depth - 1
        /\ \A t \in DOMAIN spans : t # s => spans'[t] = spans[t]
    <3> HIDE DEF s
    <3> QED
      BY <2>1, TouchedAre
  <2> SUFFICES ASSUME NEW t \in DOMAIN spans
               PROVE  IsFiniteSet(Blocks(within', t)) /\ spans'[t].depth = Cardinality(Blocks(within', t))
    BY <2>2 DEF Depths
  <2>3. /\ IsFiniteSet(Blocks(within', t))
        /\ Cardinality(Blocks(within', t)) = Cardinality(Blocks(within, t)) - (IF t = s THEN 1 ELSE 0)
    BY <2>1, BlocksShrink, Zenon DEF Depths
  <2>4. spans[t].depth = Cardinality(Blocks(within, t)) /\ spans[t].depth \in Nat
    BY DepthFacts DEF Depths
  <2> HIDE DEF s
  <2> QED
    BY <2>2, <2>3, <2>4
<1>6. ASSUME NEW f \in Flows,
             Archive(f) \/ LateRaises(f) \/ Spawn(f) \/ RunThread(f) \/ (\E call \in calls : Inherited(f, call))
      PROVE  Depths'
  BY <1>1, <1>6 DEF Archive, LateRaises, Spawn, RunThread, Inherited
<1>7. CASE UNCHANGED vars
  BY <1>1, <1>7 DEF vars
<1>8. CASE Next
  BY <1>8, StepCases, <1>2, <1>3, <1>4, <1>5, <1>6
<1> QED
  BY <1>7, <1>8

Pending(s) == \E f \in Flows : pending[f] # NoSpan /\ pending[f].span = s

\* A flow without a contextvar, or that has not begun, is in no block and creates no span.
Unsets ==
  /\ unset \subseteq running
  /\ \A f \in Flows : f \in unset \/ f \notin running => within[f] = <<>> /\ pending[f] = NoSpan

\* A lost span is that of a stream, which nothing takes again: it is never opened again.
Losts ==
  /\ \A s \in lost : s \in DOMAIN spans /\ spans[s].depth = 0 /\ spans[s].call.streams /\ ~Pending(s)
  /\ \A s \in DOMAIN spans : spans[s].call.streams /\ Pending(s) => spans[s].depth = 0

LEMMA UnsetsStep == Types /\ Ranged /\ Unsets /\ [Next]_vars => Unsets'
<1> SUFFICES ASSUME Types, Ranged, Unsets, [Next]_vars PROVE Unsets'
  OBVIOUS
<1>1. /\ pending \in [Flows -> [span : Nat, call : Calls \cup {Nothing}]]
      /\ within \in [Flows -> Seq(Nat)] /\ running \subseteq Flows
  BY DEF Types, FlowType
<1>2. ASSUME NEW f \in Flows, UNCHANGED <<running, within>>, f \in running, unset' = unset \ {f},
             \A h \in Flows \ {f} : pending'[h] = pending[h]
      PROVE  Unsets'
  BY <1>2 DEF Unsets
<1>3. ASSUME NEW f \in Flows, NEW x \in SpanRecords, Created(f, x) PROVE Unsets'
  <2>1. f \in running /\ UNCHANGED <<running, within>> /\ unset' = unset \ {f}
    BY <1>3 DEF Created, AtLiberty, Turn
  <2>2. \A h \in Flows \ {f} : pending'[h] = pending[h]
    BY <1>1, <1>3 DEF Created
  <2> QED
    BY <1>2, <2>1, <2>2
<1>4. ASSUME NEW f \in Flows, NEW call \in calls, Inherited(f, call) PROVE Unsets'
  <2>1. f \in running /\ UNCHANGED <<running, within>> /\ unset' = unset \ {f}
    BY <1>4 DEF Inherited, AtLiberty, Turn
  <2>2. \A h \in Flows \ {f} : pending'[h] = pending[h]
    BY <1>1, <1>4 DEF Inherited
  <2> QED
    BY <1>2, <2>1, <2>2
<1>5. ASSUME NEW f \in Flows, LateRaises(f), unset' = unset \ {f} PROVE Unsets'
  <2>1. f \in running /\ UNCHANGED <<running, within, pending>>
    BY <1>5 DEF LateRaises, MayCall, AtLiberty, Turn
  <2> QED
    BY <1>2, <1>5, <2>1
<1>6. ASSUME NEW f \in Flows, Start(f) PROVE Unsets'
  <2>1. /\ within' = [within EXCEPT ![f] = Append(@, pending[f].span)] /\ pending[f] # NoSpan
        /\ pending' = [pending EXCEPT ![f] = NoSpan] /\ UNCHANGED <<running, unset>>
    BY <1>6, Zenon DEF Start
  <2>2. \A h \in Flows \ {f} : within'[h] = within[h] /\ pending'[h] = pending[h]
    BY <1>1, <2>1
  <2> QED
    BY <2>1, <2>2 DEF Unsets
<1>7. ASSUME NEW f \in Flows, NEW g \in Flows, NEW n \in DOMAIN within[g], Ended(f, g, n) PROVE Unsets'
  <2>1. within' = [within EXCEPT ![g] = RemoveAt(@, n)] /\ UNCHANGED <<running, unset, pending>>
    BY <1>7, EndTouches DEF Ended
  <2>2. \A h \in Flows \ {g} : within'[h] = within[h]
    BY <1>1, <2>1
  <2>3. within[g] # <<>>
    BY <1>7
  <2> QED
    BY <2>1, <2>2, <2>3 DEF Unsets
<1>8. ASSUME UNCHANGED <<within, pending, running, unset>> PROVE Unsets'
  BY <1>8 DEF Unsets
<1>9. ASSUME NEW f \in Flows, Extract(f) \/ Archive(f) PROVE Unsets'
  BY <1>8, <1>9 DEF Extract, Archive
<1>10. ASSUME NEW f \in Flows, Spawn(f) \/ RunThread(f) PROVE Unsets'
  <2>1. f \in running /\ UNCHANGED <<within, pending>>
    BY <1>10 DEF Spawn, RunThread, MayCall, AtLiberty, Turn
  <2>2. PICK g \in Flows \ running : running' = running \cup {g} /\ unset' \subseteq unset \cup {g}
    BY <1>10 DEF Spawn, RunThread
  <2>3. \A h \in Flows : h \in unset' \/ h \notin running' => h \in unset \/ h \notin running
    BY <2>2
  <2> QED
    BY <2>1, <2>2, <2>3 DEF Unsets
<1> QED
  BY StepCases, <1>3, <1>4, <1>5, <1>6, <1>7, <1>8, <1>9, <1>10 DEF vars

LEMMA LostsStep == Types /\ Ranged /\ Depths /\ Unsets /\ Losts /\ [Next]_vars => Losts'
<1> SUFFICES ASSUME Types, Ranged, Depths, Unsets, Losts, [Next]_vars PROVE Losts'
  OBVIOUS
<1>1. pending \in [Flows -> [span : Nat, call : Calls \cup {Nothing}]]
  BY DEF Types, FlowType
<1>2. ASSUME NEW f \in Flows, NEW x \in SpanRecords, Created(f, x) PROVE Losts'
  <2> DEFINE new == Len(spans) + 1
  <2>1. /\ DOMAIN spans' = DOMAIN spans \cup {new} /\ new \notin DOMAIN spans
        /\ spans'[new] = x /\ \A t \in DOMAIN spans : spans'[t] = spans[t]
    BY <1>2, CreatedAre
  <2>2. x.depth = 0 /\ lost' = lost /\ pending' = [pending EXCEPT ![f] = [span |-> new, call |-> x.call]]
    BY <1>2 DEF Created
  <2> HIDE DEF new
  <2>3. \A s \in DOMAIN spans : Pending(s)' => Pending(s)
    BY <1>1, <2>1, <2>2 DEF Pending
  <2> QED
    BY <2>1, <2>2, <2>3 DEF Losts
<1>3. ASSUME NEW f \in Flows, NEW call \in calls, Inherited(f, call) PROVE Losts'
  <2> DEFINE top == Last(stack[f])
  <2>1. UNCHANGED <<spans, lost>> /\ pending' = [pending EXCEPT ![f] = [span |-> top, call |-> call]]
    BY <1>3 DEF Inherited
  <2>2. top \in DOMAIN spans /\ ~spans[top].call.streams
    BY <1>3, TopIsSpan DEF Inherited
  <2> HIDE DEF top
  <2>3. \A s \in DOMAIN spans : Pending(s)' => Pending(s) \/ s = top
    BY <1>1, <2>1, <2>2 DEF Pending
  <2> QED
    BY <2>1, <2>2, <2>3 DEF Losts
<1>4. ASSUME NEW f \in Flows, Start(f) PROVE Losts'
  <2> DEFINE s == pending[f].span
  <2>1. /\ s \in DOMAIN spans /\ pending[f] # NoSpan
        /\ \E x \in SpanRecords, y \in CtxRecords : Touches(s, x, y)
    BY <1>4, StartDoes
  <2>2. pending' = [pending EXCEPT ![f] = NoSpan] /\ lost' = lost /\ \A h \in Flows \ {f} : pending[h] = NoSpan
    BY <1>4, Zenon DEF Start, Turn
  <2>3. Pending(s)
    BY <2>1 DEF Pending
  <2> HIDE DEF s
  <2>4. /\ DOMAIN spans' = DOMAIN spans /\ \A t \in DOMAIN spans : t # s => spans'[t] = spans[t]
        /\ \A t \in DOMAIN spans : spans'[t].call = spans[t].call
    BY <2>1, TouchedAre
  <2>5. \A t : ~Pending(t)'
    BY <1>1, <2>2 DEF Pending
  <2> QED
    BY <2>2, <2>3, <2>4, <2>5 DEF Losts
<1>5. ASSUME NEW f \in Flows, Extract(f) PROVE Losts'
  <2> DEFINE s == Last(within[f])
  <2>1. /\ s \in DOMAIN spans
        /\ \E x \in SpanRecords, y \in CtxRecords : Touches(s, x, y) /\ x.depth = spans[s].depth
    BY <1>5, ExtractDoes
  <2>2. UNCHANGED <<pending, lost>>
    BY <1>5 DEF Extract
  <2> HIDE DEF s
  <2>3. /\ DOMAIN spans' = DOMAIN spans
        /\ \A t \in DOMAIN spans : spans'[t].depth = spans[t].depth /\ spans'[t].call = spans[t].call
    BY <2>1, TouchedAre
  <2> QED
    BY <2>2, <2>3 DEF Losts, Pending
<1>6. ASSUME NEW f \in Flows, NEW g \in Flows, NEW n \in DOMAIN within[g], Ended(f, g, n) PROVE Losts'
  <2> DEFINE s == within[g][n]
  <2>1. /\ s \in DOMAIN spans
        /\ \E x \in SpanRecords, y \in CtxRecords : Touches(s, x, y) /\ x.depth = spans[s].depth - 1
    BY <1>6, EndTouches
  <2>2. lost' = IF spans[s].depth = 1 /\ f \in unset THEN lost \cup {s} ELSE lost
    BY <1>6, EndDoes DEF Ended
  <2>3. UNCHANGED pending
    BY <1>6 DEF Ended
  <2>4. s \in Started
    BY <1>6, DepthFacts
  <2>5. f \in unset => spans[s].call.streams
    <3>1. within[g] # <<>>
      BY <1>6
    <3> QED
      BY <1>6, <3>1 DEF Unsets, Ended
  <2> HIDE DEF s
  <2>6. /\ DOMAIN spans' = DOMAIN spans /\ spans'[s].depth = spans[s].depth - 1
        /\ \A t \in DOMAIN spans : t # s => spans'[t] = spans[t]
        /\ \A t \in DOMAIN spans : spans'[t].call = spans[t].call
    BY <2>1, TouchedAre
  <2>7. spans[s].depth > 0 /\ s \notin lost /\ (spans[s].call.streams => ~Pending(s))
    BY <2>4 DEF Started, Losts
  <2>8. \A t : Pending(t)' <=> Pending(t)
    BY <2>3 DEF Pending
  <2> QED
    BY <2>1, <2>2, <2>5, <2>6, <2>7, <2>8 DEF Losts
<1>7. ASSUME UNCHANGED <<spans, pending, lost>> PROVE Losts'
  BY <1>7 DEF Losts, Pending
<1>8. ASSUME NEW f \in Flows, Archive(f) \/ LateRaises(f) \/ Spawn(f) \/ RunThread(f) PROVE Losts'
  BY <1>7, <1>8 DEF Archive, LateRaises, Spawn, RunThread
<1> QED
  BY StepCases, <1>2, <1>3, <1>4, <1>5, <1>6, <1>7, <1>8 DEF vars

OpenOf(c) == SpansOf(c) \cap Counted

LEMMA OpenFinite ==
  ASSUME Types, NEW c
  PROVE  IsFiniteSet(OpenOf(c)) /\ Cardinality(OpenOf(c)) \in Nat
  BY SpansOfFinite, FS_Subset, FS_CardinalityType DEF OpenOf

LEMMA CountsStay ==
  ASSUME Types, Ranged, Counts, DOMAIN spans' = DOMAIN spans, DOMAIN ctxs' = DOMAIN ctxs,
         \A s \in DOMAIN spans : spans'[s].depth = spans[s].depth /\ spans'[s].ctx = spans[s].ctx,
         \A c \in DOMAIN ctxs : ctxs'[c].nspans = ctxs[c].nspans, UNCHANGED lost
  PROVE  Counts'
<1>1. \A c : (SpansOf(c) \cap Counted)' = SpansOf(c) \cap Counted
  BY DEF SpansOf, Counted, Started
<1> QED
  BY <1>1 DEF Counts

\* What a step does to one span, of context c: it is opened, ended, lost, or neither.
LEMMA CountsTouched ==
  ASSUME Types, Ranged, Depths, Counts, NEW s \in DOMAIN spans, NEW x \in SpanRecords, NEW y \in CtxRecords,
         Touches(s, x, y), x.depth \in Nat, lost' \ {s} = lost \ {s},
         y.nspans = ctxs[spans[s].ctx].nspans + (IF s \in Counted' THEN 1 ELSE 0) - (IF s \in Counted THEN 1 ELSE 0)
  PROVE  Counts'
<1> DEFINE c == spans[s].ctx
<1>1. /\ DOMAIN spans' = DOMAIN spans /\ DOMAIN ctxs' = DOMAIN ctxs
      /\ spans'[s] = x /\ ctxs'[c] = y
      /\ \A t \in DOMAIN spans : (t # s => spans'[t] = spans[t]) /\ spans'[t].ctx = spans[t].ctx
      /\ \A d \in DOMAIN ctxs : d # c => ctxs'[d] = ctxs[d]
  BY TouchedAre
<1> SUFFICES ASSUME NEW d \in DOMAIN ctxs PROVE ctxs'[d].nspans = Cardinality(OpenOf(d)')
  BY <1>1 DEF Counts, OpenOf
<1>2. ctxs[d].nspans = Cardinality(OpenOf(d)) /\ IsFiniteSet(OpenOf(d)) /\ Cardinality(OpenOf(d)) \in Nat
  BY OpenFinite DEF Counts, OpenOf
<1>3. CASE d # c
  <2>1. OpenOf(d)' = OpenOf(d)
    BY <1>1, <1>3 DEF OpenOf, SpansOf, Counted, Started
  <2> QED
    BY <1>1, <1>2, <1>3, <2>1
<1>4. CASE d = c
  <2>1. s \in OpenOf(d) <=> s \in Counted
    BY <1>4 DEF OpenOf, SpansOf
  <2>2. OpenOf(d)' = IF s \in Counted' THEN OpenOf(d) \cup {s} ELSE OpenOf(d) \ {s}
    <3>1. SpansOf(d)' = SpansOf(d) /\ s \in SpansOf(d)
      BY <1>1, <1>4 DEF SpansOf
    <3>2. \A t \in SpansOf(d) : t # s => (t \in Counted' <=> t \in Counted)
      BY <1>1 DEF SpansOf, Counted, Started
    <3> QED
      BY <3>1, <3>2 DEF OpenOf
  <2>3. y.nspans = Cardinality(OpenOf(d)) + (IF s \in Counted' THEN 1 ELSE 0) - (IF s \in OpenOf(d) THEN 1 ELSE 0)
    BY <1>2, <1>4, <2>1
  <2> DEFINE O == OpenOf(d)
  <2>4. IsFiniteSet(O) /\ Cardinality(O) \in Nat
    BY <1>2
  <2>5. /\ Cardinality(O \cup {s}) = IF s \in O THEN Cardinality(O) ELSE Cardinality(O) + 1
        /\ Cardinality(O \ {s}) = IF s \in O THEN Cardinality(O) - 1 ELSE Cardinality(O)
    BY <2>4, FS_AddElement, FS_RemoveElement
  <2>6. y.nspans = Cardinality(OpenOf(d)')
    <3> HIDE DEF O
    <3>1. CASE s \in Counted'
      <4>1. OpenOf(d)' = O \cup {s} /\ y.nspans = Cardinality(O) + 1 - (IF s \in O THEN 1 ELSE 0)
        BY <2>2, <2>3, <3>1 DEF O
      <4> QED
        BY <2>4, <2>5, <4>1
    <3>2. CASE s \notin Counted'
      <4>1. OpenOf(d)' = O \ {s} /\ y.nspans = Cardinality(O) + 0 - (IF s \in O THEN 1 ELSE 0)
        BY <2>2, <2>3, <3>2 DEF O
      <4> QED
        BY <2>4, <2>5, <4>1
    <3> QED
      BY <3>1, <3>2
  <2> QED
    BY <1>1, <1>4, <2>6
<1> QED
  BY <1>3, <1>4

LEMMA CountsStep == Types /\ Ranged /\ Depths /\ Losts /\ Counts /\ [Next]_vars => Counts'
<1> SUFFICES ASSUME Types, Ranged, Depths, Losts, Counts, [Next]_vars PROVE Counts'
  OBVIOUS
<1>1. ASSUME UNCHANGED <<spans, ctxs, lost>> PROVE Counts'
  BY <1>1, CountsStay
<1>2. ASSUME NEW f \in Flows, NEW x \in SpanRecords, Created(f, x) PROVE Counts'
  <2> DEFINE new == Len(spans) + 1
  <2>1. /\ DOMAIN spans' = DOMAIN spans \cup {new} /\ new \notin DOMAIN spans
        /\ spans'[new] = x /\ \A t \in DOMAIN spans : spans'[t] = spans[t]
    BY <1>2, CreatedAre
  <2>2. /\ x.depth = 0
        /\ \A c \in DOMAIN ctxs : ctxs'[c].nspans = ctxs[c].nspans
        /\ \A c \in DOMAIN ctxs' \ DOMAIN ctxs : ctxs'[c].nspans = 0
        /\ lost' = lost
    BY <1>2 DEF Created
  <2> HIDE DEF new
  <2>3. \A c : (SpansOf(c) \cap Counted)' = SpansOf(c) \cap Counted
    BY <2>1, <2>2 DEF SpansOf, Counted, Started, Losts
  <2>4. \A c : c \notin DOMAIN ctxs => SpansOf(c) \cap Counted = {}
    BY DEF SpansOf, Ranged
  <2> QED
    BY <2>2, <2>3, <2>4, FS_EmptySet DEF Counts
<1>3. ASSUME NEW f \in Flows, Start(f) PROVE Counts'
  <2> DEFINE s == pending[f].span
  <2>1. s \in DOMAIN spans /\ s \notin lost /\ lost' = lost
    <3>1. s \in DOMAIN spans /\ pending[f] # NoSpan
      BY <1>3, StartDoes
    <3>2. lost' = lost
      BY <1>3 DEF Start
    <3> QED
      BY <3>1, <3>2 DEF Losts, Pending
  <2>2. PICK x \in SpanRecords, y \in CtxRecords :
          /\ Touches(s, x, y) /\ x.depth = spans[s].depth + 1
          /\ y.nspans = ctxs[spans[s].ctx].nspans + (IF spans[s].depth = 0 THEN 1 ELSE 0)
    BY <1>3, StartDoes
  <2>3. spans[s].depth \in Nat /\ ctxs[spans[s].ctx].nspans \in Int
    <3>1. spans[s].ctx \in DOMAIN ctxs
      BY <2>1 DEF Ranged
    <3> QED
      BY <2>1, <3>1, DepthFacts, Records DEF CtxRecords
  <2> HIDE DEF s
  <2>4. /\ x.depth \in Nat
        /\ y.nspans = ctxs[spans[s].ctx].nspans + (IF s \in Counted' THEN 1 ELSE 0) - (IF s \in Counted THEN 1 ELSE 0)
    <3> DEFINE a == ctxs[spans[s].ctx].nspans
               d == spans[s].depth
    <3>1. /\ a \in Int /\ d \in Nat /\ x.depth = d + 1 /\ y.nspans = a + (IF d = 0 THEN 1 ELSE 0)
      BY <2>2, <2>3
    <3>2. DOMAIN spans' = DOMAIN spans /\ spans'[s] = x
      BY <2>1, <2>2, TouchedAre
    <3>3. s \in Counted' /\ (s \in Counted <=> d # 0)
      BY <2>1, <3>1, <3>2 DEF Counted, Started
    <3> HIDE DEF a, d
    <3>4. x.depth \in Nat /\ y.nspans = a + 1 - (IF d # 0 THEN 1 ELSE 0)
      BY ONLY <3>1
    <3> QED
      BY <3>3, <3>4 DEF a, d
  <2> QED
    BY <2>1, <2>2, <2>4, CountsTouched
<1>4. ASSUME NEW f \in Flows, Extract(f) PROVE Counts'
  <2> DEFINE s == Last(within[f])
  <2>1. /\ s \in DOMAIN spans
        /\ \E x \in SpanRecords, y \in CtxRecords : /\ Touches(s, x, y) /\ x.depth = spans[s].depth
                                                    /\ y.nspans = ctxs[spans[s].ctx].nspans
    BY <1>4, ExtractDoes
  <2> HIDE DEF s
  <2>2. /\ DOMAIN spans' = DOMAIN spans /\ DOMAIN ctxs' = DOMAIN ctxs
        /\ \A t \in DOMAIN spans : spans'[t].depth = spans[t].depth /\ spans'[t].ctx = spans[t].ctx
        /\ \A d \in DOMAIN ctxs : ctxs'[d].nspans = ctxs[d].nspans
        /\ lost' = lost
    BY <1>4, <2>1, TouchedAre DEF Extract
  <2> QED
    BY <2>2, CountsStay
<1>5. ASSUME NEW f \in Flows, NEW g \in Flows, NEW n \in DOMAIN within[g], Ended(f, g, n) PROVE Counts'
  <2> DEFINE s == within[g][n]
           last == spans[s].depth = 1 /\ f \notin unset
  <2>1. s \in DOMAIN spans /\ s \in Started /\ s \notin lost
    <3>1. s \in DOMAIN spans /\ s \in Started
      BY <1>5, DepthFacts DEF Ranged
    <3> HIDE DEF s
    <3> QED
      BY <3>1 DEF Losts, Started
  <2>2. PICK x \in SpanRecords, y \in CtxRecords : Closes(s, x, y, last)
    BY <1>5, EndTouches
  <2>3. spans[s].depth \in Nat /\ spans[s].depth # 0 /\ ctxs[spans[s].ctx].nspans \in Int
    <3>1. spans[s].ctx \in DOMAIN ctxs
      BY <2>1 DEF Ranged
    <3> QED
      BY <2>1, <3>1, DepthFacts, Records DEF CtxRecords
  <2>4. lost' = IF spans[s].depth = 1 /\ f \in unset THEN lost \cup {s} ELSE lost
    BY <1>5, EndDoes DEF Ended
  <2> HIDE DEF s
  <2>5. /\ Touches(s, x, y) /\ x.depth \in Nat /\ lost' \ {s} = lost \ {s}
        /\ y.nspans = ctxs[spans[s].ctx].nspans + (IF s \in Counted' THEN 1 ELSE 0) - (IF s \in Counted THEN 1 ELSE 0)
    <3> DEFINE a == ctxs[spans[s].ctx].nspans
               d == spans[s].depth
    <3>1. /\ a \in Int /\ d \in Nat /\ d # 0 /\ x.depth = d - 1 /\ y.nspans = IF last THEN a - 1 ELSE a
          /\ Touches(s, x, y)
      BY <2>2, <2>3 DEF Closes
    <3>2. DOMAIN spans' = DOMAIN spans /\ spans'[s] = x
      BY <2>1, <3>1, TouchedAre
    <3>3. s \in Counted /\ (s \in Counted' <=> ~last)
      BY <2>1, <2>4, <3>1, <3>2 DEF Counted, Started
    <3>4. x.depth \in Nat
      BY <3>1
    <3>5. y.nspans = a + (IF s \in Counted' THEN 1 ELSE 0) - 1
      <4> HIDE DEF a, d, last
      <4> QED
        BY <3>1, <3>3
    <3> QED
      BY <2>4, <3>1, <3>3, <3>4, <3>5
  <2> QED
    BY <2>1, <2>5, CountsTouched
<1>6. ASSUME NEW f \in Flows,
             Archive(f) \/ LateRaises(f) \/ Spawn(f) \/ RunThread(f) \/ (\E call \in calls : Inherited(f, call))
      PROVE  Counts'
  BY <1>1, <1>6 DEF Archive, LateRaises, Spawn, RunThread, Inherited
<1>7. CASE UNCHANGED vars
  BY <1>1, <1>7 DEF vars
<1>8. CASE Next
  BY <1>8, StepCases, <1>2, <1>3, <1>4, <1>5, <1>6
<1> QED
  BY <1>7, <1>8

LEMMA CountsInit == Init => Depths /\ Unsets /\ Losts /\ Counts
  BY DEF Init, Depths, Unsets, Losts, Counts

\* The numbers of spans, contexts and depths that the code keeps stay in their types: in
\* particular no depth and no count of open spans falls below zero, although blocks end in any
\* flow and any order: Span.stop and SpanContext.stop.
THEOREM TracingTypes == Spec => []TypeOK
<1> DEFINE IInv == Types /\ Ranged /\ Depths /\ Unsets /\ Losts /\ Counts
<1>1. Init => IInv
  BY TypesInit, CountsInit
<1>2. IInv /\ [Next]_vars => IInv'
  BY TypesStep, DepthsStep, UnsetsStep, LostsStep, CountsStep
<1>3. IInv => TypeOK
  <2> SUFFICES ASSUME IInv PROVE TypeOK
    OBVIOUS
  <2>1. ASSUME NEW s \in DOMAIN spans
        PROVE  /\ spans[s].ctx \in DOMAIN ctxs
               /\ spans[s].depth \in Nat /\ spans[s].comp \in Components
               /\ spans[s].call \in calls \cup {Nothing}
               /\ spans[s].sid \in Nat \cup {-1} /\ spans[s].pid \in Nat \cup {-1}
    BY DepthFacts, Records DEF Ranged, SpanRecords
  <2>2. ASSUME NEW c \in DOMAIN ctxs PROVE ctxs[c].nspans \in Nat /\ ctxs[c].traces # <<>>
    <3>1. ctxs[c].nspans \in Nat
      BY OpenFinite DEF Counts, OpenOf
    <3> QED
      BY <3>1, Records DEF CtxRecords, Traces
  <2>3. ASSUME NEW f \in Flows
        PROVE  /\ ToSet(stack[f]) \cup ToSet(within[f]) \subseteq DOMAIN spans
               /\ ToSet(within[f]) \subseteq Started
               /\ pending[f].span \in {0} \cup DOMAIN spans
               /\ stopping[f] \in {0} \cup DOMAIN ctxs
    BY DepthFacts DEF ToSet, Ranged
  <2>4. ToSet(sent) \subseteq Segments
    BY DEF ToSet, Ranged
  <2>5. unset \subseteq running /\ lost \subseteq DOMAIN spans
    BY DEF Unsets, Losts
  <2> QED
    BY <2>1, <2>2, <2>3, <2>4, <2>5 DEF TypeOK, Types, FlowType
<1> QED
  BY <1>1, <1>2, <1>3, PTL DEF Spec

-----------------------------------------------------------------------------
(* A segment is archived when it is complete.                              *)

Idle(f) == pending[f] = NoSpan /\ stopping[f] = 0

\* At most one flow is in the middle of an operation, and of one.
Turns ==
  /\ \A f, g \in Flows : f = g \/ Idle(f) \/ Idle(g)
  /\ \A f \in Flows : pending[f] = NoSpan \/ stopping[f] = 0

\* No flow is in the middle of an operation on the context c.
Resting(c) == \A f \in Flows : /\ pending[f] # NoSpan => spans[pending[f].span].ctx # c
                               /\ stopping[f] # c

\* What is still to be recorded of a segment.
OpenIn(c) == IF c \in Segments THEN SpansOf(c) \ (ToSet(Recorded(c)) \ Started) ELSE {}

\* What has been recorded are spans of the segment; the others are open, lost, or not started yet.
\* A recorded stream stays closed, and the first span under a snapshot has not been recorded.
RecsOf(c) ==
  /\ ToSet(Recorded(c)) \subseteq SpansOf(c)
  /\ \A s \in SpansOf(c) : s \in ToSet(Recorded(c)) \/ s \in Counted \/ Pending(s)
  /\ \A s \in ToSet(Recorded(c)) : spans[s].call.streams => spans[s].depth = 0 /\ ~Pending(s) /\ s \notin lost
  /\ \A f \in Flows : /\ pending[f] # NoSpan /\ pending[f].span \in ToSet(Recorded(c)) => captured[f] = NoSnapshot
                      /\ stopping[f] = c => Recorded(c) # <<>>

Recs ==
  /\ \A c \in Segments : RecsOf(c)
  /\ Len(ctxs) <= Len(spans) /\ Len(spans) <= MaxSpans

\* A segment in which nothing is open is archived, and one that has been archived has nothing open
\* unless it has been reopened.
Complete ==
  \A c \in Segments :
    /\ Resting(c) /\ ctxs[c].nspans = 0 => c \in ToSet(sent)
    /\ c \in ToSet(sent) \ Reopened => OpenIn(c) = {} /\ \A f \in Flows : stopping[f] # c

Base == Types /\ Ranged /\ Depths /\ Unsets /\ Losts /\ Counts /\ Turns

AInv == Base /\ Recs /\ Complete

LEMMA LibertyRests ==
  ASSUME Types, Ranged, NEW f \in Flows, AtLiberty(f)
  PROVE  (\A g \in Flows : Idle(g)) /\ (\A c \in DOMAIN ctxs : Resting(c))
<1>1. \A g \in Flows : Idle(g)
  BY DEF AtLiberty, Turn, Idle
<1>2. 0 \notin DOMAIN ctxs
  BY Records
<1> QED
  BY <1>1, <1>2 DEF Idle, Resting

LEMMA OpenCounted ==
  ASSUME Types, Ranged, Counts
  PROVE  \A c \in DOMAIN ctxs : ctxs[c].nspans = 0 <=> SpansOf(c) \cap Counted = {}
  BY OpenFinite, FS_EmptySet DEF Counts, OpenOf

LEMMA TurnsStep == Base /\ [Next]_vars => Turns'
<1> SUFFICES ASSUME Base, [Next]_vars PROVE Turns'
  OBVIOUS
<1>1. /\ pending \in [Flows -> [span : Nat, call : Calls \cup {Nothing}]] /\ stopping \in [Flows -> Nat] /\ Turns
      /\ Types /\ Ranged
  BY DEF Base, Types, FlowType
<1>2. ASSUME UNCHANGED <<pending, stopping>> PROVE Turns'
  BY <1>1, <1>2 DEF Turns, Idle
<1>3. ASSUME NEW f \in Flows, AtLiberty(f),
             \/ UNCHANGED stopping /\ \E p : pending' = [pending EXCEPT ![f] = p]
             \/ UNCHANGED pending /\ \E p : stopping' = [stopping EXCEPT ![f] = p]
      PROVE  Turns'
  <2>1. \A g \in Flows : Idle(g)
    BY <1>1, <1>3, LibertyRests
  <2>2. \A g \in Flows : g # f => pending'[g] = pending[g] /\ stopping'[g] = stopping[g]
    BY <1>1, <1>3
  <2>3. pending'[f] = pending[f] \/ stopping'[f] = stopping[f]
    BY <1>3
  <2> QED
    BY <2>1, <2>2, <2>3 DEF Turns, Idle
<1>4. ASSUME NEW f \in Flows, Start(f) \/ Archive(f) PROVE Turns'
  <2>1. \A g \in Flows : g # f => Idle(g)
    BY <1>4, Zenon DEF Start, Archive, Turn, Idle
  <2>2. \A g \in Flows : g # f => pending'[g] = pending[g] /\ stopping'[g] = stopping[g]
    BY <1>1, <1>4 DEF Start, Archive
  <2>3. pending'[f] = NoSpan /\ stopping'[f] = 0
    <3>1. CASE Start(f)
      <4>1. pending[f] # NoSpan
        BY <3>1, Zenon DEF Start
      <4>2. stopping[f] = 0
        BY <1>1, <4>1 DEF Turns
      <4> QED
        BY <1>1, <3>1, <4>2 DEF Start
    <3>2. CASE Archive(f)
      <4>1. stopping[f] # 0
        BY <3>2 DEF Archive
      <4>2. pending[f] = NoSpan
        BY <1>1, <4>1 DEF Turns
      <4> QED
        BY <1>1, <3>2, <4>2 DEF Archive
    <3> QED
      BY <1>4, <3>1, <3>2
  <2> QED
    BY <2>1, <2>2, <2>3 DEF Turns, Idle
<1>5. ASSUME NEW f \in Flows, NEW x \in SpanRecords, Created(f, x) PROVE Turns'
  BY <1>3, <1>5 DEF Created
<1>6. ASSUME NEW f \in Flows, NEW call \in calls, Inherited(f, call) PROVE Turns'
  BY <1>3, <1>6 DEF Inherited
<1>7. ASSUME NEW f \in Flows, NEW g \in Flows, NEW n \in DOMAIN within[g], Ended(f, g, n) PROVE Turns'
  <2> DEFINE p == IF spans[within[g][n]].depth = 1 /\ f \notin unset THEN spans[within[g][n]].ctx ELSE stopping[f]
  <2>1. stopping' = [stopping EXCEPT ![f] = p]
    BY <1>1, <1>7, EndDoes DEF Ended
  <2>2. AtLiberty(f) /\ UNCHANGED pending
    BY <1>7 DEF Ended
  <2> HIDE DEF p
  <2> QED
    BY <1>3, <2>1, <2>2
<1>8. ASSUME NEW f \in Flows, Extract(f) \/ LateRaises(f) \/ Spawn(f) \/ RunThread(f) PROVE Turns'
  BY <1>2, <1>8 DEF Extract, LateRaises, Spawn, RunThread
<1>9. CASE UNCHANGED vars
  BY <1>2, <1>9 DEF vars
<1>10. CASE Next
  BY <1>1, <1>10, StepCases, <1>4, <1>5, <1>6, <1>7, <1>8
<1> QED
  BY <1>9, <1>10

-----------------------------------------------------------------------------
(* What a step does to the segments.                                       *)

\* A span of seg is in st, or occurs twice.
Again(seg, st) == \E n \in DOMAIN seg : seg[n] \in st \/ \E m \in 1 .. n - 1 : seg[m] = seg[n]

LEMMA ReopenedAre ==
  /\ \A c : c \in Reopened <=> Again(Recorded(c), Started)
  /\ \A c : c \in Reopened' <=> Again(Recorded(c)', Started')
  BY DEF Reopened, Again, Recorded

LEMMA AgainGrows ==
  ASSUME NEW seg \in Seq(Nat), NEW st, NEW su, NEW s \in Nat, Again(seg, st)
  PROVE  /\ st \subseteq su => Again(seg, su)
         /\ st \subseteq su \cup {s} => Again(Append(seg, s), su)
<1>1. PICK n \in DOMAIN seg : seg[n] \in st \/ \E m \in 1 .. n - 1 : seg[m] = seg[n]
  BY DEF Again
<1>2. st \subseteq su => Again(seg, su)
  BY <1>1 DEF Again
<1>3. ASSUME st \subseteq su \cup {s} PROVE Again(Append(seg, s), su)
  <2> DEFINE q == Append(seg, s)
             k == Len(seg) + 1
  <2>1. /\ k \in DOMAIN q /\ q[k] = s /\ n \in DOMAIN q /\ n \in 1 .. k - 1
        /\ \A m \in 1 .. n : q[m] = seg[m]
    OBVIOUS
  <2> HIDE DEF q, k
  <2>2. q[n] = seg[n] /\ \A m \in 1 .. n - 1 : q[m] = seg[m]
    BY <2>1
  <2>3. seg[n] = s => Again(q, su)
    BY <2>1, <2>2 DEF Again
  <2>4. ASSUME seg[n] # s PROVE Again(q, su)
    <3>1. q[n] \in su \/ \E m \in 1 .. n - 1 : q[m] = q[n]
      BY <1>1, <1>3, <2>2, <2>4
    <3> QED
      BY <2>1, <3>1 DEF Again
  <2> QED
    BY <2>3, <2>4 DEF q
<1> QED
  BY <1>2, <1>3

LEMMA SegmentTypes ==
  ASSUME Types
  PROVE  /\ \A c : Recorded(c) \in Seq(Nat)
         /\ Segments \subseteq DOMAIN ctxs /\ 0 \notin Segments
         /\ \A c \in Segments : Recorded(c) = ctxs[c].segment
         /\ \A c : c \notin Segments => Recorded(c) = <<>>
<1>1. \A c \in DOMAIN ctxs : c # 0 /\ ctxs[c].segment \in Seq(Nat)
  BY Records DEF CtxRecords
<1>2. <<>> \in Seq(Nat)
  OBVIOUS
<1> QED
  BY <1>1, <1>2 DEF Segments, Recorded

\* A created span is one more to be recorded of its segment; nothing else changes.
CreatesIn(c, new) ==
  /\ \A d : Recorded(d)' = Recorded(d)
  /\ \A d : SpansOf(d)' = IF d = c THEN SpansOf(d) \cup {new} ELSE SpansOf(d)
  /\ Started' = Started /\ new \notin Started
  /\ Reopened' = Reopened
  /\ \A d : d # c => (d \in Segments' <=> d \in Segments)
  /\ Segments \subseteq Segments'
  /\ \A d \in Segments' \ Segments : SpansOf(d) = {}

LEMMA CreatedSegments ==
  ASSUME Base, NEW f \in Flows, NEW x \in SpanRecords, Created(f, x)
  PROVE  CreatesIn(x.ctx, Len(spans) + 1)
<1> DEFINE new == Len(spans) + 1
           c == x.ctx
<1>1. Types /\ Ranged
  BY DEF Base
<1>2. /\ DOMAIN spans' = DOMAIN spans \cup {new} /\ new \notin DOMAIN spans
      /\ spans'[new] = x /\ \A t \in DOMAIN spans : spans'[t] = spans[t]
      /\ DOMAIN ctxs \subseteq DOMAIN ctxs' /\ DOMAIN ctxs' = DOMAIN ctxs \cup {c}
  BY <1>1, CreatedAre
<1>3. /\ x.depth = 0
      /\ \A d \in DOMAIN ctxs : ctxs'[d].noop = ctxs[d].noop /\ ctxs'[d].segment = ctxs[d].segment
      /\ \A d \in DOMAIN ctxs' \ DOMAIN ctxs : ctxs'[d].segment = <<>>
  BY DEF Created
<1> HIDE DEF new, c
<1>4. \A d : SpansOf(d)' = IF d = c THEN SpansOf(d) \cup {new} ELSE SpansOf(d)
  BY <1>2 DEF SpansOf, c
<1>5. Started' = Started /\ new \notin Started
  BY <1>2, <1>3 DEF Started
<1>6. \A d \in DOMAIN ctxs : d \in Segments' <=> d \in Segments
  BY <1>2, <1>3 DEF Segments
<1>7. \A d \in Segments' \ Segments : d \in DOMAIN ctxs' \ DOMAIN ctxs
  BY <1>6 DEF Segments
<1>8. Segments \subseteq Segments' /\ Segments \subseteq DOMAIN ctxs
  BY <1>2, <1>6 DEF Segments
<1>9. \A d : d # c => (d \in Segments' <=> d \in Segments)
  BY <1>2, <1>6, <1>7, <1>8
<1>10. \A d : Recorded(d)' = Recorded(d)
  <2> SUFFICES ASSUME NEW d PROVE Recorded(d)' = Recorded(d)
    OBVIOUS
  <2>1. CASE d \in Segments
    BY <1>3, <1>8, <2>1 DEF Recorded
  <2>2. CASE d \in Segments' \ Segments
    BY <1>3, <1>7, <2>2 DEF Recorded
  <2>3. CASE d \notin Segments'
    BY <1>8, <2>3 DEF Recorded
  <2> QED
    BY <2>1, <2>2, <2>3
<1>11. \A d \in Segments' \ Segments : SpansOf(d) = {}
  BY <1>1, <1>7 DEF SpansOf, Ranged
<1>12. Reopened' = Reopened
  BY <1>5, <1>10, ReopenedAre
<1> QED
  BY <1>4, <1>5, <1>8, <1>9, <1>10, <1>11, <1>12 DEF CreatesIn, new, c

\* A span s of c is changed, and the record of c, but for the rest only what c is related to.
ChangesIn(c, s) ==
  /\ Segments' = Segments
  /\ \A d : SpansOf(d)' = SpansOf(d)
  /\ \A d : d # c => Recorded(d)' = Recorded(d)
  /\ Started' \ {s} = Started \ {s}
  /\ \A d \in Segments : d # c => ctxs'[d] = ctxs[d]
  /\ DOMAIN spans' = DOMAIN spans /\ s \in SpansOf(c)
  /\ \A t \in DOMAIN spans : t # s => spans'[t] = spans[t]
  /\ \A t \in DOMAIN spans : spans'[t].call = spans[t].call

LEMMA TouchedSegments ==
  ASSUME Base, NEW s \in DOMAIN spans, NEW x \in SpanRecords, NEW y \in CtxRecords, Touches(s, x, y),
         NEW c, c = spans[s].ctx
  PROVE  /\ ChangesIn(c, s) /\ spans'[s] = x /\ c \in DOMAIN ctxs /\ ctxs'[c] = y
         /\ c \in Segments => Recorded(c)' = y.segment
         /\ c \notin Segments => Recorded(c)' = Recorded(c)
         /\ Len(spans') = Len(spans) /\ Len(ctxs') = Len(ctxs)
<1>1. Types /\ Ranged /\ c \in DOMAIN ctxs
  BY DEF Base, Ranged
<1>2. /\ DOMAIN spans' = DOMAIN spans /\ DOMAIN ctxs' = DOMAIN ctxs /\ ctxs'[c] = y /\ spans'[s] = x
      /\ \A t \in DOMAIN spans : /\ t # s => spans'[t] = spans[t]
                                 /\ spans'[t].ctx = spans[t].ctx /\ spans'[t].call = spans[t].call
      /\ \A d \in DOMAIN ctxs : (d # c => ctxs'[d] = ctxs[d]) /\ ctxs'[d].noop = ctxs[d].noop
      /\ Len(spans') = Len(spans) /\ ctxs' \in Seq(CtxRecords) /\ ctxs \in Seq(CtxRecords)
  BY <1>1, TouchedAre DEF Types
<1>3. Segments' = Segments /\ Segments \subseteq DOMAIN ctxs
  BY <1>2 DEF Segments
<1>4. s \in SpansOf(c)
  BY DEF SpansOf
<1>5. \A d : SpansOf(d)' = SpansOf(d)
  BY <1>2 DEF SpansOf
<1>6. \A d : d # c => Recorded(d)' = Recorded(d)
  BY <1>2, <1>3 DEF Recorded
<1>7. /\ c \in Segments => Recorded(c)' = y.segment
      /\ c \notin Segments => Recorded(c)' = Recorded(c)
  BY <1>2, <1>3 DEF Recorded
<1>8. Started' \ {s} = Started \ {s}
  <2>1. \A t \in DOMAIN spans \ {s} : t \in Started' <=> t \in Started
    BY <1>2 DEF Started
  <2>2. Started' \subseteq DOMAIN spans /\ Started \subseteq DOMAIN spans
    BY <1>2 DEF Started
  <2> QED
    BY <2>1, <2>2
<1>9. \A d \in Segments : d # c => ctxs'[d] = ctxs[d]
  BY <1>2, <1>3
<1>10. Len(ctxs') = Len(ctxs)
  BY <1>2
<1> QED
  BY <1>1, <1>2, <1>3, <1>4, <1>5, <1>6, <1>7, <1>8, <1>9, <1>10 DEF ChangesIn

\* The same segments are open and reopened: nothing is recorded, and what is opened or ends has
\* not been recorded.
Quiet == (\A d : OpenIn(d)' = OpenIn(d)) /\ Reopened' = Reopened

LEMMA QuietAt ==
  ASSUME NEW d, Segments' = Segments, SpansOf(d)' = SpansOf(d), Recorded(d)' = Recorded(d),
         \A t \in ToSet(Recorded(d)) : t \in Started' <=> t \in Started
  PROVE  OpenIn(d)' = OpenIn(d) /\ (d \in Reopened' <=> d \in Reopened)
<1>1. OpenIn(d)' = OpenIn(d)
  <2> SUFFICES ASSUME d \in Segments PROVE OpenIn(d)' = OpenIn(d)
    BY DEF OpenIn
  <2>1. OpenIn(d)' = SpansOf(d) \ (ToSet(Recorded(d)) \ Started')
    BY DEF OpenIn
  <2> QED
    BY <2>1 DEF OpenIn
<1>2. Again(Recorded(d), Started') <=> Again(Recorded(d), Started)
  <2>1. \A n \in DOMAIN Recorded(d) : Recorded(d)[n] \in ToSet(Recorded(d))
    BY DEF ToSet
  <2> QED
    BY <2>1 DEF Again
<1> QED
  BY <1>1, <1>2, ReopenedAre

LEMMA OthersQuiet ==
  ASSUME Types, NEW c, NEW s, ChangesIn(c, s), \A d \in Segments : ToSet(Recorded(d)) \subseteq SpansOf(d)
  PROVE  \A d : d # c => OpenIn(d)' = OpenIn(d) /\ (d \in Reopened' <=> d \in Reopened)
<1> SUFFICES ASSUME NEW d, d # c PROVE OpenIn(d)' = OpenIn(d) /\ (d \in Reopened' <=> d \in Reopened)
  OBVIOUS
<1>1. s \notin ToSet(Recorded(d))
  <2>1. CASE d \in Segments
    BY <2>1 DEF ChangesIn, SpansOf
  <2>2. CASE d \notin Segments
    BY <2>2, SegmentTypes DEF ToSet
  <2> QED
    BY <2>1, <2>2
<1>2. \A t \in ToSet(Recorded(d)) : t \in Started' <=> t \in Started
  BY <1>1 DEF ChangesIn
<1> QED
  BY <1>2, QuietAt DEF ChangesIn

LEMMA QuietIf ==
  ASSUME Types, NEW c, NEW s, ChangesIn(c, s), Recorded(c)' = Recorded(c),
         s \notin ToSet(Recorded(c)) \/ (s \in Started' <=> s \in Started),
         \A d \in Segments : ToSet(Recorded(d)) \subseteq SpansOf(d)
  PROVE  Quiet
<1>1. \A t \in ToSet(Recorded(c)) : t \in Started' <=> t \in Started
  BY DEF ChangesIn
<1>2. OpenIn(c)' = OpenIn(c) /\ (c \in Reopened' <=> c \in Reopened)
  BY <1>1, QuietAt DEF ChangesIn
<1>3. \A d : OpenIn(d)' = OpenIn(d) /\ (d \in Reopened' <=> d \in Reopened)
  BY <1>2, OthersQuiet
<1> QED
  BY <1>3 DEF Quiet

LEMMA QuietKept ==
  ASSUME UNCHANGED <<spans, ctxs>>
  PROVE  Quiet /\ Segments' = Segments /\ \A d : SpansOf(d)' = SpansOf(d) /\ Recorded(d)' = Recorded(d)
<1>1. Segments' = Segments /\ Started' = Started
  BY DEF Segments, Started
<1>2. \A d : SpansOf(d)' = SpansOf(d) /\ Recorded(d)' = Recorded(d)
  BY <1>1 DEF SpansOf, Recorded
<1>3. Quiet
  BY <1>1, <1>2, ReopenedAre DEF Quiet, OpenIn
<1> QED
  BY <1>1, <1>2, <1>3

-----------------------------------------------------------------------------
(* What has been recorded.                                                 *)

LEMMA RecsIf ==
  ASSUME Recs, Segments' = Segments, \A d : SpansOf(d)' = SpansOf(d), \A d : Recorded(d)' = Recorded(d),
         Len(spans') = Len(spans), Len(ctxs') = Len(ctxs),
         \A d \in Segments : \A t \in SpansOf(d) :
           /\ t \in Counted \/ Pending(t) => t \in Counted' \/ Pending(t)'
           /\ t \in ToSet(Recorded(d)) /\ spans'[t].call.streams =>
                spans'[t].depth = 0 /\ ~Pending(t)' /\ t \notin lost'
         ,
         \A d \in Segments : \A f \in Flows :
           pending'[f] # NoSpan /\ pending'[f].span \in ToSet(Recorded(d)) => captured'[f] = NoSnapshot,
         \A d \in Segments : \A f \in Flows : stopping'[f] = d => stopping[f] = d
  PROVE  Recs'
<1> SUFFICES ASSUME NEW d \in Segments PROVE RecsOf(d)'
  BY DEF Recs
<1>1. RecsOf(d)
  BY DEF Recs
<1>2. \A t \in ToSet(Recorded(d)) : t \in SpansOf(d)
  BY <1>1 DEF RecsOf
<1>3. Recorded(d)' = Recorded(d) /\ SpansOf(d)' = SpansOf(d)
  OBVIOUS
<1>4. \A t \in SpansOf(d) : t \in ToSet(Recorded(d)) \/ t \in Counted' \/ Pending(t)'
  BY <1>1 DEF RecsOf
<1>5. \A t \in ToSet(Recorded(d)) : spans'[t].call.streams => spans'[t].depth = 0 /\ ~Pending(t)' /\ t \notin lost'
  BY <1>2
<1>6. \A f \in Flows : stopping'[f] = d => Recorded(d) # <<>>
  BY <1>1 DEF RecsOf
<1> QED
  BY <1>2, <1>3, <1>4, <1>5, <1>6 DEF RecsOf

LEMMA RecsCreated ==
  ASSUME Base, Recs, NEW f \in Flows, NEW x \in SpanRecords, Created(f, x)
  PROVE  Recs'
<1> DEFINE p == [span |-> Len(spans) + 1, call |-> x.call]
<1>0. PICK new, c : new = Len(spans) + 1 /\ c = x.ctx
  OBVIOUS
<1>1. Types /\ Ranged /\ 0 \notin Segments' /\ Len(spans') = new
  <2>1. Types /\ Ranged
    BY DEF Base
  <2>2. 0 \notin DOMAIN ctxs' /\ Len(spans') = new
    BY <1>0, <2>1, CreatedAre DEF Created
  <2> QED
    BY <2>1, <2>2 DEF Segments
<1>2. CreatesIn(c, new) /\ new \notin DOMAIN spans /\ \A t \in DOMAIN spans : spans'[t] = spans[t]
  BY <1>0, <1>1, CreatedSegments, CreatedAre
<1>3. AtLiberty(f) /\ UNCHANGED <<stopping, lost>> /\ pending' = [pending EXCEPT ![f] = p]
  BY DEF Created
<1>4. \A g \in Flows : Idle(g)
  BY <1>1, <1>3, LibertyRests
<1>5. p # NoSpan /\ p.span = new
  BY <1>0, <1>1, CreatedAre DEF NoSpan
<1> HIDE DEF p
<1>6. \A g \in Flows : /\ pending[g] = NoSpan /\ pending'[g] = (IF g = f THEN p ELSE NoSpan)
                       /\ stopping'[g] = 0
  BY <1>1, <1>3, <1>4 DEF Idle, Types, FlowType
<1>7. \A t : ~Pending(t) /\ (Pending(t)' <=> t = new)
  BY <1>5, <1>6 DEF Pending
<1>8. Counted' = Counted
  BY <1>2, <1>3 DEF CreatesIn, Counted
<1>9. Len(ctxs') <= Len(spans') /\ Len(spans') <= MaxSpans
  <2>1. Len(ctxs) \in Nat /\ Len(spans) \in Nat /\ Len(ctxs) <= Len(spans)
    BY <1>1, Records DEF Recs
  <2>2. Len(ctxs') \in {Len(ctxs), Len(ctxs) + 1} /\ Len(spans') = Len(spans) + 1 /\ Len(spans) < MaxSpans
    BY <1>0, <1>1 DEF Created
  <2> QED
    BY ONLY <2>1, <2>2, LimitsAssumption
<1> SUFFICES ASSUME NEW d \in Segments' PROVE RecsOf(d)'
  BY <1>9 DEF Recs
<1>10. Recorded(d)' = Recorded(d) /\ SpansOf(d)' = IF d = c THEN SpansOf(d) \cup {new} ELSE SpansOf(d)
  BY <1>2 DEF CreatesIn
<1>11. /\ ToSet(Recorded(d)) \subseteq SpansOf(d)
       /\ \A s \in SpansOf(d) : s \in ToSet(Recorded(d)) \/ s \in Counted
       /\ \A s \in ToSet(Recorded(d)) : spans[s].call.streams => spans[s].depth = 0 /\ s \notin lost
  <2>1. CASE d \in Segments
    BY <1>7, <2>1 DEF Recs, RecsOf
  <2>2. CASE d \notin Segments
    <3>1. Recorded(d) = <<>> /\ SpansOf(d) = {}
      BY <1>1, <1>2, <2>2, SegmentTypes DEF CreatesIn
    <3> QED
      BY <3>1 DEF ToSet
  <2> QED
    BY <2>1, <2>2
<1>12. new \notin ToSet(Recorded(d)) /\ \A s \in ToSet(Recorded(d)) : s \in DOMAIN spans
  BY <1>2, <1>11 DEF SpansOf
<1>13. \A s \in SpansOf(d)' : s \in ToSet(Recorded(d)) \/ s \in Counted' \/ Pending(s)'
  BY <1>7, <1>8, <1>10, <1>11
<1>14. \A s \in ToSet(Recorded(d)) : spans'[s].call.streams => spans'[s].depth = 0 /\ ~Pending(s)' /\ s \notin lost'
  BY <1>2, <1>3, <1>7, <1>11, <1>12
<1>15. \A g \in Flows : pending'[g] # NoSpan => pending'[g].span \notin ToSet(Recorded(d))
  BY <1>5, <1>6, <1>12
<1>16. \A g \in Flows : stopping'[g] # d
  BY <1>1, <1>6
<1> QED
  BY <1>10, <1>11, <1>13, <1>14, <1>15, <1>16 DEF RecsOf

LEMMA RecsInherited ==
  ASSUME Base, Recs, NEW f \in Flows, NEW call \in calls, Inherited(f, call)
  PROVE  Recs'
<1> DEFINE s == Last(stack[f])
           p == [span |-> s, call |-> call]
<1>1. Types /\ Ranged
  BY DEF Base
<1>2. /\ AtLiberty(f) /\ ~NoTop(f) /\ captured[f] = NoSnapshot /\ ~spans[s].call.streams
      /\ pending' = [pending EXCEPT ![f] = p] /\ UNCHANGED <<spans, ctxs, stopping, captured, lost>>
  BY DEF Inherited, Parent
<1> HIDE DEF s
<1>3. \A g \in Flows : pending[g] = NoSpan /\ (g # f => pending'[g] = NoSpan)
  BY <1>1, <1>2, LibertyRests DEF Idle, Types, FlowType
<1>4. \A t : Pending(t)' => t = s
  <2>1. pending'[f].span = s
    BY <1>1, <1>2 DEF Types, FlowType
  <2> QED
    BY <1>3, <2>1 DEF Pending
<1>5. \A t : ~Pending(t)
  BY <1>3 DEF Pending
<1>6. Counted' = Counted
  BY <1>2 DEF Counted, Started
<1>7. \A d \in Segments : RecsOf(d)
  BY DEF Recs
<1>8. /\ Segments' = Segments /\ \A d : SpansOf(d)' = SpansOf(d) /\ Recorded(d)' = Recorded(d)
  BY <1>2, QuietKept
<1>9. \A d \in Segments : \A t \in SpansOf(d) :
        /\ t \in Counted \/ Pending(t) => t \in Counted' \/ Pending(t)'
        /\ t \in ToSet(Recorded(d)) /\ spans'[t].call.streams =>
             spans'[t].depth = 0 /\ ~Pending(t)' /\ t \notin lost'
  BY <1>2, <1>4, <1>5, <1>6, <1>7 DEF RecsOf
<1>10. \A g \in Flows : pending'[g] # NoSpan => captured'[g] = NoSnapshot
  BY <1>2, <1>3
<1> QED
  BY <1>2, <1>8, <1>9, <1>10, RecsIf

LEMMA RecsStart ==
  ASSUME Base, Recs, NEW f \in Flows, Start(f)
  PROVE  Recs'
<1>0. PICK s : s = pending[f].span
  OBVIOUS
<1>1. Types /\ Ranged /\ Depths
  BY DEF Base
<1>2. s \in DOMAIN spans /\ pending[f] # NoSpan
  BY <1>0, <1>1, StartDoes
<1>3. PICK c : c = spans[s].ctx
  OBVIOUS
<1>4. PICK x \in SpanRecords, y \in CtxRecords :
        Touches(s, x, y) /\ x.depth = spans[s].depth + 1 /\ y.segment = ctxs[c].segment
  BY <1>0, <1>1, <1>3, StartDoes
<1>5. /\ pending' = [pending EXCEPT ![f] = NoSpan] /\ UNCHANGED <<stopping, lost>> /\ Turn(f)
  BY Zenon DEF Start
<1>6. /\ ChangesIn(c, s) /\ spans'[s] = x /\ Len(spans') = Len(spans) /\ Len(ctxs') = Len(ctxs)
      /\ c \in Segments => Recorded(c)' = y.segment
      /\ c \notin Segments => Recorded(c)' = Recorded(c)
  BY <1>2, <1>3, <1>4, TouchedSegments
<1>7. \A d : Recorded(d)' = Recorded(d)
  BY <1>1, <1>4, <1>6, SegmentTypes DEF ChangesIn
<1>8. \A g \in Flows : pending'[g] = NoSpan /\ (g # f => pending[g] = NoSpan)
  BY <1>1, <1>5 DEF Turn, Types, FlowType
<1>9. Pending(s) /\ \A t : ~Pending(t)' /\ (Pending(t) => t = s)
  BY <1>0, <1>2, <1>8 DEF Pending
<1>10. s \in Started'
  <2>1. spans[s].depth \in Nat
    BY <1>1, <1>2, DepthFacts
  <2>2. x.depth > 0
    BY <1>4, <2>1
  <2> QED
    BY <1>2, <1>6, <2>2 DEF Started, ChangesIn
<1>11. \A t : t \in Counted => t \in Counted'
  BY <1>5, <1>6, <1>10 DEF Counted, ChangesIn
<1>12. \A d \in Segments : RecsOf(d)
  BY DEF Recs
<1>13. \A d \in Segments : \A t \in SpansOf(d) :
        /\ t \in Counted \/ Pending(t) => t \in Counted' \/ Pending(t)'
        /\ t \in ToSet(Recorded(d)) /\ spans'[t].call.streams =>
             spans'[t].depth = 0 /\ ~Pending(t)' /\ t \notin lost'
  <2> SUFFICES ASSUME NEW d \in Segments, NEW t \in SpansOf(d)
               PROVE  /\ t \in Counted \/ Pending(t) => t \in Counted' \/ Pending(t)'
                      /\ t \in ToSet(Recorded(d)) /\ spans'[t].call.streams =>
                           spans'[t].depth = 0 /\ ~Pending(t)' /\ t \notin lost'
    OBVIOUS
  <2>1. t \in Counted \/ Pending(t) => t \in Counted'
    BY <1>9, <1>10, <1>11 DEF Counted
  <2>2. ASSUME t \in ToSet(Recorded(d)), spans'[t].call.streams PROVE spans'[t].depth = 0 /\ t \notin lost'
    <3>1. spans[t].call.streams /\ t \in DOMAIN spans
      BY <1>6, <2>2 DEF ChangesIn, SpansOf
    <3>2. t # s /\ spans[t].depth = 0 /\ t \notin lost
      BY <1>9, <1>12, <2>2, <3>1 DEF RecsOf
    <3> QED
      BY <1>5, <1>6, <3>1, <3>2 DEF ChangesIn
  <2> QED
    BY <1>9, <2>1, <2>2
<1> QED
  BY <1>5, <1>6, <1>7, <1>8, <1>13, RecsIf DEF ChangesIn

LEMMA RecsExtract ==
  ASSUME Base, Recs, NEW f \in Flows, Extract(f)
  PROVE  Recs'
<1>1. Types /\ Ranged
  BY DEF Base
<1>2. PICK s, c : s = Last(within[f]) /\ c = spans[s].ctx
  OBVIOUS
<1>3. s \in DOMAIN spans
  BY <1>1, <1>2, ExtractDoes
<1>4. PICK x \in SpanRecords, y \in CtxRecords :
        Touches(s, x, y) /\ x.depth = spans[s].depth /\ y.segment = ctxs[c].segment
  BY <1>1, <1>2, ExtractDoes
<1>5. UNCHANGED <<pending, stopping, captured, lost>>
  BY DEF Extract
<1>6. /\ ChangesIn(c, s) /\ spans'[s] = x /\ Len(spans') = Len(spans) /\ Len(ctxs') = Len(ctxs)
      /\ c \in Segments => Recorded(c)' = y.segment
      /\ c \notin Segments => Recorded(c)' = Recorded(c)
  BY <1>2, <1>3, <1>4, TouchedSegments
<1>7. \A d : Recorded(d)' = Recorded(d)
  BY <1>1, <1>4, <1>6, SegmentTypes DEF ChangesIn
<1>8. \A t : Pending(t)' <=> Pending(t)
  BY <1>5 DEF Pending
<1>9. \A t \in DOMAIN spans : spans'[t].depth = spans[t].depth /\ spans'[t].call = spans[t].call
  BY <1>4, <1>6 DEF ChangesIn
<1>10. Counted' = Counted
  BY <1>5, <1>6, <1>9 DEF Counted, Started, ChangesIn
<1>11. \A d \in Segments : RecsOf(d)
  BY DEF Recs
<1>12. \A d \in Segments : \A t \in SpansOf(d) :
        /\ t \in Counted \/ Pending(t) => t \in Counted' \/ Pending(t)'
        /\ t \in ToSet(Recorded(d)) /\ spans'[t].call.streams =>
             spans'[t].depth = 0 /\ ~Pending(t)' /\ t \notin lost'
  BY <1>5, <1>8, <1>9, <1>10, <1>11 DEF RecsOf, SpansOf
<1>13. \A d \in Segments : \A g \in Flows :
         pending[g] # NoSpan /\ pending[g].span \in ToSet(Recorded(d)) => captured[g] = NoSnapshot
  BY <1>11 DEF RecsOf
<1> QED
  BY <1>5, <1>6, <1>7, <1>12, <1>13, RecsIf DEF ChangesIn

\* A block of the span s of c ends: real if the span is recorded, otherwise the span stays open,
\* or its end is lost and it was not recorded before.
LEMMA EndedSegments ==
  ASSUME Base, Recs, NEW f \in Flows, NEW g \in Flows, NEW n \in DOMAIN within[g], Ended(f, g, n),
         NEW s, s = within[g][n], NEW c, c = spans[s].ctx,
         NEW last, last = (spans[s].depth = 1 /\ f \notin unset)
  PROVE  /\ ChangesIn(c, s) /\ s \in DOMAIN spans /\ s \in Started /\ c \in DOMAIN ctxs
         /\ spans'[s].comp = spans[s].comp /\ spans'[s].refs = spans[s].refs
         /\ ctxs'[c].traces = ctxs[c].traces /\ (~last => ctxs'[c].nspans = ctxs[c].nspans)
         /\ Len(spans') = Len(spans) /\ Len(ctxs') = Len(ctxs)
         /\ last /\ c \in Segments => Recorded(c)' = Append(Recorded(c), s)
         /\ ~(last /\ c \in Segments) => Recorded(c)' = Recorded(c)
         /\ last => s \notin Started' /\ spans'[s].depth = 0
         /\ ~last => s \in Counted' /\ (c \in Segments /\ s \in ToSet(Recorded(c)) => s \in Started')
         /\ lost \subseteq lost' /\ lost' \subseteq lost \cup {s} /\ s \notin lost
         /\ s \in lost' /\ c \in Segments => s \notin ToSet(Recorded(c))
         /\ last => lost' = lost
<1>1. Types /\ Ranged /\ Depths /\ Losts /\ Unsets
  BY DEF Base
<1>2. /\ s \in DOMAIN spans /\ \E x \in SpanRecords, y \in CtxRecords : Closes(s, x, y, last)
  BY <1>1, EndTouches
<1>3. PICK x \in SpanRecords, y \in CtxRecords : Closes(s, x, y, last)
  BY <1>2
<1>4. /\ Touches(s, x, y) /\ x.depth = spans[s].depth - 1 /\ y.traces = ctxs[c].traces
      /\ x.comp = spans[s].comp /\ x.refs = spans[s].refs
      /\ y.nspans = IF last THEN ctxs[c].nspans - 1 ELSE ctxs[c].nspans
      /\ y.segment = IF last /\ ~ctxs[c].noop THEN Append(ctxs[c].segment, s) ELSE ctxs[c].segment
  BY <1>3 DEF Closes
<1>5. /\ ChangesIn(c, s) /\ spans'[s] = x /\ c \in DOMAIN ctxs /\ ctxs'[c] = y
      /\ c \in Segments => Recorded(c)' = y.segment
      /\ c \notin Segments => Recorded(c)' = Recorded(c)
      /\ Len(spans') = Len(spans) /\ Len(ctxs') = Len(ctxs)
  BY <1>2, <1>4, TouchedSegments
<1>6. spans[s].depth \in Nat /\ spans[s].depth # 0 /\ s \in Started
  BY <1>1, <1>2, DepthFacts
<1>7. s \notin lost
  BY <1>1, <1>6 DEF Losts
<1>8. lost' = IF spans[s].depth = 1 /\ f \in unset THEN lost \cup {s} ELSE lost
  BY <1>1, EndDoes DEF Ended
<1>9. f \in unset => spans[s].call.streams
  <2>1. within[g] # <<>>
    OBVIOUS
  <2> QED
    BY <1>1, <2>1 DEF Unsets, Ended
<1>10. spans[s].call.streams /\ c \in Segments => s \notin ToSet(Recorded(c))
  BY <1>6 DEF Recs, RecsOf
<1>11. c \in Segments <=> ~ctxs[c].noop
  BY <1>5 DEF Segments
<1>12. c \in Segments => Recorded(c) = ctxs[c].segment
  BY DEF Recorded
<1>13. DOMAIN spans' = DOMAIN spans
  BY <1>5 DEF ChangesIn
<1>14. s \in Started' <=> spans[s].depth # 1
  <2>1. x.depth > 0 <=> spans[s].depth # 1
    BY <1>4, <1>6
  <2> QED
    BY <1>2, <1>5, <1>13, <2>1 DEF Started
<1>15. last => s \notin Started' /\ lost' = lost /\ spans'[s].depth = 0
  <2>1. spans[s].depth = 1 => spans'[s].depth = 0
    BY <1>4, <1>5
  <2>2. last => spans[s].depth = 1 /\ f \notin unset
    OBVIOUS
  <2> QED
    BY <1>8, <1>14, <2>1, <2>2
<1>16. ~last => s \in Counted' /\ (c \in Segments /\ s \in ToSet(Recorded(c)) => s \in Started')
  BY <1>8, <1>9, <1>10, <1>14 DEF Counted
<1>17. s \in lost' /\ c \in Segments => s \notin ToSet(Recorded(c))
  BY <1>7, <1>8, <1>9, <1>10
<1>18. /\ last /\ c \in Segments => Recorded(c)' = Append(Recorded(c), s)
       /\ ~(last /\ c \in Segments) => Recorded(c)' = Recorded(c)
  BY <1>4, <1>5, <1>11, <1>12
<1> QED
  BY <1>2, <1>4, <1>5, <1>6, <1>7, <1>8, <1>15, <1>16, <1>17, <1>18

LEMMA RecsEnded ==
  ASSUME Base, Recs, NEW f \in Flows, NEW g \in Flows, NEW n \in DOMAIN within[g], Ended(f, g, n)
  PROVE  Recs'
<1>0. PICK s, c, last : s = within[g][n] /\ c = spans[s].ctx /\ last = (spans[s].depth = 1 /\ f \notin unset)
  OBVIOUS
<1>1. Types /\ Ranged
  BY DEF Base
<1>2. /\ ChangesIn(c, s) /\ s \in DOMAIN spans /\ s \in Started /\ c \in DOMAIN ctxs
      /\ Len(spans') = Len(spans) /\ Len(ctxs') = Len(ctxs)
      /\ last /\ c \in Segments => Recorded(c)' = Append(Recorded(c), s)
      /\ ~(last /\ c \in Segments) => Recorded(c)' = Recorded(c)
      /\ last => s \notin Started' /\ spans'[s].depth = 0
      /\ ~last => s \in Counted' /\ (c \in Segments /\ s \in ToSet(Recorded(c)) => s \in Started')
      /\ lost \subseteq lost' /\ lost' \subseteq lost \cup {s} /\ s \notin lost
      /\ s \in lost' /\ c \in Segments => s \notin ToSet(Recorded(c))
      /\ last => lost' = lost
  BY <1>0, EndedSegments
<1>3. AtLiberty(f) /\ UNCHANGED <<pending, captured>>
  BY DEF Ended
<1>4. stopping' = [stopping EXCEPT ![f] = IF last THEN c ELSE @]
  <2>1. EndSpan(g, n, f)
    BY DEF Ended
  <2>2. stopping' = [stopping EXCEPT ![f] = IF spans[within[g][n]].depth = 1 /\ f \notin unset
                                              THEN spans[within[g][n]].ctx ELSE @]
    BY <1>1, <2>1, EndDoes
  <2> QED
    BY <1>0, <2>2
<1>5. \A h \in Flows : /\ pending'[h] = NoSpan /\ pending[h] = NoSpan
                       /\ stopping'[h] = IF h = f /\ last THEN c ELSE 0
  BY <1>1, <1>3, <1>4, LibertyRests DEF Idle, Types, FlowType
<1>6. \A t : ~Pending(t) /\ ~Pending(t)'
  BY <1>5 DEF Pending
<1>7. \A d \in Segments : RecsOf(d)
  BY DEF Recs
<1>8. \A t : t # s /\ t \in Counted => t \in Counted'
  BY <1>2 DEF Counted, ChangesIn
<1>9. 0 \notin Segments /\ Segments' = Segments /\ \A d : SpansOf(d)' = SpansOf(d)
  BY <1>1, <1>2, SegmentTypes DEF ChangesIn
\* Spans of streams that have been recorded are not the one that ends.
<1>10. ASSUME NEW d \in Segments, NEW t \in ToSet(Recorded(d)), spans'[t].call.streams
       PROVE  spans'[t].depth = 0 /\ ~Pending(t)' /\ t \notin lost'
  <2>1. t \in SpansOf(d) /\ t \in DOMAIN spans
    BY <1>7 DEF RecsOf, SpansOf
  <2>2. spans[t].call.streams
    BY <1>2, <1>10, <2>1 DEF ChangesIn
  <2>3. spans[t].depth = 0 /\ t \notin lost
    BY <1>7, <2>2 DEF RecsOf
  <2>4. t # s
    BY <1>2, <2>3 DEF Started
  <2> QED
    BY <1>2, <1>6, <2>1, <2>3, <2>4 DEF ChangesIn
<1>11. CASE ~(last /\ c \in Segments)
  <2>1. \A d : Recorded(d)' = Recorded(d)
    BY <1>2, <1>11 DEF ChangesIn
  <2>2. ASSUME NEW d \in Segments, NEW t \in SpansOf(d), t \in Counted PROVE t \in Counted'
    <3>1. t = s => d = c
      BY <1>0 DEF SpansOf
    <3> QED
      BY <1>2, <1>8, <1>11, <2>2, <3>1
  <2>3. \A d \in Segments : \A t \in SpansOf(d) :
          /\ t \in Counted \/ Pending(t) => t \in Counted' \/ Pending(t)'
          /\ t \in ToSet(Recorded(d)) /\ spans'[t].call.streams =>
               spans'[t].depth = 0 /\ ~Pending(t)' /\ t \notin lost'
    BY <1>6, <1>10, <2>2
  <2>4. \A d \in Segments : \A h \in Flows : stopping'[h] = d => stopping[h] = d
    BY <1>5, <1>9, <1>11
  <2> QED
    BY <1>2, <1>5, <1>9, <2>1, <2>3, <2>4, RecsIf
<1>12. CASE last /\ c \in Segments
  <2>1. /\ ToSet(Recorded(c)') = ToSet(Recorded(c)) \cup {s} /\ Recorded(c)' # <<>>
    <3>1. Recorded(c) \in Seq(Nat) /\ s \in Nat
      BY <1>1, <1>2, SegmentTypes, Records
    <3>2. Recorded(c)' = Append(Recorded(c), s)
      BY <1>2, <1>12
    <3>3. ToSet(Append(Recorded(c), s)) = ToSet(Recorded(c)) \cup {s} /\ Append(Recorded(c), s) # <<>>
      BY <3>1, ElementsOfAppend
    <3> QED
      BY <3>2, <3>3
  <2> SUFFICES ASSUME NEW d \in Segments PROVE RecsOf(d)'
    BY <1>2, <1>9 DEF Recs
  <2>2. ToSet(Recorded(d)') = (IF d = c THEN ToSet(Recorded(d)) \cup {s} ELSE ToSet(Recorded(d)))
    BY <1>2, <2>1 DEF ChangesIn
  <2>3. SpansOf(d)' = SpansOf(d) /\ (s \in SpansOf(d) <=> d = c)
    BY <1>0, <1>2, <1>9 DEF SpansOf
  <2>4. ToSet(Recorded(d)') \subseteq SpansOf(d)
    BY <1>7, <2>2, <2>3 DEF RecsOf
  <2>5. \A t \in SpansOf(d) : t \in ToSet(Recorded(d)') \/ t \in Counted'
    BY <1>6, <1>7, <1>8, <2>2, <2>3 DEF RecsOf
  <2>6. \A t \in ToSet(Recorded(d)') : spans'[t].call.streams => spans'[t].depth = 0 /\ ~Pending(t)' /\ t \notin lost'
    BY <1>2, <1>6, <1>10, <1>12, <2>2
  <2>7. \A h \in Flows : pending'[h] = NoSpan /\ (stopping'[h] = d => Recorded(d)' # <<>>)
    BY <1>5, <1>9, <2>1
  <2> QED
    BY <2>3, <2>4, <2>5, <2>6, <2>7 DEF RecsOf
<1> QED
  BY <1>11, <1>12

LEMMA RecsKept ==
  ASSUME Base, Recs, NEW f \in Flows, Archive(f) \/ LateRaises(f) \/ Spawn(f) \/ RunThread(f)
  PROVE  Recs'
<1>1. Types /\ Ranged /\ Turns
  BY DEF Base
<1>2. UNCHANGED <<spans, ctxs, pending, lost>> /\ Turn(f)
  BY DEF Archive, LateRaises, Spawn, RunThread, MayCall, AtLiberty
<1>3. \A g \in Flows : pending[g] = NoSpan
  <2>1. CASE Archive(f)
    BY <1>1, <1>2, <2>1 DEF Archive, Turns, Turn
  <2>2. CASE LateRaises(f) \/ Spawn(f) \/ RunThread(f)
    BY <1>2, <2>2 DEF LateRaises, Spawn, RunThread, MayCall, AtLiberty, Turn
  <2> QED
    BY <2>1, <2>2
<1>4. \A d \in Segments : \A g \in Flows : stopping'[g] = d => stopping[g] = d
  <2>1. CASE Archive(f)
    BY <1>1, <2>1, SegmentTypes DEF Archive, Types, FlowType
  <2>2. CASE LateRaises(f) \/ Spawn(f) \/ RunThread(f)
    BY <2>2 DEF LateRaises, Spawn, RunThread
  <2> QED
    BY <2>1, <2>2
<1>5. \A t : ~Pending(t) /\ ~Pending(t)'
  BY <1>2, <1>3 DEF Pending
<1>6. Counted' = Counted
  BY <1>2 DEF Counted, Started
<1>7. /\ Segments' = Segments /\ \A d : SpansOf(d)' = SpansOf(d) /\ Recorded(d)' = Recorded(d)
  BY <1>2, QuietKept
<1>8. \A d \in Segments : \A t \in SpansOf(d) :
        /\ t \in Counted \/ Pending(t) => t \in Counted' \/ Pending(t)'
        /\ t \in ToSet(Recorded(d)) /\ spans'[t].call.streams =>
             spans'[t].depth = 0 /\ ~Pending(t)' /\ t \notin lost'
  BY <1>2, <1>5, <1>6 DEF Recs, RecsOf
<1> QED
  BY <1>2, <1>3, <1>4, <1>7, <1>8, RecsIf

LEMMA RecsStep == Base /\ Recs /\ [Next]_vars => Recs'
<1> SUFFICES ASSUME Base, Recs, [Next]_vars PROVE Recs'
  OBVIOUS
<1>1. Types /\ Ranged
  BY DEF Base
<1>2. CASE UNCHANGED vars
  <2>1. UNCHANGED <<spans, ctxs, pending, lost, stopping, captured>>
    BY <1>2 DEF vars
  <2>2. /\ Segments' = Segments /\ \A d : SpansOf(d)' = SpansOf(d) /\ Recorded(d)' = Recorded(d)
    BY <2>1, QuietKept
  <2>3. Counted' = Counted /\ \A t : Pending(t)' <=> Pending(t)
    BY <2>1 DEF Counted, Started, Pending
  <2>4. \A d \in Segments : RecsOf(d)
    BY DEF Recs
  <2>5. \A d \in Segments : \A t \in SpansOf(d) :
          /\ t \in Counted \/ Pending(t) => t \in Counted' \/ Pending(t)'
          /\ t \in ToSet(Recorded(d)) /\ spans'[t].call.streams =>
               spans'[t].depth = 0 /\ ~Pending(t)' /\ t \notin lost'
    BY <2>1, <2>3, <2>4 DEF RecsOf
  <2>6. \A d \in Segments : \A g \in Flows :
          pending[g] # NoSpan /\ pending[g].span \in ToSet(Recorded(d)) => captured[g] = NoSnapshot
    BY <2>4 DEF RecsOf
  <2> QED
    BY <2>1, <2>2, <2>5, <2>6, RecsIf
<1>3. CASE Next
  BY <1>1, <1>3, StepCases, RecsCreated, RecsInherited, RecsStart, RecsExtract, RecsEnded, RecsKept
<1> QED
  BY <1>2, <1>3

-----------------------------------------------------------------------------
(* What has been archived.                                                 *)

LEMMA OpenNotSent ==
  ASSUME Complete, NEW s \in Started, NEW c \in Segments, c = spans[s].ctx
  PROVE  s \in OpenIn(c) /\ c \notin ToSet(sent) \ Reopened
<1>1. s \in OpenIn(c)
  BY DEF OpenIn, SpansOf, Started
<1> QED
  BY <1>1 DEF Complete

LEMMA CompleteIf ==
  ASSUME Complete, Segments' = Segments, UNCHANGED sent,
         \A d \in Segments : Resting(d)' /\ ctxs'[d].nspans = 0 => Resting(d) /\ ctxs[d].nspans = 0,
         \A d \in Segments : d \in ToSet(sent) \ Reopened' =>
           d \notin Reopened /\ OpenIn(d)' = OpenIn(d) /\ \A f \in Flows : stopping'[f] = d => stopping[f] = d
  PROVE  Complete'
<1> SUFFICES ASSUME NEW d \in Segments
             PROVE  /\ Resting(d)' /\ ctxs'[d].nspans = 0 => d \in ToSet(sent)
                    /\ d \in ToSet(sent) \ Reopened' => OpenIn(d)' = {} /\ \A f \in Flows : stopping'[f] # d
  BY DEF Complete
<1> QED
  BY DEF Complete

LEMMA CompleteCreated ==
  ASSUME AInv, NEW f \in Flows, NEW x \in SpanRecords, Created(f, x)
  PROVE  Complete'
<1> DEFINE p == [span |-> Len(spans) + 1, call |-> x.call]
<1>0. PICK new, c : new = Len(spans) + 1 /\ c = x.ctx
  OBVIOUS
<1>1. Types /\ Ranged /\ Complete /\ Base
  BY DEF AInv, Base
<1>2. /\ CreatesIn(c, new) /\ spans'[new] = x /\ new # 0 /\ \A t \in DOMAIN spans : spans'[t] = spans[t]
      /\ DOMAIN ctxs \subseteq DOMAIN ctxs' /\ 0 \notin DOMAIN ctxs'
  <2>1. /\ CreatesIn(c, new) /\ spans'[new] = x /\ new # 0 /\ \A t \in DOMAIN spans : spans'[t] = spans[t]
        /\ DOMAIN ctxs \subseteq DOMAIN ctxs'
    BY <1>0, <1>1, CreatedSegments, CreatedAre
  <2>2. 0 \notin DOMAIN ctxs'
    BY DEF Created
  <2> QED
    BY <2>1, <2>2
<1>3. /\ AtLiberty(f) /\ UNCHANGED <<sent, stopping>> /\ pending' = [pending EXCEPT ![f] = p]
      /\ \A d \in DOMAIN ctxs : ctxs'[d].noop = ctxs[d].noop /\ ctxs'[d].nspans = ctxs[d].nspans
      /\ (x.call = Nothing <=> ctxs'[c].noop)
      /\ x.call # Nothing /\ c \in DOMAIN ctxs => ~NoTop(f) /\ Parent(f).depth # 0 /\ Parent(f).ctx = c
  BY <1>0 DEF Created
<1>4. \A g \in Flows : Idle(g)
  BY <1>1, <1>3, LibertyRests
<1>5. p # NoSpan /\ p.span = new
  BY <1>0, <1>2 DEF NoSpan
<1> HIDE DEF p
<1>6. \A g \in Flows : /\ pending'[g] = IF g = f THEN p ELSE NoSpan
                       /\ stopping'[g] = 0
  BY <1>1, <1>3, <1>4 DEF Idle, Types, FlowType
<1>7. ~Resting(c)'
  BY <1>0, <1>2, <1>5, <1>6 DEF Resting
<1>8. \A d \in Segments' : d # 0 /\ d \in DOMAIN ctxs' /\ (d # c => d \in Segments)
  BY <1>2 DEF Segments, CreatesIn
<1> SUFFICES ASSUME NEW d \in Segments'
             PROVE  /\ Resting(d)' /\ ctxs'[d].nspans = 0 => d \in ToSet(sent)
                    /\ d \in ToSet(sent) \ Reopened' => OpenIn(d)' = {} /\ \A g \in Flows : stopping'[g] # d
  BY <1>3 DEF Complete
<1>9. CASE d # c
  <2>1. d \in Segments /\ d \in DOMAIN ctxs /\ ctxs'[d].nspans = ctxs[d].nspans
    BY <1>3, <1>8, <1>9 DEF Segments
  <2>2. Resting(d)
    BY <1>1, <1>3, <2>1, LibertyRests
  <2>3. OpenIn(d)' = OpenIn(d) /\ Reopened' = Reopened
    <3>1. Recorded(d)' = Recorded(d) /\ SpansOf(d)' = SpansOf(d) /\ Started' = Started /\ Reopened' = Reopened
      BY <1>2, <1>9 DEF CreatesIn
    <3> QED
      BY <2>1, <3>1 DEF OpenIn
  <2> QED
    BY <1>1, <1>6, <1>8, <2>1, <2>2, <2>3 DEF Complete
<1>10. CASE d = c
  <2>1. d \notin ToSet(sent) \ Reopened
    <3> SUFFICES ASSUME d \in ToSet(sent) PROVE d \notin ToSet(sent) \ Reopened
      OBVIOUS
    <3>1. d \in Segments /\ d \in DOMAIN ctxs
      BY <1>1 DEF ToSet, Ranged, Segments
    <3>2. x.call # Nothing
      BY <1>3, <1>10 DEF Segments
    <3>3. PICK top : top = Last(stack[f])
      OBVIOUS
    <3>4. top \in DOMAIN spans /\ spans[top].depth # 0 /\ spans[top].ctx = d
      BY <1>1, <1>3, <1>10, <3>1, <3>2, <3>3, TopIsSpan
    <3>5. top \in Started
      BY <1>1, <3>4, DepthFacts DEF Base
    <3> QED
      BY <1>1, <3>1, <3>4, <3>5, OpenNotSent
  <2> QED
    BY <1>2, <1>7, <1>10, <2>1 DEF CreatesIn
<1> QED
  BY <1>9, <1>10

LEMMA CompleteStart ==
  ASSUME AInv, NEW f \in Flows, Start(f)
  PROVE  Complete'
<1>0. PICK s : s = pending[f].span
  OBVIOUS
<1>1. Types /\ Ranged /\ Depths /\ Counts /\ Complete /\ Recs /\ Base
  BY DEF AInv, Base
<1>2. s \in DOMAIN spans /\ pending[f] # NoSpan
  BY <1>0, <1>1, StartDoes
<1>3. PICK c : c = spans[s].ctx
  OBVIOUS
<1>4. PICK x \in SpanRecords, y \in CtxRecords :
        /\ Touches(s, x, y) /\ x.depth = spans[s].depth + 1 /\ y.segment = ctxs[c].segment
        /\ y.nspans = ctxs[c].nspans + (IF spans[s].depth = 0 THEN 1 ELSE 0)
  BY <1>0, <1>1, <1>3, StartDoes
<1>5. /\ pending' = [pending EXCEPT ![f] = NoSpan] /\ UNCHANGED <<stopping, sent>> /\ Turn(f)
  BY Zenon DEF Start
<1>6. /\ ChangesIn(c, s) /\ spans'[s] = x /\ c \in DOMAIN ctxs /\ ctxs'[c] = y
      /\ c \in Segments => Recorded(c)' = y.segment
      /\ c \notin Segments => Recorded(c)' = Recorded(c)
  BY <1>1, <1>2, <1>3, <1>4, TouchedSegments
<1>7. Recorded(c)' = Recorded(c)
  BY <1>1, <1>4, <1>6, SegmentTypes
<1>8. Segments' = Segments /\ 0 \notin Segments
  BY <1>1, <1>6, SegmentTypes DEF ChangesIn
<1>9. s \in Started' /\ s \in SpansOf(c) /\ SpansOf(c)' = SpansOf(c)
  <2>1. spans[s].depth \in Nat
    BY <1>1, <1>2, DepthFacts
  <2>2. x.depth > 0
    BY <1>4, <2>1
  <2> QED
    BY <1>2, <1>6, <2>2 DEF Started, ChangesIn
<1>10. ctxs'[c].nspans # 0
  <2>1. ctxs[c].nspans \in Nat
    BY <1>1, <1>6, OpenFinite DEF Counts, OpenOf
  <2>2. spans[s].depth # 0 => ctxs[c].nspans # 0
    <3>1. spans[s].depth # 0 => s \in SpansOf(c) \cap Counted
      BY <1>1, <1>2, <1>9, DepthFacts DEF Counted
    <3> QED
      BY <1>1, <1>6, <3>1, OpenCounted
  <2>3. y.nspans # 0
    BY <1>4, <2>1, <2>2
  <2> QED
    BY <1>6, <2>3
<1>11. ASSUME NEW d \in Segments, Resting(d)', ctxs'[d].nspans = 0 PROVE Resting(d) /\ ctxs[d].nspans = 0
  <2>1. d # c /\ ctxs'[d] = ctxs[d]
    BY <1>6, <1>10, <1>11 DEF ChangesIn
  <2>2. \A g \in Flows : g # f => pending[g] = NoSpan
    BY <1>5 DEF Turn
  <2> QED
    BY <1>0, <1>3, <1>5, <1>11, <2>1, <2>2 DEF Resting
<1>12. \A d \in Segments : ToSet(Recorded(d)) \subseteq SpansOf(d)
  BY <1>1 DEF Recs, RecsOf
<1>13. ASSUME NEW d \in Segments, d \in ToSet(sent) \ Reopened' PROVE d \notin Reopened /\ OpenIn(d)' = OpenIn(d)
  <2>1. CASE d # c
    BY <1>1, <1>6, <1>12, <1>13, <2>1, OthersQuiet
  <2>2. CASE d = c
    <3>1. s \notin ToSet(Recorded(c))
      <4>1. ~Again(Recorded(c), Started')
        BY <1>7, <1>13, <2>2, ReopenedAre
      <4> QED
        BY <1>9, <4>1 DEF Again, ToSet
    <3> QED
      BY <1>1, <1>6, <1>7, <1>12, <1>13, <2>2, <3>1, QuietIf DEF Quiet
  <2> QED
    BY <2>1, <2>2
<1> QED
  BY <1>1, <1>5, <1>8, <1>11, <1>13, CompleteIf

LEMMA CompleteExtract ==
  ASSUME AInv, NEW f \in Flows, Extract(f)
  PROVE  Complete'
<1>1. Types /\ Ranged /\ Complete /\ Recs /\ Base
  BY DEF AInv, Base
<1>2. PICK s, c : s = Last(within[f]) /\ c = spans[s].ctx
  OBVIOUS
<1>3. s \in DOMAIN spans
  BY <1>1, <1>2, ExtractDoes
<1>4. PICK x \in SpanRecords, y \in CtxRecords :
        /\ Touches(s, x, y) /\ x.depth = spans[s].depth /\ y.segment = ctxs[c].segment
        /\ y.nspans = ctxs[c].nspans
  BY <1>1, <1>2, ExtractDoes
<1>5. AtLiberty(f) /\ UNCHANGED <<pending, stopping, sent>>
  BY DEF Extract
<1>6. /\ ChangesIn(c, s) /\ spans'[s] = x /\ c \in DOMAIN ctxs /\ ctxs'[c] = y
      /\ c \in Segments => Recorded(c)' = y.segment
      /\ c \notin Segments => Recorded(c)' = Recorded(c)
  BY <1>1, <1>2, <1>3, <1>4, TouchedSegments
<1>7. Recorded(c)' = Recorded(c)
  BY <1>1, <1>4, <1>6, SegmentTypes
<1>8. s \in Started' <=> s \in Started
  BY <1>3, <1>4, <1>6 DEF Started, ChangesIn
<1>9. \A d \in Segments : ToSet(Recorded(d)) \subseteq SpansOf(d)
  BY <1>1 DEF Recs, RecsOf
<1>10. Quiet
  BY <1>1, <1>6, <1>7, <1>8, <1>9, QuietIf
<1>11. \A d \in Segments : Resting(d) /\ ctxs'[d].nspans = ctxs[d].nspans
  BY <1>1, <1>4, <1>5, <1>6, LibertyRests, SegmentTypes DEF ChangesIn
<1> QED
  BY <1>1, <1>5, <1>6, <1>10, <1>11, CompleteIf DEF Quiet, ChangesIn

LEMMA CompleteEnded ==
  ASSUME AInv, NEW f \in Flows, NEW g \in Flows, NEW n \in DOMAIN within[g], Ended(f, g, n)
  PROVE  Complete'
<1>0. PICK s, c, last : s = within[g][n] /\ c = spans[s].ctx /\ last = (spans[s].depth = 1 /\ f \notin unset)
  OBVIOUS
<1>1. Types /\ Ranged /\ Complete /\ Recs /\ Base
  BY DEF AInv, Base
<1>2. /\ ChangesIn(c, s) /\ s \in DOMAIN spans /\ s \in Started /\ c \in DOMAIN ctxs
      /\ ~last => ctxs'[c].nspans = ctxs[c].nspans
      /\ last /\ c \in Segments => Recorded(c)' = Append(Recorded(c), s)
      /\ ~(last /\ c \in Segments) => Recorded(c)' = Recorded(c)
      /\ ~last => s \in Counted' /\ (c \in Segments /\ s \in ToSet(Recorded(c)) => s \in Started')
  BY <1>0, <1>1, EndedSegments
<1>3. AtLiberty(f) /\ UNCHANGED <<pending, sent>>
  BY DEF Ended
<1>4. stopping' = [stopping EXCEPT ![f] = IF last THEN c ELSE @]
  <2>1. EndSpan(g, n, f)
    BY DEF Ended
  <2>2. stopping' = [stopping EXCEPT ![f] = IF spans[within[g][n]].depth = 1 /\ f \notin unset
                                              THEN spans[within[g][n]].ctx ELSE @]
    BY <1>1, <2>1, EndDoes
  <2> QED
    BY <1>0, <2>2
<1>5. \A h \in Flows : pending'[h] = NoSpan /\ stopping'[h] = IF h = f /\ last THEN c ELSE 0
  BY <1>1, <1>3, <1>4, LibertyRests DEF Idle, Types, FlowType
<1>6. \A d \in Segments : Resting(d) /\ d # 0
  BY <1>1, <1>3, LibertyRests, SegmentTypes
<1>7. Segments' = Segments /\ \A d \in Segments : d # c => ctxs'[d] = ctxs[d]
  BY <1>2 DEF ChangesIn
<1>8. ASSUME NEW d \in Segments, Resting(d)', ctxs'[d].nspans = 0 PROVE Resting(d) /\ ctxs[d].nspans = 0
  <2>1. last => d # c
    BY <1>5, <1>8 DEF Resting
  <2> QED
    BY <1>2, <1>6, <1>7, <1>8, <2>1
<1>9. \A d \in Segments : ToSet(Recorded(d)) \subseteq SpansOf(d)
  BY <1>1 DEF Recs, RecsOf
<1>10. CASE ~(last /\ c \in Segments)
  <2>1. s \notin ToSet(Recorded(c)) \/ (s \in Started' <=> s \in Started)
    <3>1. c \notin Segments => s \notin ToSet(Recorded(c))
      BY <1>1, SegmentTypes DEF ToSet
    <3> QED
      BY <1>2, <1>10, <3>1
  <2>2. Quiet
    BY <1>1, <1>2, <1>9, <1>10, <2>1, QuietIf
  <2>3. \A d \in Segments : \A h \in Flows : stopping'[h] # d
    BY <1>5, <1>6, <1>10
  <2> QED
    BY <1>1, <1>3, <1>7, <1>8, <2>2, <2>3, CompleteIf DEF Quiet
<1>11. CASE last /\ c \in Segments
  <2>1. c \notin ToSet(sent) \ Reopened
    BY <1>0, <1>1, <1>2, <1>11, OpenNotSent
  <2>2. c \in Reopened => c \in Reopened'
    <3>1. Recorded(c) \in Seq(Nat) /\ s \in Nat
      BY <1>1, <1>2, SegmentTypes, Records
    <3>2. Started \subseteq Started' \cup {s}
      BY <1>2 DEF ChangesIn
    <3>3. Again(Recorded(c), Started) => Again(Append(Recorded(c), s), Started')
      BY <3>1, <3>2, AgainGrows
    <3> QED
      BY <1>2, <1>11, <3>3, ReopenedAre
  <2>3. ASSUME NEW d \in Segments, d \in ToSet(sent) \ Reopened'
        PROVE  d \notin Reopened /\ OpenIn(d)' = OpenIn(d) /\ \A h \in Flows : stopping'[h] = d => stopping[h] = d
    <3>1. d # c
      BY <2>1, <2>2, <2>3
    <3> QED
      BY <1>1, <1>2, <1>5, <1>6, <1>9, <2>3, <3>1, OthersQuiet
  <2> QED
    BY <1>1, <1>3, <1>7, <1>8, <2>3, CompleteIf
<1> QED
  BY <1>10, <1>11

LEMMA CompleteArchive ==
  ASSUME AInv, NEW f \in Flows, Archive(f)
  PROVE  Complete'
<1>0. PICK c : c = stopping[f]
  OBVIOUS
<1>1. Types /\ Ranged /\ Complete /\ Recs /\ Turns /\ Counts
  BY DEF AInv, Base
<1>2. /\ Turn(f) /\ c # 0 /\ stopping' = [stopping EXCEPT ![f] = 0]
      /\ sent' = IF ctxs[c].nspans = 0 /\ ~ctxs[c].noop THEN Append(sent, c) ELSE sent
      /\ UNCHANGED <<spans, ctxs, pending>>
  BY <1>0 DEF Archive
<1>3. c \in DOMAIN ctxs /\ c \in Nat /\ sent \in Seq(Nat)
  BY <1>0, <1>1, <1>2, Records DEF Ranged, Types
<1>4. pending[f] = NoSpan /\ \A g \in Flows : g # f => Idle(g)
  BY <1>0, <1>1, <1>2 DEF Turns, Turn, Idle
<1>5. \A h \in Flows : pending[h] = NoSpan /\ stopping'[h] = 0
  BY <1>1, <1>2, <1>4 DEF Idle, Types, FlowType
<1>6. Quiet /\ Segments' = Segments /\ 0 \notin Segments
  BY <1>1, <1>2, QuietKept, SegmentTypes
<1>7. c \in Segments => c \notin ToSet(sent) \ Reopened
  BY <1>0, <1>1 DEF Complete
<1>8. sent' # sent => c \in Segments /\ ToSet(sent') = ToSet(sent) \cup {c} /\ ctxs[c].nspans = 0
  <2>1. ToSet(Append(sent, c)) = ToSet(sent) \cup {c}
    BY <1>3, ElementsOfAppend
  <2> QED
    BY <1>2, <1>3, <2>1 DEF Segments
<1>9. \A d \in Segments : d \in ToSet(sent') => d \in ToSet(sent) \/ (d = c /\ ctxs[c].nspans = 0)
  BY <1>8
<1> SUFFICES ASSUME NEW d \in Segments
             PROVE  /\ Resting(d)' /\ ctxs[d].nspans = 0 => d \in ToSet(sent')
                    /\ d \in ToSet(sent') \ Reopened => OpenIn(d) = {} /\ \A g \in Flows : stopping'[g] # d
  BY <1>2, <1>6 DEF Complete, Quiet
<1>10. ASSUME ctxs[d].nspans = 0 PROVE d \in ToSet(sent')
  <2>1. CASE d = c
    <3>1. sent' = Append(sent, c)
      BY <1>2, <1>10, <2>1 DEF Segments
    <3> QED
      BY <1>3, <2>1, <3>1, ElementsOfAppend
  <2>2. CASE d # c
    <3>1. Resting(d)
      BY <1>0, <1>4, <1>5, <1>6, <2>2 DEF Resting, Idle
    <3> QED
      BY <1>1, <1>8, <1>10, <3>1 DEF Complete
  <2> QED
    BY <2>1, <2>2
<1>11. ASSUME ctxs[d].nspans = 0 PROVE OpenIn(d) = {}
  <2>1. SpansOf(d) \cap Counted = {}
    BY <1>1, <1>11, OpenCounted DEF Segments
  <2>2. \A s \in SpansOf(d) : s \in ToSet(Recorded(d))
    BY <1>1, <1>5, <2>1 DEF Recs, RecsOf, Pending
  <2> QED
    BY <2>1, <2>2 DEF OpenIn, Counted
<1>12. d \in ToSet(sent') \ Reopened => OpenIn(d) = {}
  BY <1>1, <1>9, <1>11 DEF Complete
<1> QED
  BY <1>5, <1>6, <1>10, <1>12

LEMMA CompleteKept ==
  ASSUME AInv, UNCHANGED <<spans, ctxs, stopping, sent>>,
         UNCHANGED pending \/ \A f \in Flows : pending[f] = NoSpan
  PROVE  Complete'
<1>1. Quiet /\ Segments' = Segments
  BY QuietKept
<1>2. \A d \in Segments : Resting(d)' => Resting(d)
  BY DEF Resting
<1> QED
  BY <1>1, <1>2, CompleteIf DEF AInv, Quiet

LEMMA AInvStep == AInv /\ [Next]_vars => AInv'
<1> SUFFICES ASSUME AInv, [Next]_vars PROVE AInv'
  OBVIOUS
<1>1. Base /\ Recs /\ Types /\ Ranged
  BY DEF AInv, Base
<1>2. Base' /\ Recs'
  <2>1. Base'
    BY <1>1, TypesStep, DepthsStep, UnsetsStep, LostsStep, CountsStep, TurnsStep DEF Base
  <2> QED
    BY <1>1, <2>1, RecsStep
<1>3. ASSUME NEW f \in Flows,
             LateRaises(f) \/ Spawn(f) \/ RunThread(f) \/ (\E call \in calls : Inherited(f, call))
      PROVE  Complete'
  <2>1. AtLiberty(f) /\ UNCHANGED <<spans, ctxs, stopping, sent>>
    BY <1>3 DEF LateRaises, Spawn, RunThread, MayCall, Inherited
  <2> QED
    BY <1>1, <2>1, LibertyRests, CompleteKept DEF Idle
<1>4. CASE UNCHANGED vars
  <2>1. Complete'
    BY <1>4, CompleteKept DEF vars
  <2> QED
    BY <1>2, <2>1 DEF AInv
<1>5. CASE Next
  <2>1. Complete'
    BY <1>1, <1>3, <1>5, StepCases, CompleteCreated, CompleteStart, CompleteExtract, CompleteEnded, CompleteArchive
  <2> QED
    BY <1>2, <2>1 DEF AInv
<1> QED
  BY <1>4, <1>5

LEMMA AInvInit == Init => AInv
<1> SUFFICES ASSUME Init PROVE AInv
  OBVIOUS
<1>1. Types /\ Ranged /\ Depths /\ Unsets /\ Losts /\ Counts
  BY TypesInit, CountsInit
<1>2. Turns /\ Complete /\ Recs
  BY LimitsAssumption DEF Init, Turns, Idle, Complete, Recs, Segments
<1> QED
  BY <1>1, <1>2 DEF AInv, Base

\* While no flow is in the middle of an operation, a segment all of whose spans have ended has been
\* given to the agent, and in one that has been given to it all spans have ended, unless a finished
\* one has been inherited (context.py:138, 162): SpanContext.stop, in whatever flow and order blocks
\* end.  Ends are lost of streams only, in flows without a contextvar (context.py:49).
THEOREM ArchivedWhenComplete == Spec => []ArchivedComplete
<1>1. AInv => ArchivedComplete
  <2> SUFFICES ASSUME AInv, \A f \in Flows : pending[f] = NoSpan /\ stopping[f] = 0, NEW c \in Segments
               PROVE  /\ SpansOf(c) \cap (Started \cup lost) = {} => c \in ToSet(sent)
                      /\ c \in ToSet(sent) \ Reopened => SpansOf(c) \cap (Started \cup lost) = {}
                      /\ \A s \in SpansOf(c) \cap lost : spans[s].call.streams
    BY DEF ArchivedComplete
  <2>1. Types /\ Ranged /\ Counts /\ Losts /\ Complete /\ RecsOf(c)
    BY DEF AInv, Base, Recs
  <2>2. c \in DOMAIN ctxs /\ Resting(c)
    BY <2>1, SegmentTypes DEF Resting
  <2>3. SpansOf(c) \cap (Started \cup lost) = {} => c \in ToSet(sent)
    BY <2>1, <2>2, OpenCounted DEF Complete, Counted
  <2>4. ASSUME c \in ToSet(sent) \ Reopened PROVE SpansOf(c) \cap (Started \cup lost) = {}
    <3>1. \A s \in SpansOf(c) : s \in ToSet(Recorded(c)) /\ s \notin Started
      BY <2>1, <2>4 DEF Complete, OpenIn
    <3> QED
      BY <2>1, <3>1 DEF RecsOf, Losts
  <2> QED
    BY <2>1, <2>3, <2>4 DEF Losts
<1> QED
  BY <1>1, AInvInit, AInvStep, PTL DEF Spec

-----------------------------------------------------------------------------
(* The spans and contexts implement a store of segments.                   *)

Numbers == 1 .. MaxSpans

RecordedAs(seg, sp) == [n \in DOMAIN seg |-> [span |-> seg[n], comp |-> sp[seg[n]].comp, refs |-> sp[seg[n]].refs]]

RecordedIn(c) == RecordedAs(Recorded(c), spans)
RelatedIn(c)  == IF c \in Segments THEN ctxs[c].traces ELSE <<>>

\* The segment c is as it was.
Same(c) == OpenIn(c)' = OpenIn(c) /\ RecordedIn(c)' = RecordedIn(c) /\ RelatedIn(c)' = RelatedIn(c)

LEMMA StoreStutters ==
  ASSUME UNCHANGED sent, Reopened' = Reopened, \A d \in Numbers : Same(d)
  PROVE  UNCHANGED Store!store
  BY DEF Store!store, Same, OpenIn, RecordedIn, RecordedAs, RecordOf, RelatedIn, Numbers

LEMMA StoreOnly ==
  ASSUME NEW c \in Numbers, \A d \in Numbers \ {c} : Same(d)
  PROVE  Store!Only(c)
  BY DEF Store!Only, Same, OpenIn, RecordedIn, RecordedAs, RecordOf, RelatedIn, Numbers

LEMMA StoreGoesOn ==
  ASSUME NEW c, sent \in Seq(Nat), c \notin ToSet(sent) \ Reopened
  PROVE  Store!GoesOn(c)
  BY DEF Store!GoesOn, Store!Contains, ToSet

LEMMA StoreSpans ==
  ASSUME NEW c \in Numbers
  PROVE  Store!SpansRecorded(c) = ToSet(Recorded(c))
  BY DEF Store!SpansRecorded, RecordOf, ToSet, Numbers

LEMMA StoreOpens ==
  ASSUME NEW c \in Numbers, Store!Only(c), Store!GoesOn(c), UNCHANGED sent, Reopened' = Reopened,
         RecordedIn(c)' = RecordedIn(c), NEW s \in Numbers,
         \A d \in Numbers : s \notin OpenIn(d) \cup ToSet(Recorded(d)), OpenIn(c)' = OpenIn(c) \cup {s}
  PROVE  Store!Next
<1>1. \A d \in Numbers : s \notin OpenIn(d) \cup Store!SpansRecorded(d)
  BY StoreSpans
<1>2. Store!Open(c)
  BY <1>1 DEF Store!Open, OpenIn, RecordedIn, RecordedAs, RecordOf, Numbers
<1> QED
  BY <1>2 DEF Store!Next, Numbers

\* The records of c stay, and say the same unless c was reopened.
KeepsIn(c) == Recorded(c)' = Recorded(c) /\ (c \notin Reopened' => RecordedIn(c)' = RecordedIn(c))

LEMMA StoreKeeps ==
  ASSUME NEW c \in Numbers, KeepsIn(c)
  PROVE  Store!KeepsRecords(c)
  BY DEF Store!KeepsRecords, KeepsIn, RecordedIn, RecordedAs, RecordOf, Numbers

LEMMA StoreRelates ==
  ASSUME NEW c \in Numbers, Store!Only(c), Store!GoesOn(c), UNCHANGED sent, Reopened' = Reopened,
         OpenIn(c) # {}, OpenIn(c)' = OpenIn(c), KeepsIn(c)
  PROVE  Store!Next
<1>1. Store!KeepsRecords(c)
  BY StoreKeeps
<1>2. Store!RelateTo(c)
  BY <1>1 DEF Store!RelateTo, OpenIn, Numbers
<1> QED
  BY <1>2 DEF Store!Next, Numbers

LEMMA StoreRecords ==
  ASSUME NEW c \in Numbers, Store!Only(c), Store!GoesOn(c), UNCHANGED sent, Reopened' = Reopened,
         NEW s \in OpenIn(c), OpenIn(c)' = OpenIn(c) \ {s}, Last(RecordedIn(c)').span = s,
         IsPrefix(RecordedIn(c), RecordedIn(c)'), Len(RecordedIn(c)') = Len(RecordedIn(c)) + 1,
         RelatedIn(c)' = RelatedIn(c)
  PROVE  Store!Next
<1>1. Store!Record(c)
  BY DEF Store!Record, Store!IsPrefix, IsPrefix, Store!Last, Last, OpenIn, RecordedIn, RecordedAs, RecordOf, RelatedIn, Numbers
<1> QED
  BY <1>1 DEF Store!Next, Numbers

LEMMA StoreReopens ==
  ASSUME NEW c \in Numbers, Store!Only(c), UNCHANGED sent, Reopened' = Reopened \cup {c},
         NEW s \in ToSet(Recorded(c)) \ OpenIn(c), OpenIn(c)' = OpenIn(c) \cup {s}, KeepsIn(c),
         RelatedIn(c)' = RelatedIn(c)
  PROVE  Store!Next
<1>1. Store!KeepsRecords(c) /\ s \in Store!SpansRecorded(c)
  BY StoreKeeps, StoreSpans
<1>2. Store!Reopen(c)
  BY <1>1 DEF Store!Reopen, OpenIn, RelatedIn, Numbers
<1> QED
  BY <1>2 DEF Store!Next, Numbers

LEMMA StoreArchives ==
  ASSUME NEW c \in Numbers, Store!GoesOn(c), OpenIn(c) = {}, RecordedIn(c) # <<>>,
         sent' = Append(sent, c), Reopened' = Reopened, \A d \in Numbers : Same(d)
  PROVE  Store!Next
<1>1. Store!Archive(c)
  BY DEF Store!Archive, Same, OpenIn, RecordedIn, RecordedAs, RecordOf, RelatedIn, Numbers
<1> QED
  BY <1>1 DEF Store!Next, Numbers

LEMMA StoreInit == Init => Store!Init
<1> SUFFICES ASSUME Init PROVE Store!Init
  OBVIOUS
<1>1. Segments = {} /\ sent = <<>>
  BY DEF Init, Segments
<1>2. (\A c : Recorded(c) = <<>>) /\ Reopened = {}
  BY <1>1 DEF Recorded, Reopened
<1>3. \A sp : RecordedAs(<<>>, sp) = <<>>
  BY DEF RecordedAs
<1> QED
  BY <1>1, <1>2, <1>3 DEF Store!Init, RecordedAs, RecordOf

Stored == Store!Next \/ UNCHANGED Store!store

LEMMA SegmentFacts ==
  ASSUME AInv
  PROVE  /\ Types /\ Ranged /\ Base /\ Complete /\ Recs
         /\ Segments \subseteq DOMAIN ctxs /\ Segments \subseteq Numbers /\ DOMAIN spans \subseteq Numbers
         /\ \A c : Recorded(c) \in Seq(Nat)
         /\ \A c \in Segments : ToSet(Recorded(c)) \subseteq SpansOf(c)
         /\ \A c : ToSet(Recorded(c)) \subseteq DOMAIN spans
         /\ sent \in Seq(Nat)
<1>1. Types /\ Ranged /\ Base /\ Complete /\ Recs
  BY DEF AInv, Base
<1>2. DOMAIN ctxs \subseteq Numbers /\ DOMAIN spans \subseteq Numbers
  <2>1. /\ Len(ctxs) \in Nat /\ Len(spans) \in Nat /\ Len(ctxs) <= Len(spans) /\ Len(spans) <= MaxSpans
        /\ DOMAIN ctxs = 1 .. Len(ctxs) /\ DOMAIN spans = 1 .. Len(spans)
    BY <1>1, Records DEF Recs
  <2> QED
    BY <2>1, LimitsAssumption DEF Numbers
<1>3. \A c \in Segments : ToSet(Recorded(c)) \subseteq SpansOf(c)
  BY <1>1 DEF Recs, RecsOf
<1>4. \A c : ToSet(Recorded(c)) \subseteq DOMAIN spans
  <2>1. ToSet(<<>>) = {}
    BY DEF ToSet
  <2> QED
    BY <1>1, <1>3, <2>1, SegmentTypes DEF SpansOf
<1> QED
  BY <1>1, <1>2, <1>3, <1>4, SegmentTypes DEF Types

\* What a record says stays as long as the component and the references of its span do.
LEMMA RecordsSame ==
  ASSUME NEW d, Recorded(d)' = Recorded(d),
         \A t \in ToSet(Recorded(d)) : spans'[t].comp = spans[t].comp /\ spans'[t].refs = spans[t].refs
  PROVE  RecordedIn(d)' = RecordedIn(d)
<1>1. \A n \in DOMAIN Recorded(d) : Recorded(d)[n] \in ToSet(Recorded(d))
  BY DEF ToSet
<1> QED
  BY <1>1 DEF RecordedIn, RecordedAs

LEMMA OthersSame ==
  ASSUME AInv, NEW c, NEW s, ChangesIn(c, s)
  PROVE  \A d : d # c => Same(d)
<1> SUFFICES ASSUME NEW d, d # c PROVE Same(d)
  OBVIOUS
<1>1. OpenIn(d)' = OpenIn(d)
  BY SegmentFacts, OthersQuiet
<1>2. RecordedIn(d)' = RecordedIn(d)
  <2>1. \A t \in ToSet(Recorded(d)) : t \in DOMAIN spans /\ t # s
    <3>1. CASE d \in Segments
      BY <3>1, SegmentFacts DEF ChangesIn, SpansOf
    <3>2. CASE d \notin Segments
      BY <3>2, SegmentFacts, SegmentTypes DEF ToSet
    <3> QED
      BY <3>1, <3>2
  <2>2. Recorded(d)' = Recorded(d) /\ \A t \in ToSet(Recorded(d)) : spans'[t] = spans[t]
    BY <2>1 DEF ChangesIn
  <2> QED
    BY <2>2, RecordsSame
<1>3. RelatedIn(d)' = RelatedIn(d)
  BY DEF RelatedIn, ChangesIn
<1> QED
  BY <1>1, <1>2, <1>3 DEF Same

LEMMA StoredKept ==
  ASSUME UNCHANGED <<spans, ctxs, sent>>
  PROVE  Stored
<1>1. Quiet /\ Segments' = Segments /\ \A d : Recorded(d)' = Recorded(d)
  BY QuietKept
<1>2. \A d : RecordedIn(d)' = RecordedIn(d)
  BY <1>1, RecordsSame
<1>3. \A d \in Numbers : Same(d)
  BY <1>1, <1>2 DEF Same, Quiet, RelatedIn
<1> QED
  BY <1>1, <1>3, StoreStutters DEF Stored, Quiet

\* A step changes an open span of a segment and what that is related to.
LEMMA StoredTouched ==
  ASSUME AInv, NEW c, NEW s, ChangesIn(c, s), Recorded(c)' = Recorded(c), Quiet, UNCHANGED sent,
         c \in Segments => s \in OpenIn(c)
  PROVE  Stored
<1>1. \A d : d # c => Same(d)
  BY OthersSame
<1>2. CASE c \in Segments
  <2>1. c \in Numbers /\ Store!Only(c)
    BY <1>1, <1>2, SegmentFacts, StoreOnly
  <2>2. Store!GoesOn(c)
    <3>1. c \notin ToSet(sent) \ Reopened
      BY <1>2, SegmentFacts DEF Complete
    <3> QED
      BY <3>1, SegmentFacts, StoreGoesOn
  <2>3. c \notin Reopened => s \notin ToSet(Recorded(c))
    <3>1. s \in ToSet(Recorded(c)) => s \in Started
      BY <1>2 DEF OpenIn
    <3> QED
      BY <3>1, ReopenedAre DEF Again, ToSet
  <2>4. KeepsIn(c)
    <3>1. ASSUME c \notin Reopened' PROVE RecordedIn(c)' = RecordedIn(c)
      <4>1. \A t \in ToSet(Recorded(c)) : spans'[t] = spans[t]
        BY <2>3, <3>1, SegmentFacts DEF ChangesIn, Quiet
      <4> QED
        BY <4>1, RecordsSame
    <3> QED
      BY <3>1 DEF KeepsIn
  <2> QED
    BY <1>2, <2>1, <2>2, <2>4, StoreRelates DEF Stored, Quiet
<1>3. CASE c \notin Segments
  <2>1. Same(c)
    <3>1. \A t \in ToSet(Recorded(c)) : FALSE
      BY <1>3, SegmentFacts, SegmentTypes DEF ToSet
    <3>2. RecordedIn(c)' = RecordedIn(c)
      BY <3>1, RecordsSame
    <3> QED
      BY <1>3, <3>2 DEF Same, Quiet, RelatedIn, ChangesIn
  <2> QED
    BY <1>1, <2>1, StoreStutters DEF Stored, Quiet
<1> QED
  BY <1>2, <1>3

LEMMA StoredCreated ==
  ASSUME AInv, AInv', NEW f \in Flows, NEW x \in SpanRecords, Created(f, x)
  PROVE  Stored
<1>0. PICK new, c : new = Len(spans) + 1 /\ c = x.ctx
  OBVIOUS
<1>1. /\ CreatesIn(c, new) /\ new \in DOMAIN spans' /\ new \notin DOMAIN spans
      /\ \A t \in DOMAIN spans : spans'[t] = spans[t]
  BY <1>0, SegmentFacts, CreatedSegments, CreatedAre
<1>2. UNCHANGED sent /\ \A d \in DOMAIN ctxs : d # c => ctxs'[d] = ctxs[d]
  BY <1>0 DEF Created
<1>3. \A d : RecordedIn(d)' = RecordedIn(d)
  <2>1. \A d : \A t \in ToSet(Recorded(d)) : spans'[t] = spans[t]
    BY <1>1, SegmentFacts
  <2> QED
    BY <1>1, <2>1, RecordsSame DEF CreatesIn
<1>4. Reopened' = Reopened
  BY <1>1 DEF CreatesIn
<1>5. \A d : d # c => Same(d)
  <2> SUFFICES ASSUME NEW d, d # c PROVE Same(d)
    OBVIOUS
  <2>1. OpenIn(d)' = OpenIn(d)
    BY <1>1 DEF OpenIn, CreatesIn
  <2>2. RelatedIn(d)' = RelatedIn(d)
    BY <1>1, <1>2, SegmentFacts DEF RelatedIn, CreatesIn
  <2> QED
    BY <1>3, <2>1, <2>2 DEF Same
<1>6. CASE c \notin Segments'
  <2>1. Same(c)
    <3>1. c \notin Segments
      BY <1>1, <1>6 DEF CreatesIn
    <3> QED
      BY <1>3, <1>6, <3>1 DEF Same, OpenIn, RelatedIn
  <2> QED
    BY <1>2, <1>4, <1>5, <2>1, StoreStutters DEF Stored
<1>7. CASE c \in Segments'
  <2>1. c \in Numbers /\ new \in Numbers
    <3>1. Recs' /\ Types'
      BY DEF AInv, Base
    <3>2. /\ Len(ctxs') \in Nat /\ Len(spans') \in Nat /\ Len(ctxs') <= Len(spans') /\ Len(spans') <= MaxSpans
          /\ DOMAIN ctxs' = 1 .. Len(ctxs') /\ DOMAIN spans' = 1 .. Len(spans')
      BY <3>1 DEF Recs, Types
    <3>3. c \in DOMAIN ctxs'
      BY <1>7 DEF Segments
    <3> QED
      BY <1>1, <3>2, <3>3, LimitsAssumption DEF Numbers
  <2>2. new \notin ToSet(Recorded(c)) /\ new \in SpansOf(c)'
    BY <1>1, SegmentFacts DEF CreatesIn
  <2>3. OpenIn(c)' = OpenIn(c) \cup {new}
    <3>1. OpenIn(c)' = (SpansOf(c) \cup {new}) \ (ToSet(Recorded(c)) \ Started)
      BY <1>1, <1>7 DEF OpenIn, CreatesIn
    <3>2. OpenIn(c) = SpansOf(c) \ (ToSet(Recorded(c)) \ Started)
      BY <1>1, <1>7 DEF OpenIn, CreatesIn
    <3> QED
      BY <2>2, <3>1, <3>2
  <2>4. c \notin ToSet(sent) \ Reopened
    <3>1. c \in ToSet(sent') \ Reopened' => OpenIn(c)' = {}
      BY <1>7 DEF AInv, Complete
    <3> QED
      BY <1>2, <1>4, <2>3, <3>1
  <2>5. \A d \in Numbers : new \notin OpenIn(d) \cup ToSet(Recorded(d))
    BY <1>1, SegmentFacts DEF OpenIn, SpansOf
  <2> QED
    BY <1>2, <1>3, <1>4, <1>5, <2>1, <2>3, <2>4, <2>5, SegmentFacts, StoreOnly, StoreGoesOn, StoreOpens DEF Stored
<1> QED
  BY <1>6, <1>7


\* Without a snapshot a start relates the segment to nothing.
LEMMA StartRelates ==
  ASSUME Types, Ranged, NEW f \in Flows, Start(f), captured[f] = NoSnapshot, NEW c, c = spans[pending[f].span].ctx
  PROVE  ctxs'[c].traces = ctxs[c].traces
<1>1. PICK s : s = pending[f].span
  OBVIOUS
<1>2. s \in DOMAIN spans
  BY <1>1, StartDoes
<1>3. c \in DOMAIN ctxs /\ ctxs[c] \in CtxRecords
  BY <1>1, <1>2, Records DEF Ranged
<1>4. ~Continues(f, spans[s])
  BY DEF Continues
<1>5. ctxs' = [ctxs EXCEPT ![c] = IF spans[s].depth = 0 THEN [ctxs[c] EXCEPT !.nspans = @ + 1] ELSE ctxs[c]]
  BY <1>1, <1>4, Zenon DEF Start
<1>6. ctxs'[c] = IF spans[s].depth = 0 THEN [ctxs[c] EXCEPT !.nspans = @ + 1] ELSE ctxs[c]
  BY <1>3, <1>5
<1>7. [ctxs[c] EXCEPT !.nspans = @ + 1].traces = ctxs[c].traces
  BY <1>3 DEF CtxRecords
<1> QED
  BY <1>6, <1>7

LEMMA StoredStart ==
  ASSUME AInv, NEW f \in Flows, Start(f)
  PROVE  Stored
<1>0. PICK s : s = pending[f].span
  OBVIOUS
<1>1. Types /\ Ranged /\ Depths /\ Recs /\ Base
  BY DEF AInv, Base
<1>2. s \in DOMAIN spans /\ pending[f] # NoSpan
  BY <1>0, <1>1, StartDoes
<1>3. PICK c : c = spans[s].ctx
  OBVIOUS
<1>4. PICK x \in SpanRecords, y \in CtxRecords :
        Touches(s, x, y) /\ x.depth = spans[s].depth + 1 /\ y.segment = ctxs[c].segment
  BY <1>0, <1>1, <1>3, StartDoes
<1>5. UNCHANGED sent
  BY Zenon DEF Start
<1>6. /\ ChangesIn(c, s) /\ spans'[s] = x /\ c \in DOMAIN ctxs
      /\ c \in Segments => Recorded(c)' = y.segment
      /\ c \notin Segments => Recorded(c)' = Recorded(c)
  BY <1>1, <1>2, <1>3, <1>4, TouchedSegments
<1>7. Recorded(c)' = Recorded(c)
  BY <1>1, <1>4, <1>6, SegmentTypes
<1>8. s \in Started'
  <2>1. spans[s].depth \in Nat
    BY <1>1, <1>2, DepthFacts
  <2>2. x.depth > 0
    BY <1>4, <2>1
  <2> QED
    BY <1>2, <1>6, <2>2 DEF Started, ChangesIn
<1>9. \A d \in Segments : ToSet(Recorded(d)) \subseteq SpansOf(d)
  BY <1>1 DEF Recs, RecsOf
<1>10. s \in SpansOf(c) /\ SpansOf(c)' = SpansOf(c) /\ Segments' = Segments /\ Started' = Started \cup {s}
  BY <1>6, <1>8 DEF ChangesIn
<1>11. CASE c \in Segments /\ s \in ToSet(Recorded(c)) \ Started
  <2>1. captured[f] = NoSnapshot
    BY <1>0, <1>1, <1>2, <1>11 DEF Recs, RecsOf
  <2>2. RelatedIn(c)' = RelatedIn(c)
    <3>1. ctxs'[c].traces = ctxs[c].traces
      BY <1>0, <1>1, <1>3, <2>1, StartRelates
    <3> QED
      BY <1>10, <1>11, <3>1 DEF RelatedIn
  <2>3. c \in Numbers /\ Store!Only(c)
    BY <1>6, <1>11, SegmentFacts, OthersSame, StoreOnly
  <2>4. c \in Reopened'
    <3>1. Again(Recorded(c), Started')
      BY <1>8, <1>11 DEF Again, ToSet
    <3> QED
      BY <1>7, <3>1, ReopenedAre
  <2>5. Reopened' = Reopened \cup {c}
    BY <1>1, <1>6, <1>9, <2>4, OthersQuiet
  <2>6. s \notin OpenIn(c) /\ OpenIn(c)' = OpenIn(c) \cup {s}
    BY <1>7, <1>10, <1>11 DEF OpenIn
  <2>7. KeepsIn(c)
    BY <1>7, <2>4 DEF KeepsIn
  <2> QED
    BY <1>5, <1>11, <2>2, <2>3, <2>5, <2>6, <2>7, StoreReopens DEF Stored
<1>12. CASE ~(c \in Segments /\ s \in ToSet(Recorded(c)) \ Started)
  <2>1. c \notin Segments => s \notin ToSet(Recorded(c))
    BY <1>1, SegmentTypes DEF ToSet
  <2>2. Quiet
    BY <1>1, <1>6, <1>7, <1>8, <1>9, <1>12, <2>1, QuietIf
  <2>3. c \in Segments => s \in OpenIn(c)
    BY <1>10, <1>12 DEF OpenIn
  <2> QED
    BY <1>5, <1>6, <1>7, <2>2, <2>3, StoredTouched
<1> QED
  BY <1>11, <1>12

LEMMA StoredExtract ==
  ASSUME AInv, NEW f \in Flows, Extract(f)
  PROVE  Stored
<1>1. Types /\ Ranged /\ Depths /\ Complete /\ Recs /\ Base
  BY DEF AInv, Base
<1>2. PICK s, c : s = Last(within[f]) /\ c = spans[s].ctx
  OBVIOUS
<1>3. s \in DOMAIN spans
  BY <1>1, <1>2, ExtractDoes
<1>4. PICK x \in SpanRecords, y \in CtxRecords :
        Touches(s, x, y) /\ x.depth = spans[s].depth /\ y.segment = ctxs[c].segment
  BY <1>1, <1>2, ExtractDoes
<1>5. UNCHANGED sent
  BY DEF Extract
<1>6. /\ ChangesIn(c, s) /\ spans'[s] = x
      /\ c \in Segments => Recorded(c)' = y.segment
      /\ c \notin Segments => Recorded(c)' = Recorded(c)
  BY <1>1, <1>2, <1>3, <1>4, TouchedSegments
<1>7. Recorded(c)' = Recorded(c)
  BY <1>1, <1>4, <1>6, SegmentTypes
<1>8. s \in Started' <=> s \in Started
  BY <1>3, <1>4, <1>6 DEF Started, ChangesIn
<1>9. \A d \in Segments : ToSet(Recorded(d)) \subseteq SpansOf(d)
  BY <1>1 DEF Recs, RecsOf
<1>10. Quiet
  BY <1>1, <1>6, <1>7, <1>8, <1>9, QuietIf
<1>11. s \in Started
  <2>1. Len(within[f]) \in DOMAIN within[f] /\ s = within[f][Len(within[f])]
    BY <1>1, <1>2 DEF Extract, InPoll, Last, Types, FlowType
  <2> QED
    BY <1>1, <2>1, DepthFacts
<1>12. c \in Segments => s \in OpenIn(c)
  BY <1>1, <1>2, <1>11, OpenNotSent
<1> QED
  BY <1>5, <1>6, <1>7, <1>10, <1>12, StoredTouched

\* The end of an open span does not make a segment a reopened one.
LEMMA AgainShrinks ==
  ASSUME NEW seg \in Seq(Nat), NEW st, NEW su, NEW s \in Nat, s \in st, s \notin su, su \subseteq st,
         Again(Append(seg, s), su)
  PROVE  Again(seg, st)
<1> DEFINE q == Append(seg, s)
           k == Len(seg) + 1
<1>1. /\ DOMAIN q = DOMAIN seg \cup {k} /\ q[k] = s /\ 1 .. k - 1 = DOMAIN seg
      /\ \A m \in DOMAIN seg : q[m] = seg[m] /\ 1 .. m - 1 \subseteq DOMAIN seg
  OBVIOUS
<1>2. PICK n \in DOMAIN q : q[n] \in su \/ \E m \in 1 .. n - 1 : q[m] = q[n]
  BY DEF Again
<1> HIDE DEF q, k
<1>3. CASE n = k
  <2>1. PICK m \in DOMAIN seg : seg[m] = s
    BY <1>1, <1>2, <1>3
  <2> QED
    BY <2>1 DEF Again
<1>4. CASE n \in DOMAIN seg
  <2>1. seg[n] \in st \/ \E m \in 1 .. n - 1 : seg[m] = seg[n]
    BY <1>1, <1>2, <1>4
  <2> QED
    BY <1>4, <2>1 DEF Again
<1> QED
  BY <1>1, <1>3, <1>4

\* The record of a span that ends is added to those of its segment.
LEMMA RecordAdded ==
  ASSUME NEW seg \in Seq(Nat), NEW s \in Nat, NEW sp, NEW sq,
         \A n \in DOMAIN seg : sq[seg[n]].comp = sp[seg[n]].comp /\ sq[seg[n]].refs = sp[seg[n]].refs
  PROVE  /\ IsPrefix(RecordedAs(seg, sp), RecordedAs(Append(seg, s), sq))
         /\ Len(RecordedAs(Append(seg, s), sq)) = Len(RecordedAs(seg, sp)) + 1
         /\ Last(RecordedAs(Append(seg, s), sq)).span = s
<1> DEFINE k == Len(seg)
           q == Append(seg, s)
           E(t, sr) == [span |-> t, comp |-> sr[t].comp, refs |-> sr[t].refs]
           S == {E(seg[n], sp) : n \in DOMAIN seg} \cup {E(s, sq)}
           R == RecordedAs(seg, sp)
           Q == RecordedAs(q, sq)
<1>1. /\ k \in Nat /\ DOMAIN seg = 1 .. k /\ DOMAIN q = 1 .. k + 1 /\ q[k + 1] = s
      /\ \A n \in 1 .. k : q[n] = seg[n]
  OBVIOUS
<1> HIDE DEF k, q
<1>0. R = [n \in 1 .. k |-> E(seg[n], sp)] /\ Q = [n \in 1 .. k + 1 |-> E(q[n], sq)]
  BY <1>1 DEF RecordedAs
<1>00. (\A n \in 1 .. k : E(seg[n], sq) = E(seg[n], sp)) /\ E(s, sq).span = s
  BY <1>1
<1> HIDE DEF E, R, Q
<1>2. R \in [1 .. k -> S] /\ \A n \in 1 .. k : R[n] = E(seg[n], sp)
  BY <1>0, <1>1
<1>3. Q \in [1 .. k + 1 -> S] /\ (\A n \in 1 .. k : Q[n] = E(seg[n], sp)) /\ Q[k + 1] = E(s, sq)
  <2>1. \A n \in 1 .. k + 1 : n \in 1 .. k \/ n = k + 1
    BY <1>1
  <2>3. \A n \in 1 .. k : n \in 1 .. k + 1 /\ E(q[n], sq) = E(seg[n], sp) /\ E(seg[n], sp) \in S
    BY <1>00, <1>1
  <2>4. E(q[k + 1], sq) = E(s, sq) /\ E(s, sq) \in S /\ k + 1 \in 1 .. k + 1
    BY <1>1
  <2> HIDE DEF S
  <2> QED
    BY <1>0, <2>1, <2>3, <2>4
<1> HIDE DEF S
<1>4. R \in Seq(S) /\ Q \in Seq(S) /\ Len(R) = k /\ Len(Q) = k + 1
  BY <1>1, <1>2, <1>3
<1>5. SubSeq(R, 1, k) = SubSeq(Q, 1, k)
  <2>1. \A n \in 1 .. k : n \in 1 .. k + 1 /\ R[n] \in S /\ Q[n] \in S /\ 1 + n - 1 = n /\ R[n] = Q[n]
    BY <1>1, <1>2, <1>3
  <2>2. (IF 1 <= k THEN k - 1 + 1 ELSE 0) = k /\ k - 1 + 1 = k /\ k \in Int /\ 1 \in Int
    BY <1>1
  <2>3. /\ SubSeq(R, 1, k) \in Seq(S) /\ Len(SubSeq(R, 1, k)) = k
        /\ \A i \in 1 .. k : SubSeq(R, 1, k)[i] = R[1 + i - 1]
    BY <2>1, <2>2, SubSeqProperties
  <2>4. /\ SubSeq(Q, 1, k) \in Seq(S) /\ Len(SubSeq(Q, 1, k)) = k
        /\ \A i \in 1 .. k : SubSeq(Q, 1, k)[i] = Q[1 + i - 1]
    BY <2>1, <2>2, SubSeqProperties
  <2>5. \A i \in 1 .. k : SubSeq(R, 1, k)[i] = SubSeq(Q, 1, k)[i]
    BY <2>1, <2>3, <2>4
  <2> QED
    BY ONLY <2>3, <2>4, <2>5, SeqEqual
<1>6. IsPrefix(R, Q)
  BY <1>1, <1>4, <1>5 DEF IsPrefix
<1>7. Last(Q).span = s
  BY <1>00, <1>3, <1>4 DEF Last
<1> QED
  BY <1>1, <1>4, <1>6, <1>7 DEF R, Q, q

LEMMA StoredEnded ==
  ASSUME AInv, NEW f \in Flows, NEW g \in Flows, NEW n \in DOMAIN within[g], Ended(f, g, n)
  PROVE  Stored
<1>0. PICK s, c, last : s = within[g][n] /\ c = spans[s].ctx /\ last = (spans[s].depth = 1 /\ f \notin unset)
  OBVIOUS
<1>1. Types /\ Ranged /\ Complete /\ Recs /\ Base
  BY DEF AInv, Base
<1>2. /\ ChangesIn(c, s) /\ s \in DOMAIN spans /\ s \in Started /\ c \in DOMAIN ctxs
      /\ spans'[s].comp = spans[s].comp /\ spans'[s].refs = spans[s].refs
      /\ ctxs'[c].traces = ctxs[c].traces
      /\ last /\ c \in Segments => Recorded(c)' = Append(Recorded(c), s)
      /\ ~(last /\ c \in Segments) => Recorded(c)' = Recorded(c)
      /\ last => s \notin Started'
      /\ ~last => (c \in Segments /\ s \in ToSet(Recorded(c)) => s \in Started')
  BY <1>0, <1>1, EndedSegments
<1>3. UNCHANGED sent
  BY DEF Ended
<1>4. \A d \in Segments : ToSet(Recorded(d)) \subseteq SpansOf(d)
  BY <1>1 DEF Recs, RecsOf
<1>5. \A t \in DOMAIN spans : spans'[t].comp = spans[t].comp /\ spans'[t].refs = spans[t].refs
  BY <1>2 DEF ChangesIn
<1>6. RelatedIn(c)' = RelatedIn(c)
  BY <1>2 DEF RelatedIn, ChangesIn
<1>7. \A d : d # c => Same(d)
  BY <1>2, OthersSame
<1>8. CASE ~(last /\ c \in Segments)
  <2>1. s \notin ToSet(Recorded(c)) \/ (s \in Started' <=> s \in Started)
    <3>1. c \notin Segments => s \notin ToSet(Recorded(c))
      BY <1>1, SegmentTypes DEF ToSet
    <3> QED
      BY <1>2, <1>8, <3>1
  <2>2. Quiet
    BY <1>1, <1>2, <1>4, <1>8, <2>1, QuietIf
  <2>3. RecordedIn(c)' = RecordedIn(c)
    <3>1. Recorded(c)' = Recorded(c) /\ \A t \in ToSet(Recorded(c)) : t \in DOMAIN spans
      BY <1>2, <1>8, SegmentFacts
    <3> QED
      BY <1>5, <3>1, RecordsSame
  <2>4. Same(c)
    BY <1>6, <2>2, <2>3 DEF Same, Quiet
  <2> QED
    BY <1>3, <1>7, <2>2, <2>4, StoreStutters DEF Stored, Quiet
<1>9. CASE last /\ c \in Segments
  <2>1. PICK seg : seg = Recorded(c)
    OBVIOUS
  <2>2. seg \in Seq(Nat) /\ s \in Nat /\ c \in Numbers /\ \A m \in DOMAIN seg : seg[m] \in DOMAIN spans
    <3>1. \A m \in DOMAIN seg : seg[m] \in ToSet(Recorded(c))
      BY <2>1 DEF ToSet
    <3> QED
      BY <1>1, <1>2, <1>9, <2>1, <3>1, SegmentFacts, Records
  <2>3. Recorded(c)' = Append(seg, s) /\ ToSet(Append(seg, s)) = ToSet(seg) \cup {s}
    BY <1>2, <1>9, <2>1, <2>2, ElementsOfAppend
  <2>4. Started' = Started \ {s} /\ SpansOf(c)' = SpansOf(c) /\ Segments' = Segments /\ s \in SpansOf(c)
    BY <1>2, <1>9 DEF ChangesIn
  <2>5. s \in OpenIn(c) /\ OpenIn(c)' = OpenIn(c) \ {s}
    BY <1>2, <1>9, <2>1, <2>3, <2>4 DEF OpenIn
  <2>6. c \in Reopened' <=> c \in Reopened
    <3>1. ASSUME Again(seg, Started) PROVE Again(Append(seg, s), Started')
      <4>1. Started \subseteq Started' \cup {s}
        BY <2>4
      <4> QED
        BY <2>2, <3>1, <4>1, AgainGrows
    <3>2. ASSUME Again(Append(seg, s), Started') PROVE Again(seg, Started)
      <4>1. s \in Started /\ s \notin Started' /\ Started' \subseteq Started
        BY <1>2, <2>4
      <4> QED
        BY <2>2, <3>2, <4>1, AgainShrinks
    <3> QED
      BY <2>1, <2>3, <3>1, <3>2, ReopenedAre
  <2>7. Reopened' = Reopened
    <3>1. \A d : d \in Reopened' <=> d \in Reopened
      BY <1>1, <1>2, <1>4, <2>6, OthersQuiet
    <3> QED
      BY <3>1
  <2>8. /\ IsPrefix(RecordedIn(c), RecordedIn(c)') /\ Len(RecordedIn(c)') = Len(RecordedIn(c)) + 1
        /\ Last(RecordedIn(c)').span = s
    <3>1. RecordedIn(c) = RecordedAs(seg, spans) /\ RecordedIn(c)' = RecordedAs(Append(seg, s), spans')
      BY <2>1, <2>3 DEF RecordedIn, RecordedAs
    <3>2. \A m \in DOMAIN seg : spans'[seg[m]].comp = spans[seg[m]].comp /\ spans'[seg[m]].refs = spans[seg[m]].refs
      BY <1>5, <2>2
    <3>3. seg \in Seq(Nat) /\ s \in Nat
      BY <2>2
    <3> QED
      BY ONLY <3>1, <3>2, <3>3, RecordAdded
  <2>9. Store!Only(c) /\ Store!GoesOn(c)
    <3>1. c \notin ToSet(sent) \ Reopened
      BY <1>0, <1>1, <1>2, <1>9, OpenNotSent
    <3> QED
      BY <1>7, <2>2, <3>1, SegmentFacts, StoreOnly, StoreGoesOn
  <2> QED
    BY <1>3, <1>6, <2>2, <2>5, <2>7, <2>8, <2>9, StoreRecords DEF Stored
<1> QED
  BY <1>8, <1>9

LEMMA StoredArchive ==
  ASSUME AInv, NEW f \in Flows, Archive(f)
  PROVE  Stored
<1>1. Types /\ Ranged /\ Counts /\ Turns /\ Complete /\ Recs
  BY DEF AInv, Base
<1>2. PICK c : c = stopping[f]
  OBVIOUS
<1>3. /\ Turn(f) /\ c # 0
      /\ sent' = IF ctxs[c].nspans = 0 /\ ~ctxs[c].noop THEN Append(sent, c) ELSE sent
      /\ UNCHANGED <<spans, ctxs, pending>>
  BY <1>2 DEF Archive
<1>4. \A g \in Flows : pending[g] = NoSpan
  BY <1>1, <1>2, <1>3 DEF Turns, Turn
<1>5. Quiet /\ Segments' = Segments /\ \A d : Recorded(d)' = Recorded(d)
  BY <1>3, QuietKept
<1>6. \A d \in Numbers : Same(d)
  <2>1. \A d : RecordedIn(d)' = RecordedIn(d)
    BY <1>3, <1>5, RecordsSame
  <2> QED
    BY <1>3, <1>5, <2>1 DEF Same, Quiet, RelatedIn
<1>7. CASE ctxs[c].nspans = 0 /\ ~ctxs[c].noop
  <2>1. c \in Segments /\ c \in DOMAIN ctxs
    BY <1>1, <1>2, <1>3, <1>7 DEF Ranged, Segments
  <2>2. c \in Numbers /\ Store!GoesOn(c)
    <3>1. c \notin ToSet(sent) \ Reopened
      BY <1>1, <1>2, <2>1 DEF Complete
    <3> QED
      BY <2>1, <3>1, SegmentFacts, StoreGoesOn
  <2>3. OpenIn(c) = {}
    <3>1. SpansOf(c) \cap Counted = {}
      BY <1>1, <1>7, <2>1, OpenCounted
    <3>2. \A s \in SpansOf(c) : s \in ToSet(Recorded(c))
      BY <1>1, <1>4, <2>1, <3>1 DEF Recs, RecsOf, Pending
    <3> QED
      BY <3>1, <3>2 DEF OpenIn, Counted
  <2>4. RecordedIn(c) # <<>>
    <3>1. Recorded(c) # <<>> /\ Recorded(c) \in Seq(Nat)
      BY <1>1, <1>2, <2>1, SegmentFacts DEF Recs, RecsOf
    <3>2. 1 \in DOMAIN Recorded(c)
      BY <3>1
    <3>3. DOMAIN RecordedIn(c) = DOMAIN Recorded(c) /\ 1 \notin DOMAIN <<>>
      BY DEF RecordedIn, RecordedAs
    <3> QED
      BY <3>2, <3>3
  <2>5. sent' = Append(sent, c)
    BY <1>3, <1>7
  <2> QED
    BY <1>5, <1>6, <2>2, <2>3, <2>4, <2>5, StoreArchives DEF Stored, Quiet
<1>8. CASE ~(ctxs[c].nspans = 0 /\ ~ctxs[c].noop)
  BY <1>3, <1>8, StoredKept
<1> QED
  BY <1>7, <1>8

LEMMA StoredStep == AInv /\ [Next]_vars => Stored /\ AInv'
<1> SUFFICES ASSUME AInv, [Next]_vars PROVE Stored
  BY AInvStep
<1>1. Types /\ Ranged /\ AInv'
  BY AInvStep DEF AInv, Base
<1>2. CASE UNCHANGED vars
  BY <1>2, StoredKept DEF vars
<1>3. ASSUME NEW f \in Flows,
             LateRaises(f) \/ Spawn(f) \/ RunThread(f) \/ (\E call \in calls : Inherited(f, call))
      PROVE  Stored
  BY <1>3, StoredKept DEF LateRaises, Spawn, RunThread, Inherited
<1>4. CASE Next
  BY <1>1, <1>3, <1>4, StepCases, StoredCreated, StoredStart, StoredExtract, StoredEnded, StoredArchive
<1> QED
  BY <1>2, <1>4

\* The tracing core implements the store of segments (context.py, segment.py, span.py): spans are
\* recorded as they end, and a segment is archived when nothing in it is open, by then with all of
\* its spans.  It changes afterwards, and is archived again, only if a finished span of it has been
\* inherited (context.py:138, 162); and a span whose end is lost keeps it from being archived.
THEOREM TracingImplementsStore == Spec => ImplementsStore
<1>1. Init => Store!Init
  BY StoreInit
<1>2. AInv /\ [Next]_vars => [Store!Next]_(Store!store)
  BY StoredStep DEF Stored
<1> QED
  BY <1>1, <1>2, AInvInit, AInvStep, PTL DEF Spec, ImplementsStore, Store!Spec
-----------------------------------------------------------------------------
(* Traces that are referred to.                                            *)

\* The references there are: sent, captured, or kept in a span.
Referred == wire \cup {captured[f] : f \in Flows} \cup UNION {spans[s].refs : s \in DOMAIN spans}

\* The own trace of a segment was replaced by that of a carrier of an entry span nested in it.
NestedEntry(c) == \E t \in SpansOf(c) : spans[t].call.kind = "entry" /\ spans[t].sid > 0

\* The span that r refers to is there, and the trace that r names can be found.
Sound(r) ==
  /\ \E t \in SpansOf(r.ctx) : spans[t].sid = r.sid
  /\ r.trace \in ToSet(ctxs[r.ctx].traces) \/ (r.trace = r.ctx /\ NestedEntry(r.ctx))

Sounds == \A r \in Referred : r # Remote => Sound(r)

\* A segment lists its own trace until a span of it refers to another.
Owned ==
  \A c \in DOMAIN ctxs : ctxs[c].ownTrace =>
    ctxs[c].traces = <<c>> /\ \A s \in SpansOf(c) : spans[s].refs = {}

\* What the spans of a segment refer to is older, and in a trace the segment lists.
Listed ==
  \A s \in DOMAIN spans : \A r \in spans[s].refs :
    /\ r.trace \in ToSet(ctxs[spans[s].ctx].traces)
    /\ r # Remote => \E t \in SpansOf(r.ctx) : t < s /\ spans[t].sid = r.sid

\* The span s of flow f is alone in its segment, and nobody else knows of it.
Private(f, s) ==
  /\ SpansOf(spans[s].ctx) = {s}
  /\ \A r \in Referred : r.ctx # spans[s].ctx
  /\ \A g \in Flows \ {f} : pending[g].span # s /\ \A m \in DOMAIN stack[g] : stack[g][m] # s

Polled(s) == spans[s].call.carrier = "polled"

\* The span of a poll is not that of an outer server.
Unserved == \A s \in DOMAIN spans : Polled(s) => spans[s].comp # "General"

\* A span that was created and not started is the latest, and private if it is the first of its
\* segment; one that is used again is not that of a poll.
Fresh ==
  \A f \in Flows, s \in DOMAIN spans : pending[f] # NoSpan /\ s = pending[f].span =>
    \/ s = Len(spans) /\ pending[f].call = spans[s].call /\ (spans[s].sid = 0 => Private(f, s))
    \/ ~Polled(s) /\ captured[f] = NoSnapshot

\* Nothing is done in the body of a poll but extracting: the block is the innermost of its flow,
\* and the span private if it is the first of its segment.
Polls ==
  \A f \in Flows :
    /\ pending[f] # NoSpan => ~InPoll(f)
    /\ \A n \in DOMAIN within[f], s \in DOMAIN spans : s = within[f][n] /\ Polled(s) =>
         n = Len(within[f]) /\ (spans[s].sid = 0 => Private(f, s))

\* A flow that has not begun has nothing; one with a snapshot has created one span at most.
Snapshots ==
  \A f \in Flows :
    /\ f \notin running =>
         stack[f] = <<>> /\ within[f] = <<>> /\ pending[f] = NoSpan /\ captured[f] = NoSnapshot
    /\ captured[f] # NoSnapshot =>
         /\ stack[f] = <<>> /\ within[f] = <<>>
         /\ pending[f] # NoSpan =>
              /\ pending[f].call.carrier # "sent"
              /\ pending[f].call # Nothing => spans[pending[f].span].sid = 0

Joinable == Sounds /\ Owned /\ Listed /\ Unserved /\ Fresh /\ Polls /\ Snapshots

\* Spans are only added, and keep what names them.
Grows ==
  \A t \in DOMAIN spans : /\ t \in DOMAIN spans' /\ spans'[t].ctx = spans[t].ctx
                          /\ spans'[t].sid = spans[t].sid /\ spans'[t].call = spans[t].call

\* The segment c goes on to list what it lists, unless that is its own trace alone.
ListsOn(c) == ctxs[c].ownTrace \/ ToSet(ctxs[c].traces) \subseteq ToSet(ctxs'[c].traces)

LEMMA OwnOnly ==
  ASSUME Owned, NEW c \in DOMAIN ctxs, ctxs[c].ownTrace, NEW t, t \in ToSet(ctxs[c].traces)
  PROVE  t = c
<1>1. ctxs[c].traces = <<c>>
  BY DEF Owned
<1> QED
  BY <1>1 DEF ToSet

LEMMA SpanThere ==
  ASSUME Ranged, NEW r, NEW t, t \in SpansOf(r.ctx)
  PROVE  r.ctx \in DOMAIN ctxs /\ t \in DOMAIN spans
  BY DEF SpansOf, Ranged

LEMMA SoundKept ==
  ASSUME Ranged, Owned, Grows, NEW r, Sound(r), ListsOn(r.ctx),
         \/ ~ctxs[r.ctx].ownTrace
         \/ ToSet(ctxs[r.ctx].traces) \subseteq ToSet(ctxs'[r.ctx].traces)
         \/ NestedEntry(r.ctx)'
  PROVE  Sound(r)'
<1> DEFINE c == r.ctx
<1>1. PICK t \in SpansOf(c) : spans[t].sid = r.sid
  BY DEF Sound
<1>2. c \in DOMAIN ctxs
  BY <1>1, SpanThere
<1>3. \A u \in SpansOf(c) : /\ u \in SpansOf(c)' /\ spans'[u].sid = spans[u].sid
                            /\ spans'[u].call = spans[u].call
  BY DEF Grows, SpansOf
<1>4. NestedEntry(c) => NestedEntry(c)'
  BY <1>3 DEF NestedEntry
<1>5. r.trace \in ToSet(ctxs[c].traces) /\ ctxs[c].ownTrace => r.trace = c
  BY <1>2, OwnOnly
<1>6. r.trace \in ToSet(ctxs'[c].traces) \/ (r.trace = c /\ NestedEntry(c)')
  BY <1>4, <1>5 DEF Sound, ListsOn
<1>7. \E u \in SpansOf(c)' : spans'[u].sid = r.sid
  BY <1>1, <1>3
<1> QED
  BY <1>6, <1>7 DEF Sound

LEMMA ListedKept ==
  ASSUME Ranged, Owned, Listed, Grows, NEW s \in DOMAIN spans, NEW r \in spans[s].refs, ListsOn(spans[s].ctx)
  PROVE  /\ r.trace \in ToSet(ctxs'[spans[s].ctx].traces)
         /\ r # Remote => \E t \in SpansOf(r.ctx)' : t < s /\ spans'[t].sid = r.sid
<1> DEFINE c == spans[s].ctx
<1>1. c \in DOMAIN ctxs /\ s \in SpansOf(c)
  BY DEF Ranged, SpansOf
<1>2. ~ctxs[c].ownTrace
  BY <1>1 DEF Owned
<1>3. r.trace \in ToSet(ctxs'[c].traces)
  BY <1>2 DEF Listed, ListsOn
<1>4. \A u \in SpansOf(r.ctx) : u \in SpansOf(r.ctx)' /\ spans'[u].sid = spans[u].sid
  BY DEF Grows, SpansOf
<1> QED
  BY <1>3, <1>4 DEF Listed

LEMMA PrivateKept ==
  ASSUME NEW g \in Flows, NEW q, Private(g, q), spans'[q].ctx = spans[q].ctx,
         SpansOf(spans[q].ctx)' = SpansOf(spans[q].ctx),
         \A r \in Referred' : r \in Referred \/ r.ctx # spans[q].ctx,
         \A h \in Flows \ {g} : pending'[h].span # q /\ \A m \in DOMAIN stack'[h] : stack'[h][m] # q
  PROVE  Private(g, q)'
<1> DEFINE c == spans[q].ctx
<1>1. SpansOf(c) = {q} /\ \A r \in Referred : r.ctx # c
  BY DEF Private
<1> HIDE DEF c
<1>2. SpansOf(spans[q].ctx)' = {q}
  BY <1>1 DEF c, SpansOf
<1>3. \A r \in Referred' : r.ctx # spans'[q].ctx
  BY <1>1 DEF c
<1> QED
  BY <1>2, <1>3 DEF Private

-----------------------------------------------------------------------------
(* What the steps do to references.                                        *)

\* The segment record y follows w when the references R are added to a span of it.
Follows(w, y, R) ==
  \/ R = {} /\ y.traces = w.traces /\ y.ownTrace = w.ownTrace
  \/ /\ ~y.ownTrace /\ \A r \in R : r.trace \in ToSet(y.traces)
     /\ w.ownTrace \/ ToSet(w.traces) \subseteq ToSet(y.traces)

LEMMA RelateLists ==
  ASSUME NEW ctx \in CtxRecords, NEW trace \in Int
  PROVE  /\ ~Relate(ctx, trace).ownTrace /\ trace \in ToSet(Relate(ctx, trace).traces)
         /\ ctx.ownTrace \/ ToSet(ctx.traces) \subseteq ToSet(Relate(ctx, trace).traces)
<1>1. ctx.traces \in Seq(Int) /\ ctx \in [noop : BOOLEAN, next : Nat, nspans : Int, segment : Seq(Nat),
                                          traces : Traces, ownTrace : BOOLEAN]
  BY DEF CtxRecords, Traces
<1> DEFINE t == IF ctx.ownTrace THEN <<trace>> ELSE Append(ctx.traces, trace)
<1>2. Relate(ctx, trace) = [ctx EXCEPT !.traces = t, !.ownTrace = FALSE]
  BY DEF Relate
<1>3. Relate(ctx, trace).traces = t /\ ~Relate(ctx, trace).ownTrace
  <2> HIDE DEF t
  <2> QED
    BY <1>1, <1>2
<1>4. CASE ctx.ownTrace
  <2>1. DOMAIN <<trace>> = {1} /\ <<trace>>[1] = trace
    OBVIOUS
  <2>2. trace \in ToSet(<<trace>>)
    BY <2>1 DEF ToSet
  <2> QED
    BY <1>3, <1>4, <2>2
<1>5. CASE ~ctx.ownTrace
  <2>1. ToSet(Append(ctx.traces, trace)) = ToSet(ctx.traces) \cup {trace}
    BY <1>1, ElementsOfAppend
  <2> QED
    BY <1>3, <1>5, <2>1
<1> QED
  BY <1>4, <1>5

\* A span x is added to its segment, of which y is the new record, with carriers.
Adds(f, carriers, x, y) ==
  /\ spans' = Append(spans, x) /\ x.comp = "Unset"
  /\ x.refs = (IF Finished(f) THEN {RefTo(Parent(f))} ELSE {}) \cup carriers
  /\ \/ /\ ~NoTop(f) /\ ~Finished(f) /\ x.ctx = Parent(f).ctx /\ x.ctx \in DOMAIN ctxs
        /\ ctxs' = [ctxs EXCEPT ![x.ctx] = y] /\ Follows(ctxs[x.ctx], y, x.refs)
        /\ carriers = {} => y.traces = ctxs[x.ctx].traces
     \/ /\ x.ctx = Len(ctxs) + 1 /\ ctxs' = Append(ctxs, y)
        /\ Follows(NewContext(x.ctx, FALSE), y, x.refs)

LEMMA AppendedSame ==
  ASSUME NEW S, NEW s \in Seq(S), NEW x, NEW z, Append(s, z) = Append(s, x)
  PROVE  z = x
<1> DEFINE T == S \cup {x, z}
<1>1. s \in Seq(T) /\ x \in T /\ z \in T
  OBVIOUS
<1> HIDE DEF T
<1>2. Append(s, z)[Len(s) + 1] = z /\ Append(s, x)[Len(s) + 1] = x
  BY <1>1, AppendProperties
<1> QED
  BY <1>2

LEMMA AppendedLast ==
  ASSUME NEW S, NEW s \in Seq(S), NEW x
  PROVE  /\ Append(s, x)[Len(s) + 1] = x /\ Len(s) + 1 \notin DOMAIN s
         /\ \A i \in DOMAIN s : Append(s, x)[i] = s[i]
<1> DEFINE T == S \cup {x}
<1>1. s \in Seq(T) /\ x \in T
  OBVIOUS
<1> HIDE DEF T
<1> QED
  BY <1>1, AppendProperties

LEMMA NewSpanRefers ==
  ASSUME Types, Ranged, NEW f \in Flows, NEW call \in Calls, NEW carriers \in SUBSET Refs,
         \A r, q \in carriers : r = q, NewSpan(f, call, carriers)
  PROVE  \E x, y : Adds(f, carriers, x, y)
<1> DEFINE own  == ~NoTop(f) /\ ~Finished(f)
           c    == IF own THEN Parent(f).ctx ELSE Len(ctxs) + 1
           ctx  == IF own THEN ctxs[c] ELSE NewContext(c, FALSE)
           refs == (IF Finished(f) THEN {RefTo(Parent(f))} ELSE {}) \cup carriers
           late == IF Finished(f) THEN Relate(ctx, RefTo(Parent(f)).trace) ELSE ctx
           one  == CHOOSE r \in carriers : TRUE
           rel  == IF carriers = {} THEN late ELSE Relate(late, one.trace)
           new  == [rel EXCEPT !.next = @ + 1]
           x    == [ctx |-> c, sid |-> ctx.next, pid |-> IF own THEN Parent(f).sid ELSE -1,
                    call |-> call, depth |-> 0, comp |-> "Unset", refs |-> refs]
<1>1. /\ ctxs' = IF own THEN [ctxs EXCEPT ![c] = new] ELSE Append(ctxs, new)
      /\ spans' = Append(spans, x)
  BY DEF NewSpan
<1>2. ~NoTop(f) => Parent(f) \in SpanRecords /\ Parent(f).ctx \in DOMAIN ctxs /\ RefTo(Parent(f)) \in Refs
  BY TopIsSpan, RefToIsRef
<1>3. Finished(f) => ~NoTop(f)
  BY DEF Finished
<1>4. c \in Nat /\ (own => c \in DOMAIN ctxs)
  BY <1>2 DEF Types, SpanRecords
<1>5. ctx \in CtxRecords
  BY <1>4, NewContextDoes, Records
<1>6. x.ctx = c /\ x.refs = refs /\ x.comp = "Unset"
  OBVIOUS
<1> DEFINE p == RefTo(Parent(f))
<1>7. Finished(f) => p.trace \in Int
  BY <1>2, <1>3 DEF Refs
<1>8. carriers # {} => one.trace \in Int /\ carriers = {one}
  BY DEF Refs
<1> HIDE DEF ctx, c, x
<1>9. /\ late \in CtxRecords
      /\ Follows(ctx, late, IF Finished(f) THEN {p} ELSE {})
  BY <1>5, <1>7, RelateDoes, RelateLists DEF Follows
<1> HIDE DEF late, one, p
<1>10. rel \in CtxRecords /\ Follows(ctx, rel, refs)
  <2>1. refs = (IF Finished(f) THEN {p} ELSE {}) \cup carriers
    BY DEF p
  <2> HIDE DEF refs
  <2>2. CASE carriers = {}
    BY <1>9, <2>1, <2>2
  <2>3. CASE carriers # {}
    <3>1. /\ rel \in CtxRecords /\ ~rel.ownTrace /\ one.trace \in ToSet(rel.traces)
          /\ late.ownTrace \/ ToSet(late.traces) \subseteq ToSet(rel.traces)
      BY <1>8, <1>9, <2>3, RelateDoes, RelateLists
    <3>2. \A r \in refs : r.trace \in ToSet(rel.traces)
      <4>1. Finished(f) => ~late.ownTrace /\ p.trace \in ToSet(late.traces)
        BY <1>9 DEF Follows
      <4> QED
        BY <1>8, <2>1, <2>3, <3>1, <4>1
    <3>3. ctx.ownTrace \/ ToSet(ctx.traces) \subseteq ToSet(rel.traces)
      BY <1>9, <3>1 DEF Follows
    <3> QED
      BY <3>1, <3>2, <3>3 DEF Follows
  <2> QED
    BY <2>2, <2>3
<1> HIDE DEF rel
<1>11. Follows(ctx, new, refs)
  <2>1. new.traces = rel.traces /\ new.ownTrace = rel.ownTrace
    <3> HIDE DEF own, refs
    <3> QED
      BY <1>10 DEF CtxRecords
  <2> HIDE DEF new, refs
  <2> QED
    BY <1>10, <2>1 DEF Follows
<1> HIDE DEF new
<1>12. CASE own
  <2>1. carriers = {} => new.traces = ctx.traces
    <3> HIDE DEF ctx
    <3>1. carriers = {} => new = [ctx EXCEPT !.next = ctx.next + 1]
      BY <1>12 DEF new, rel, late
    <3> QED
      BY <1>5, <3>1 DEF CtxRecords
  <2> QED
    BY <1>1, <1>4, <1>6, <1>11, <1>12, <2>1 DEF c, ctx, Adds
<1>13. CASE ~own
  BY <1>1, <1>6, <1>11, <1>13 DEF c, ctx, Adds
<1> QED
  BY <1>12, <1>13

\* The references of a span x that flow f creates, and what they do to its segment.
Refers(f, x) ==
  /\ x.comp = "Unset" /\ ~InPoll(f) /\ (captured[f] # NoSnapshot => x.call \in {Runnable, Nothing})
  /\ \A r \in x.refs : r \in wire \/ (Finished(f) /\ r = RefTo(Parent(f)))
  /\ x.ctx \in DOMAIN ctxs =>
       /\ Follows(ctxs[x.ctx], ctxs'[x.ctx], x.refs)
       /\ x.call.kind = "entry" \/ ctxs'[x.ctx].traces = ctxs[x.ctx].traces
  /\ x.ctx \notin DOMAIN ctxs => Follows(NewContext(x.ctx, FALSE), ctxs'[x.ctx], x.refs)
  /\ x.call = Nothing => x.refs = {} /\ x.sid = -1

LEMMA RealRefers ==
  ASSUME Types, Ranged, NEW f \in Flows, NEW kind, NewRealSpan(f, kind), NEW x \in SpanRecords, Created(f, x)
  PROVE  Refers(f, x)
<1>1. PICK call \in calls :
        /\ MayCreate(f, call)
        /\ \/ NewSpan(f, call, {})
           \/ call.carrier = "taken" /\ \E r \in wire : NewSpan(f, call, {r})
        /\ Pend(f, Len(spans) + 1, call)
  BY DEF NewRealSpan
<1>2. PICK carriers \in SUBSET wire :
        /\ NewSpan(f, call, carriers) /\ \A r, q \in carriers : r = q
        /\ carriers # {} => call.carrier = "taken"
  <2>1. CASE NewSpan(f, call, {})
    BY <2>1
  <2>2. ASSUME NEW r \in wire, NewSpan(f, call, {r}), call.carrier = "taken"
        PROVE  \E carriers \in SUBSET wire :
                 /\ NewSpan(f, call, carriers) /\ \A p, q \in carriers : p = q
                 /\ carriers # {} => call.carrier = "taken"
    <3>1. {r} \in SUBSET wire /\ \A p, q \in {r} : p = q
      OBVIOUS
    <3> QED
      BY <2>2, <3>1, Zenon
  <2> QED
    BY <1>1, <2>1, <2>2
<1>3. call \in Calls /\ call # Nothing /\ carriers \in SUBSET Refs
  BY CallFacts DEF Types
<1>4. PICK z, y : Adds(f, carriers, z, y)
  BY <1>2, <1>3, NewSpanRefers, Zenon
<1>5. z = x
  <2>1. spans \in Seq(SpanRecords) /\ Append(spans, z) = Append(spans, x)
    BY <1>4, Zenon DEF Created, Types, Adds
  <2> QED
    BY <2>1, AppendedSame, Zenon
<1>6. x.call = call
  BY <1>1 DEF Created, Pend, Types, FlowType
<1>7. /\ ~InPoll(f) /\ (captured[f] # NoSnapshot => x.call \in {Runnable, Nothing})
  BY <1>1, <1>6 DEF MayCreate, MayCall
<1>8. carriers # {} => x.call.kind = "entry"
  BY <1>2, <1>3, <1>6 DEF Calls
<1>9. x.comp = "Unset" /\ \A r \in x.refs : r \in wire \/ (Finished(f) /\ r = RefTo(Parent(f)))
  BY <1>4, <1>5 DEF Adds
<1>10. CASE /\ ~Finished(f) /\ x.ctx \in DOMAIN ctxs
            /\ ctxs' = [ctxs EXCEPT ![x.ctx] = y] /\ Follows(ctxs[x.ctx], y, x.refs)
            /\ carriers = {} => y.traces = ctxs[x.ctx].traces
  <2>1. ctxs'[x.ctx] = y
    BY <1>10
  <2> QED
    BY <1>3, <1>6, <1>7, <1>8, <1>9, <1>10, <2>1 DEF Refers
<1>11. CASE x.ctx = Len(ctxs) + 1 /\ ctxs' = Append(ctxs, y) /\ Follows(NewContext(x.ctx, FALSE), y, x.refs)
  <2>1. ctxs'[x.ctx] = y /\ x.ctx \notin DOMAIN ctxs
    BY <1>11, AppendedLast DEF Types
  <2> QED
    BY <1>3, <1>6, <1>7, <1>9, <1>11, <2>1 DEF Refers
<1> QED
  BY <1>4, <1>5, <1>10, <1>11 DEF Adds

LEMMA NoopRefers ==
  ASSUME Types, Ranged, NEW f \in Flows, NewNoop(f), NEW x \in SpanRecords, Created(f, x)
  PROVE  Refers(f, x)
<1> DEFINE z(c) == [ctx |-> c, sid |-> -1, pid |-> -1, call |-> Nothing, depth |-> 0, comp |-> "Unset",
                    refs |-> {}]
<1>1. \/ InNoop(f) /\ ctxs' = ctxs /\ spans' = Append(spans, z(Parent(f).ctx))
      \/ /\ ctxs' = Append(ctxs, NewContext(Len(ctxs) + 1, TRUE))
         /\ spans' = Append(spans, z(Len(ctxs) + 1))
  BY DEF NewNoop
<1>2. ~InPoll(f)
  BY DEF NewNoop, MayCreate, MayCall
<1>3. \A c : spans' = Append(spans, z(c)) => x = z(c)
  <2>1. spans \in Seq(SpanRecords) /\ spans' = Append(spans, x)
    BY DEF Types, Created
  <2> HIDE DEF z
  <2> QED
    BY <2>1, AppendedSame, Zenon
<1>4. \A c : z(c).ctx = c /\ z(c).refs = {} /\ z(c).call = Nothing /\ z(c).sid = -1 /\ z(c).comp = "Unset"
  OBVIOUS
<1> HIDE DEF z
<1>5. x.refs = {} /\ x.call = Nothing /\ x.sid = -1 /\ x.comp = "Unset"
  <2>1. x = z(Parent(f).ctx) \/ x = z(Len(ctxs) + 1)
    BY <1>1, <1>3, Zenon
  <2> QED
    BY <1>4, <2>1, Zenon
<1>6. CASE InNoop(f) /\ ctxs' = ctxs /\ x.ctx = Parent(f).ctx
  <2>1. x.ctx \in DOMAIN ctxs
    BY <1>6, TopIsSpan DEF InNoop
  <2> QED
    BY <1>2, <1>5, <1>6, <2>1 DEF Refers, Follows
<1>7. CASE ctxs' = Append(ctxs, NewContext(Len(ctxs) + 1, TRUE)) /\ x.ctx = Len(ctxs) + 1
  <2>1. ctxs'[x.ctx] = NewContext(x.ctx, TRUE) /\ x.ctx \notin DOMAIN ctxs
    <3> DEFINE y == NewContext(Len(ctxs) + 1, TRUE)
    <3>1. ctxs \in Seq(CtxRecords)
      BY DEF Types
    <3>2. Append(ctxs, y)[Len(ctxs) + 1] = y /\ Len(ctxs) + 1 \notin DOMAIN ctxs
      BY <3>1, AppendedLast
    <3> QED
      BY <1>7, <3>2
  <2>2. Follows(NewContext(x.ctx, FALSE), ctxs'[x.ctx], x.refs)
    BY <1>5, <2>1 DEF Follows, NewContext
  <2> QED
    BY <1>2, <1>5, <2>1, <2>2 DEF Refers
<1> QED
  BY <1>1, <1>3, <1>4, <1>6, <1>7

LEMMA JoinCases ==
  ASSUME Types, Ranged, Next
  PROVE  \E f \in Flows :
           \/ \E x \in SpanRecords : Created(f, x) /\ Refers(f, x)
           \/ \E call \in calls : Inherited(f, call) /\ ~InPoll(f)
           \/ LateRaises(f) \/ Start(f) \/ Extract(f)
           \/ \E g \in Flows : \E n \in DOMAIN within[g] : Ended(f, g, n)
           \/ Archive(f) \/ Spawn(f) \/ RunThread(f)
<1>1. PICK f \in Flows :
        \/ Create(f) \/ Start(f) \/ Extract(f) \/ Stop(f) \/ Abandon(f) \/ Archive(f)
        \/ Spawn(f) \/ RunThread(f)
  BY DEF Next
<1>2. ASSUME NewNoop(f), unset' = unset \ {f} PROVE \E x \in SpanRecords : Created(f, x) /\ Refers(f, x)
  BY <1>2, NewNoopCreates, NoopRefers
<1>3. ASSUME NEW kind, NewRealSpan(f, kind), unset' = unset \ {f}
      PROVE  \E x \in SpanRecords : Created(f, x) /\ Refers(f, x)
  BY <1>3, NewRealCreates, RealRefers
<1>4. ASSUME InheritEntrySpan(f) \/ InheritExitSpan(f), unset' = unset \ {f}
      PROVE  \E call \in calls : Inherited(f, call) /\ ~InPoll(f)
  BY <1>4, InheritsCall DEF InheritEntrySpan, InheritExitSpan, MayInherit, MayCall
<1>5. ASSUME Stop(f) \/ Abandon(f) PROVE \E g \in Flows : \E n \in DOMAIN within[g] : Ended(f, g, n)
  BY <1>5, EndCases
<1> QED
  BY <1>1, <1>2, <1>3, <1>4, <1>5 DEF Create, NewLocalSpan, NewEntrySpan, NewExitSpan

LEMMA StartRefers ==
  ASSUME Types, Ranged, NEW f \in Flows, Start(f)
  PROVE  LET s == pending[f].span
             c == spans[s].ctx
             R == IF Continues(f, spans[s]) THEN {captured[f]} ELSE {}
         IN  /\ s \in DOMAIN spans /\ c \in DOMAIN ctxs /\ pending[f] # NoSpan
             /\ Grows /\ DOMAIN spans' = DOMAIN spans /\ DOMAIN ctxs' = DOMAIN ctxs
             /\ spans'[s].refs = spans[s].refs \cup R /\ Follows(ctxs[c], ctxs'[c], R)
             /\ spans'[s].comp = pending[f].call.comp
             /\ ~Continues(f, spans[s]) => ctxs'[c].traces = ctxs[c].traces
             /\ \A t \in DOMAIN spans \ {s} : spans'[t] = spans[t]
             /\ \A d \in DOMAIN ctxs \ {c} : ctxs'[d] = ctxs[d]
<1> DEFINE s     == pending[f].span
           c     == spans[s].ctx
           joins == Continues(f, spans[s])
           R     == IF joins THEN {captured[f]} ELSE {}
           first == spans[s].depth = 0
           count == IF first THEN [ctxs[c] EXCEPT !.nspans = @ + 1] ELSE ctxs[c]
           y     == IF joins THEN Relate(count, captured[f].trace) ELSE count
<1>1. /\ s \in DOMAIN spans /\ pending[f] # NoSpan
      /\ \E x \in SpanRecords, z \in CtxRecords : Touches(s, x, z)
  BY StartDoes
<1>2. spans[s] \in SpanRecords /\ c \in DOMAIN ctxs /\ ctxs[c] \in CtxRecords
  BY <1>1, Records DEF Ranged
<1>3. /\ DOMAIN spans' = DOMAIN spans /\ DOMAIN ctxs' = DOMAIN ctxs
      /\ \A t \in DOMAIN spans : /\ t # s => spans'[t] = spans[t]
                                 /\ spans'[t].ctx = spans[t].ctx /\ spans'[t].call = spans[t].call
                                 /\ spans'[t].sid = spans[t].sid
      /\ \A d \in DOMAIN ctxs : d # c => ctxs'[d] = ctxs[d]
  BY <1>1, TouchedAre
<1>4. Grows
  BY <1>3 DEF Grows
<1>5. /\ spans' = [spans EXCEPT ![s].depth = @ + 1, ![s].comp = pending[f].call.comp,
                                ![s].refs = IF joins THEN @ \cup {captured[f]} ELSE @]
      /\ ctxs' = [ctxs EXCEPT ![c] = y]
  BY Zenon DEF Start
<1>6. spans'[s].refs = spans[s].refs \cup R /\ spans'[s].comp = pending[f].call.comp
  <2> DEFINE v == spans[s]
             refs == IF joins THEN v.refs \cup {captured[f]} ELSE v.refs
  <2>1. spans'[s] = [v EXCEPT !.depth = v.depth + 1, !.comp = pending[f].call.comp, !.refs = refs]
    <3> HIDE DEF joins, s
    <3> QED
      BY <1>1, <1>5, Records, Zenon
  <2> HIDE DEF v, joins
  <2>2. v \in SpanRecords
    BY <1>2 DEF v
  <2>3. spans'[s].refs = refs /\ spans'[s].comp = pending[f].call.comp
    BY ONLY <2>1, <2>2 DEF SpanRecords
  <2> QED
    BY <2>3 DEF v
<1>7. count \in CtxRecords /\ count.traces = ctxs[c].traces /\ count.ownTrace = ctxs[c].ownTrace
  <2> DEFINE w == ctxs[c]
  <2>1. count = IF first THEN [w EXCEPT !.nspans = w.nspans + 1] ELSE w
    OBVIOUS
  <2>2. w \in CtxRecords
    BY <1>2
  <2> HIDE DEF w, count, first
  <2>3. count \in CtxRecords /\ count.traces = w.traces /\ count.ownTrace = w.ownTrace
    BY ONLY <2>1, <2>2 DEF CtxRecords
  <2> QED
    BY <2>3 DEF w
<1>8. Follows(ctxs[c], y, R)
  <2>1. captured[f].trace \in Int
    BY DEF Types, FlowType, Refs
  <2> HIDE DEF count, c, joins
  <2>2. CASE joins
    BY <1>7, <2>1, <2>2, RelateLists DEF Follows
  <2>3. CASE ~joins
    BY <1>7, <2>3 DEF Follows
  <2> QED
    BY <2>2, <2>3
<1>9. ctxs'[c] = y
  <2> HIDE DEF y, c
  <2> QED
    BY <1>2, <1>5 DEF Types
<1>10. ~joins => y.traces = ctxs[c].traces
  <2> HIDE DEF count, c, joins
  <2> QED
    BY <1>7
<1> HIDE DEF y
<1> QED
  BY <1>1, <1>2, <1>3, <1>4, <1>6, <1>8, <1>9, <1>10

LEMMA ExtractRefers ==
  ASSUME Types, Ranged, NEW f \in Flows, Extract(f)
  PROVE  LET s == Last(within[f])
             c == spans[s].ctx
         IN  /\ within[f] # <<>> /\ s = within[f][Len(within[f])] /\ s \in DOMAIN spans /\ c \in DOMAIN ctxs
             /\ Grows /\ DOMAIN spans' = DOMAIN spans /\ DOMAIN ctxs' = DOMAIN ctxs
             /\ \A t \in DOMAIN spans \ {s} : spans'[t] = spans[t]
             /\ \A d \in DOMAIN ctxs \ {c} : ctxs'[d] = ctxs[d]
             /\ ~ctxs'[c].ownTrace
             /\ \E R \in SUBSET wire :
                  /\ spans'[s].comp = spans[s].comp
                  /\ spans'[s].refs = spans[s].refs \cup R /\ Follows(ctxs[c], ctxs'[c], R)
                  /\ \A r \in R : r # Remote =>
                       \E t \in 1 .. s - 1 : spans[t].ctx = r.ctx /\ spans[t].sid = r.sid
<1> DEFINE s == Last(within[f])
           c == spans[s].ctx
<1>1. /\ within[f] # <<>> /\ s = within[f][Len(within[f])] /\ s \in DOMAIN spans
      /\ \E x \in SpanRecords, z \in CtxRecords : Touches(s, x, z)
  BY ExtractDoes
<1>2. spans[s] \in SpanRecords /\ c \in DOMAIN ctxs /\ ctxs[c] \in CtxRecords
  BY <1>1, Records DEF Ranged
<1>3. /\ DOMAIN spans' = DOMAIN spans /\ DOMAIN ctxs' = DOMAIN ctxs
      /\ \A t \in DOMAIN spans : /\ t # s => spans'[t] = spans[t]
                                 /\ spans'[t].ctx = spans[t].ctx /\ spans'[t].call = spans[t].call
                                 /\ spans'[t].sid = spans[t].sid
      /\ \A d \in DOMAIN ctxs : d # c => ctxs'[d] = ctxs[d]
  BY <1>1, TouchedAre
<1>4. Grows
  BY <1>3 DEF Grows
<1>5. ASSUME NEW trace \in Int, ctxs' = [ctxs EXCEPT ![c] = Relate(@, trace)]
      PROVE  ctxs'[c] = Relate(ctxs[c], trace)
  <2> HIDE DEF c
  <2> QED
    BY <1>2, <1>5 DEF Types
<1> DEFINE Added(R) ==
             /\ spans'[s].comp = spans[s].comp
             /\ spans'[s].refs = spans[s].refs \cup R /\ Follows(ctxs[c], ctxs'[c], R)
             /\ \A r \in R : r # Remote =>
                  \E t \in 1 .. s - 1 : spans[t].ctx = r.ctx /\ spans[t].sid = r.sid
<1>6. ASSUME NEW r \in wire, r # Remote => \E t \in 1 .. s - 1 : spans[t].ctx = r.ctx /\ spans[t].sid = r.sid,
             spans' = [spans EXCEPT ![s].refs = @ \cup {r}],
             ctxs' = [ctxs EXCEPT ![c] = Relate(@, r.trace)]
      PROVE  ~ctxs'[c].ownTrace /\ \E R \in SUBSET wire : Added(R)
  <2>1. r.trace \in Int
    BY DEF Types, Refs
  <2>2. ctxs'[c] = Relate(ctxs[c], r.trace)
    BY <1>5, <1>6, <2>1
  <2> DEFINE v == spans[s]
  <2>3. spans'[s] = [v EXCEPT !.refs = v.refs \cup {r}]
    <3> HIDE DEF s
    <3> QED
      BY <1>1, <1>6, Records, Zenon
  <2>4. spans'[s].refs = spans[s].refs \cup {r} /\ spans'[s].comp = spans[s].comp
    <3> HIDE DEF v
    <3>1. v \in SpanRecords
      BY <1>2 DEF v
    <3>2. spans'[s].refs = v.refs \cup {r} /\ spans'[s].comp = v.comp
      BY ONLY <2>3, <3>1 DEF SpanRecords
    <3> QED
      BY <3>2 DEF v
  <2> HIDE DEF s, c, v
  <2>5. ~ctxs'[c].ownTrace /\ Follows(ctxs[c], ctxs'[c], {r})
    BY <1>2, <2>1, <2>2, RelateLists DEF Follows
  <2>6. Added({r})
    BY <1>6, <2>4, <2>5
  <2> QED
    BY <2>5, <2>6
<1>7. ASSUME UNCHANGED spans, ctxs' = [ctxs EXCEPT ![c] = Relate(@, OtherTrace)]
      PROVE  ~ctxs'[c].ownTrace /\ \E R \in SUBSET wire : Added(R)
  <2>1. OtherTrace \in Int
    BY DEF OtherTrace
  <2>2. ctxs'[c] = Relate(ctxs[c], OtherTrace)
    BY <1>5, <1>7, <2>1
  <2> HIDE DEF s, c
  <2>3. ~ctxs'[c].ownTrace /\ Follows(ctxs[c], ctxs'[c], {})
    BY <1>2, <2>1, <2>2, RelateLists DEF Follows
  <2>4. Added({})
    BY <1>7, <2>3
  <2> QED
    BY <2>3, <2>4
<1>8. ~ctxs'[c].ownTrace /\ \E R \in SUBSET wire : Added(R)
  BY <1>6, <1>7, Zenon DEF Extract
<1> QED
  BY <1>1, <1>2, <1>3, <1>4, <1>8

\* Spans, and what they refer to and can be found by, stay.
SameRefs ==
  /\ DOMAIN spans' = DOMAIN spans /\ DOMAIN ctxs' = DOMAIN ctxs
  /\ \A t \in DOMAIN spans : /\ spans'[t].ctx = spans[t].ctx /\ spans'[t].sid = spans[t].sid
                             /\ spans'[t].call = spans[t].call /\ spans'[t].refs = spans[t].refs
                             /\ spans'[t].comp = spans[t].comp
  /\ \A c \in DOMAIN ctxs : ctxs'[c].traces = ctxs[c].traces /\ ctxs'[c].ownTrace = ctxs[c].ownTrace

LEMMA EndedRefers ==
  ASSUME Types, Ranged, NEW f \in Flows, NEW g \in Flows, NEW n \in DOMAIN within[g], Ended(f, g, n)
  PROVE  SameRefs
<1>1. PICK s, c, last : s = within[g][n] /\ c = spans[s].ctx /\ last = (spans[s].depth = 1 /\ f \notin unset)
  OBVIOUS
<1>2. s \in DOMAIN spans /\ \E x \in SpanRecords, z \in CtxRecords : Closes(s, x, z, last)
  BY <1>1, EndTouches
<1>3. PICK x \in SpanRecords, z \in CtxRecords : Closes(s, x, z, last)
  BY <1>2
<1>4. Touches(s, x, z) /\ z.traces = ctxs[c].traces /\ x.comp = spans[s].comp /\ x.refs = spans[s].refs
  BY <1>1, <1>3 DEF Closes
<1>5. c \in DOMAIN ctxs /\ ctxs[c] \in CtxRecords
  BY <1>1, <1>2, Records DEF Ranged
<1>6. /\ DOMAIN spans' = DOMAIN spans /\ DOMAIN ctxs' = DOMAIN ctxs /\ spans'[s] = x /\ ctxs'[c] = z
      /\ \A t \in DOMAIN spans : /\ t # s => spans'[t] = spans[t]
                                 /\ spans'[t].ctx = spans[t].ctx /\ spans'[t].call = spans[t].call
                                 /\ spans'[t].sid = spans[t].sid
      /\ \A d \in DOMAIN ctxs : d # c => ctxs'[d] = ctxs[d]
  BY <1>1, <1>2, <1>4, TouchedAre
<1>7. \/ ctxs' = [ctxs EXCEPT ![c].nspans = @ - 1, ![c].segment = IF ctxs[c].noop THEN @ ELSE Append(@, s)]
      \/ ctxs' = ctxs
  BY <1>1, Zenon DEF Ended, EndSpan
<1>8. ctxs'[c].ownTrace = ctxs[c].ownTrace
  <2> DEFINE w == ctxs[c]
             seg == IF w.noop THEN w.segment ELSE Append(w.segment, s)
  <2>1. CASE ctxs' = [ctxs EXCEPT ![c].nspans = @ - 1, ![c].segment = IF ctxs[c].noop THEN @ ELSE Append(@, s)]
    <3>1. ctxs'[c] = [w EXCEPT !.nspans = w.nspans - 1, !.segment = seg]
      BY <1>5, <2>1, Records, Zenon
    <3> HIDE DEF w, seg
    <3>2. w \in CtxRecords
      BY <1>5 DEF w
    <3>3. ctxs'[c].ownTrace = w.ownTrace
      BY ONLY <3>1, <3>2 DEF CtxRecords
    <3> QED
      BY <3>3 DEF w
  <2>2. CASE ctxs' = ctxs
    BY <2>2
  <2> QED
    BY <1>7, <2>1, <2>2
<1> QED
  BY <1>4, <1>6, <1>8 DEF SameRefs

LEMMA SameRefsKeep ==
  ASSUME Ranged, Owned, Listed, Unserved, SameRefs
  PROVE  /\ Owned' /\ Listed' /\ Unserved' /\ \A c : SpansOf(c)' = SpansOf(c)
         /\ \A r : Sound(r) => Sound(r)'
<1>1. \A c : SpansOf(c)' = SpansOf(c)
  BY DEF SameRefs, SpansOf
<1>2. Grows /\ \A c \in DOMAIN ctxs : ToSet(ctxs[c].traces) \subseteq ToSet(ctxs'[c].traces) /\ ListsOn(c)
  BY DEF Grows, SameRefs, ListsOn
<1>3. Owned'
  <2> SUFFICES ASSUME NEW c \in DOMAIN ctxs', ctxs'[c].ownTrace
               PROVE  ctxs'[c].traces = <<c>> /\ \A s \in SpansOf(c)' : spans'[s].refs = {}
    BY DEF Owned
  <2>1. c \in DOMAIN ctxs /\ ctxs[c].ownTrace /\ ctxs'[c].traces = ctxs[c].traces
    BY DEF SameRefs
  <2>2. \A s \in SpansOf(c) : s \in DOMAIN spans
    BY DEF SpansOf
  <2> QED
    BY <1>1, <2>1, <2>2 DEF Owned, SameRefs
<1>4. Listed'
  <2> SUFFICES ASSUME NEW s \in DOMAIN spans', NEW r \in spans'[s].refs
               PROVE  /\ r.trace \in ToSet(ctxs'[spans'[s].ctx].traces)
                      /\ r # Remote => \E t \in SpansOf(r.ctx)' : t < s /\ spans'[t].sid = r.sid
    BY DEF Listed
  <2>1. s \in DOMAIN spans /\ r \in spans[s].refs /\ spans'[s].ctx = spans[s].ctx
    BY DEF SameRefs
  <2>2. ListsOn(spans[s].ctx)
    BY <1>2, <2>1 DEF Ranged
  <2> QED
    BY <1>2, <2>1, <2>2, ListedKept
<1>5. ASSUME NEW r, Sound(r) PROVE Sound(r)'
  <2>1. r.ctx \in DOMAIN ctxs
    BY <1>5, SpanThere DEF Sound
  <2> QED
    BY <1>2, <1>5, <2>1, SoundKept
<1>6. Unserved'
  BY DEF Unserved, Polled, SameRefs
<1> QED
  BY <1>1, <1>3, <1>4, <1>5, <1>6

-----------------------------------------------------------------------------
(* Each kind of step leaves what is referred to in its place.              *)

LEMMA RefToSound ==
  ASSUME Types, Ranged, NEW s \in DOMAIN spans
  PROVE  /\ Sound(RefTo(spans[s])) /\ RefTo(spans[s]).ctx = spans[s].ctx
         /\ RefTo(spans[s]).sid = spans[s].sid
<1> DEFINE c == spans[s].ctx
           q == ctxs[c].traces
<1>1. /\ RefTo(spans[s]).ctx = c /\ RefTo(spans[s]).sid = spans[s].sid /\ RefTo(spans[s]).trace = Head(q)
  BY DEF RefTo
<1>2. q \in Seq(Int) /\ q # <<>>
  BY Records DEF Ranged, CtxRecords, Traces
<1>3. 1 \in DOMAIN q /\ Head(q) = q[1]
  <2> HIDE DEF q
  <2> QED
    BY <1>2
<1>4. Head(q) \in ToSet(q)
  BY <1>3 DEF ToSet
<1>5. s \in SpansOf(c)
  BY DEF SpansOf
<1> HIDE DEF c, q
<1>6. \E t \in SpansOf(c) : spans[t].sid = spans[s].sid
  BY <1>5
<1> QED
  BY <1>1, <1>4, <1>6 DEF Sound, c, q

LEMMA PolledServes ==
  ASSUME Types, NEW s \in DOMAIN spans, Ranged, Polled(s)
  PROVE  spans[s].call.kind = "entry" /\ spans[s].call.comp # "General"
<1>1. spans[s].call \in Calls \cup {Nothing}
  BY DEF Ranged, Types
<1> QED
  BY <1>1 DEF Polled, Nothing, Local, Calls

LEMMA PollElsewhere ==
  ASSUME Types, Ranged, Polls, NEW f \in Flows, ~InPoll(f), NEW n \in DOMAIN within[f]
  PROVE  ~Polled(within[f][n])
<1>1. within[f] \in Seq(Nat) /\ within[f] # <<>> /\ Last(within[f]) = within[f][Len(within[f])]
  BY DEF Types, FlowType, Last
<1>2. within[f][n] \in DOMAIN spans
  BY DEF Ranged
<1> QED
  BY <1>1, <1>2 DEF Polls, InPoll, Polled

\* A segment with a span has numbered it.
LEMMA Numbered ==
  ASSUME Types, Ranged, Tree, NEW s \in DOMAIN spans, spans[s].call # Nothing
  PROVE  /\ spans[s].ctx \in DOMAIN ctxs /\ ctxs[spans[s].ctx].next \in Nat \ {0}
         /\ spans[s].sid \in Nat
<1> DEFINE c == spans[s].ctx
           n == ctxs[c].next
<1>1. c \in Segments /\ s \in SpansOf(c) /\ n \in Nat /\ c \in DOMAIN ctxs
  BY Records DEF Ranged, Segments, SpansOf, CtxRecords
<1>2. spans[s].sid \in 0 .. n - 1
  BY <1>1 DEF Tree, TreeOf
<1> QED
  BY <1>1, <1>2

LEMMA CreatedGrows ==
  ASSUME Types, Ranged, NEW f \in Flows, NEW x \in SpanRecords, Created(f, x)
  PROVE  LET new == Len(spans) + 1
         IN  /\ Grows /\ DOMAIN spans' = DOMAIN spans \cup {new} /\ new \notin DOMAIN spans /\ Len(spans') = new
             /\ spans'[new] = x /\ \A t \in DOMAIN spans : spans'[t] = spans[t] /\ t < new
             /\ DOMAIN ctxs' = DOMAIN ctxs \cup {x.ctx}
             /\ \A d \in DOMAIN ctxs : d # x.ctx => ctxs'[d] = ctxs[d]
             /\ \A d : d # x.ctx => SpansOf(d)' = SpansOf(d)
             /\ SpansOf(x.ctx)' = SpansOf(x.ctx) \cup {new}
             /\ x.ctx \notin DOMAIN ctxs => SpansOf(x.ctx) = {}
<1> DEFINE new == Len(spans) + 1
<1>1. /\ DOMAIN spans' = DOMAIN spans \cup {new} /\ new \notin DOMAIN spans /\ Len(spans') = new
      /\ spans'[new] = x /\ \A t \in DOMAIN spans : spans'[t] = spans[t] /\ t < new
      /\ DOMAIN ctxs' = DOMAIN ctxs \cup {x.ctx}
  BY CreatedAre
<1>2. \A d \in DOMAIN ctxs : d # x.ctx => ctxs'[d] = ctxs[d]
  BY DEF Created
<1> HIDE DEF new
<1>3. Grows
  BY <1>1 DEF Grows
<1>4. \A d : d # x.ctx => SpansOf(d)' = SpansOf(d)
  BY <1>1 DEF SpansOf
<1>5. SpansOf(x.ctx)' = SpansOf(x.ctx) \cup {new}
  BY <1>1 DEF SpansOf
<1>6. x.ctx \notin DOMAIN ctxs => SpansOf(x.ctx) = {}
  BY DEF SpansOf, Ranged
<1> QED
  BY <1>1, <1>2, <1>3, <1>4, <1>5, <1>6 DEF new

LEMMA CreatedParent ==
  ASSUME Types, Ranged, Tree, NEW f \in Flows, NEW x \in SpanRecords, Created(f, x), Refers(f, x)
  PROVE  /\ Finished(f) => Sound(RefTo(Parent(f))) /\ RefTo(Parent(f)).ctx = Parent(f).ctx
         /\ x.call # Nothing /\ x.ctx \in DOMAIN ctxs =>
              /\ ~NoTop(f) /\ Parent(f).ctx = x.ctx /\ x.sid \in Nat /\ x.sid > 0
<1>1. Finished(f) => ~NoTop(f)
  BY DEF Finished
<1>2. ~NoTop(f) => Last(stack[f]) \in DOMAIN spans /\ Parent(f) = spans[Last(stack[f])]
  BY TopIsSpan
<1>3. Finished(f) => Sound(RefTo(Parent(f))) /\ RefTo(Parent(f)).ctx = Parent(f).ctx
  BY <1>1, <1>2, RefToSound
<1>4. ASSUME x.call # Nothing, x.ctx \in DOMAIN ctxs
      PROVE  ~NoTop(f) /\ Parent(f).ctx = x.ctx /\ x.sid \in Nat /\ x.sid > 0
  <2>1. ~NoTop(f) /\ Parent(f).ctx = x.ctx /\ x.sid = ctxs[x.ctx].next /\ ~InNoop(f)
    BY <1>4 DEF Created
  <2>2. Parent(f).call # Nothing
    BY <2>1 DEF InNoop
  <2>3. ctxs[x.ctx].next \in Nat \ {0}
    BY <1>2, <2>1, <2>2, Numbered
  <2> QED
    BY <2>1, <2>3
<1> QED
  BY <1>3, <1>4

LEMMA CreatedSound ==
  ASSUME Types, Ranged, Tree, Owned, NEW f \in Flows, NEW x \in SpanRecords, Created(f, x), Refers(f, x),
         NEW r, Sound(r)
  PROVE  Sound(r)'
<1> DEFINE d == r.ctx
<1>1. d \in DOMAIN ctxs
  BY SpanThere DEF Sound
<1>2. Grows /\ (d # x.ctx => ctxs'[d] = ctxs[d])
  BY <1>1, CreatedGrows
<1>3. CASE d # x.ctx
  <2>1. ListsOn(d) /\ ToSet(ctxs[d].traces) \subseteq ToSet(ctxs'[d].traces)
    BY <1>2, <1>3 DEF ListsOn
  <2> QED
    BY <1>2, <2>1, SoundKept
<1>4. CASE d = x.ctx
  <2>1. ListsOn(d)
    BY <1>1, <1>4 DEF Refers, Follows, ListsOn
  <2>2. CASE ctxs'[d].traces = ctxs[d].traces
    BY <1>2, <2>1, <2>2, SoundKept
  <2>3. CASE x.call.kind = "entry"
    <3>1. x.call # Nothing
      BY <2>3, CallFacts
    <3>2. x.sid \in Nat /\ x.sid > 0
      BY <1>1, <1>4, <3>1, CreatedParent
    <3>3. Len(spans) + 1 \in SpansOf(d)' /\ spans'[Len(spans) + 1] = x
      BY <1>4, CreatedGrows
    <3>4. NestedEntry(d)'
      BY <2>3, <3>2, <3>3 DEF NestedEntry
    <3> QED
      BY <1>2, <2>1, <3>4, SoundKept
  <2> QED
    BY <1>1, <1>4, <2>2, <2>3 DEF Refers
<1> QED
  BY <1>3, <1>4

LEMMA CreatedReferred ==
  ASSUME Types, Ranged, NEW f \in Flows, NEW x \in SpanRecords, Created(f, x), Refers(f, x)
  PROVE  \A r \in Referred' : r \in Referred \/ (x.refs # {} /\ Finished(f) /\ r = RefTo(Parent(f)))
<1>1. /\ DOMAIN spans' = DOMAIN spans \cup {Len(spans) + 1} /\ spans'[Len(spans) + 1] = x
      /\ \A t \in DOMAIN spans : spans'[t] = spans[t]
  BY CreatedGrows
<1>2. wire' = wire /\ captured' = captured
  BY DEF Created
<1>3. \A r \in x.refs : r \in wire \/ (Finished(f) /\ r = RefTo(Parent(f)))
  BY DEF Refers
<1> QED
  BY <1>1, <1>2, <1>3, Zenon DEF Referred

LEMMA CreatedJoins ==
  ASSUME Types, Ranged, Tree, Sounds, Owned, Listed, Unserved,
         NEW f \in Flows, NEW x \in SpanRecords, Created(f, x), Refers(f, x)
  PROVE  Sounds' /\ Owned' /\ Listed' /\ Unserved'
<1> DEFINE new == Len(spans) + 1
           c   == x.ctx
           p   == RefTo(Parent(f))
<1>1. /\ Grows /\ DOMAIN spans' = DOMAIN spans \cup {new} /\ new \notin DOMAIN spans
      /\ spans'[new] = x /\ \A t \in DOMAIN spans : spans'[t] = spans[t] /\ t < new
      /\ DOMAIN ctxs' = DOMAIN ctxs \cup {c}
      /\ \A d \in DOMAIN ctxs : d # c => ctxs'[d] = ctxs[d]
      /\ \A d : d # c => SpansOf(d)' = SpansOf(d)
      /\ SpansOf(c)' = SpansOf(c) \cup {new}
      /\ c \notin DOMAIN ctxs => SpansOf(c) = {}
  BY CreatedGrows
<1>2. Finished(f) => Sound(p)
  BY CreatedParent
<1>3. \A r : Sound(r) => Sound(r)'
  BY CreatedSound
<1>4. Sounds'
  <2> SUFFICES ASSUME NEW r \in Referred', r # Remote PROVE Sound(r)'
    BY DEF Sounds, Remote, NoSnapshot
  <2>1. Sound(r)
    BY <1>2, CreatedReferred DEF Sounds
  <2> QED
    BY <1>3, <2>1
<1>5. Owned'
  <2> SUFFICES ASSUME NEW d \in DOMAIN ctxs', ctxs'[d].ownTrace
               PROVE  ctxs'[d].traces = <<d>> /\ \A s \in SpansOf(d)' : spans'[s].refs = {}
    BY DEF Owned
  <2>1. \A s \in SpansOf(d) : s \in DOMAIN spans
    BY DEF SpansOf
  <2>2. CASE d # c
    BY <1>1, <2>1, <2>2 DEF Owned
  <2>3. CASE d = c /\ c \in DOMAIN ctxs
    BY <1>1, <2>1, <2>3 DEF Owned, Refers, Follows
  <2>4. CASE d = c /\ c \notin DOMAIN ctxs
    BY <1>1, <2>4 DEF Refers, Follows, NewContext
  <2> QED
    BY <2>2, <2>3, <2>4
<1>6. Listed'
  <2> SUFFICES ASSUME NEW s \in DOMAIN spans', NEW r \in spans'[s].refs
               PROVE  /\ r.trace \in ToSet(ctxs'[spans'[s].ctx].traces)
                      /\ r # Remote => \E t \in SpansOf(r.ctx)' : t < s /\ spans'[t].sid = r.sid
    BY DEF Listed, Remote, NoSnapshot
  <2>1. CASE s \in DOMAIN spans
    <3>1. spans[s].ctx \in DOMAIN ctxs /\ spans'[s] = spans[s]
      BY <1>1, <2>1 DEF Ranged
    <3>2. ListsOn(spans[s].ctx)
      BY <1>1, <3>1 DEF ListsOn, Refers, Follows
    <3> QED
      BY <1>1, <2>1, <3>1, <3>2, ListedKept
  <2>2. CASE s = new
    <3>1. r \in x.refs /\ spans'[s] = x
      BY <1>1, <2>2
    <3>2. r.trace \in ToSet(ctxs'[c].traces)
      BY <3>1 DEF Refers, Follows
    <3>3. ASSUME r # Remote PROVE \E t \in SpansOf(r.ctx)' : t < s /\ spans'[t].sid = r.sid
      <4>1. Sound(r)
        BY <1>2, <3>1, <3>3 DEF Refers, Sounds, Referred
      <4>2. PICK t \in SpansOf(r.ctx) : spans[t].sid = r.sid
        BY <4>1 DEF Sound
      <4>3. t \in DOMAIN spans /\ t \in SpansOf(r.ctx)' /\ spans'[t].sid = r.sid
        BY <1>1, <4>2 DEF SpansOf, Grows
      <4> QED
        BY <1>1, <2>2, <4>3
    <3> QED
      BY <3>1, <3>2, <3>3
  <2> QED
    BY <1>1, <2>1, <2>2
<1>7. Unserved'
  <2>1. x.comp = "Unset"
    BY DEF Refers
  <2> QED
    BY <1>1, <2>1 DEF Unserved, Polled
<1> QED
  BY <1>4, <1>5, <1>6, <1>7

\* No reference names a segment that is not there yet.
LEMMA ReferredRange ==
  ASSUME Types, Ranged, Sounds, NEW r \in Referred
  PROVE  r.ctx \in DOMAIN ctxs \/ r = Remote
  BY SpanThere DEF Sounds, Sound

\* While flow f is at liberty no flow has a span to start.
LEMMA NonePending ==
  ASSUME NEW f \in Flows, AtLiberty(f), NEW g \in Flows
  PROVE  pending[g] = NoSpan /\ pending[g].span = 0
  BY NameFacts DEF AtLiberty, Turn

LEMMA CreatedFresh ==
  ASSUME Types, Ranged, Tree, Sounds, NEW f \in Flows, NEW x \in SpanRecords, Created(f, x), Refers(f, x)
  PROVE  Fresh'
<1>1. PICK new \in Nat : new = Len(spans) + 1
  BY Records
<1>2. PICK c \in Nat : c = x.ctx
  BY DEF SpanRecords
<1>3. /\ DOMAIN spans' = DOMAIN spans \cup {new} /\ new \notin DOMAIN spans /\ Len(spans') = new
      /\ spans'[new] = x /\ SpansOf(c)' = SpansOf(c) \cup {new}
      /\ c \notin DOMAIN ctxs => SpansOf(c) = {}
  BY <1>1, <1>2, CreatedGrows
<1>4. /\ pending'[f] = [span |-> new, call |-> x.call]
      /\ \A g \in Flows \ {f} : pending'[g] = NoSpan
  <2>1. pending' = [pending EXCEPT ![f] = [span |-> new, call |-> x.call]] /\ AtLiberty(f)
    BY <1>1 DEF Created
  <2>2. \A g \in Flows : pending[g] = NoSpan
    BY <2>1, NonePending
  <2> QED
    BY <2>1, <2>2 DEF Types, FlowType
<1>5. ASSUME x.sid = 0 PROVE Private(f, new)'
  <2>1. c \notin DOMAIN ctxs
    <3>1. x.call # Nothing
      BY <1>5 DEF Refers
    <3> QED
      BY <1>2, <1>5, <3>1, CreatedParent
  <2>2. SpansOf(c)' = {new}
    BY <1>3, <2>1
  <2>3. c # 0
    BY <1>2 DEF Created, Types
  <2>4. ASSUME NEW r \in Referred' PROVE r.ctx # c
    <3>1. CASE r \in Referred
      <4>1. r.ctx \in DOMAIN ctxs \/ r.ctx = 0
        BY <3>1, ReferredRange DEF Remote, NoSnapshot
      <4> QED
        BY <2>1, <2>3, <4>1
    <3>2. CASE Finished(f) /\ r = RefTo(Parent(f))
      <4>1. Sound(r)
        BY <3>2, CreatedParent
      <4>2. r.ctx \in DOMAIN ctxs
        BY <4>1, SpanThere DEF Sound
      <4> QED
        BY <2>1, <4>2
    <3> QED
      BY <3>1, <3>2, CreatedReferred
  <2>5. ASSUME NEW g \in Flows \ {f}
        PROVE  pending'[g].span # new /\ \A m \in DOMAIN stack'[g] : stack'[g][m] # new
    <3>1. pending'[g].span = 0
      BY <1>4, NameFacts
    <3>2. stack' = stack /\ \A m \in DOMAIN stack[g] : stack[g][m] \in DOMAIN spans
      BY DEF Created, Ranged
    <3> QED
      BY <1>1, <1>3, <3>1, <3>2, Records
  <2>6. spans'[new].ctx = c
    BY <1>2, <1>3
  <2>7. SpansOf(spans[new].ctx)' = {new}
    BY <2>2, <2>6 DEF SpansOf
  <2> QED
    BY <2>4, <2>5, <2>6, <2>7 DEF Private
<1>6. ASSUME NEW g \in Flows, NEW s \in DOMAIN spans', pending'[g] # NoSpan, s = pending'[g].span
      PROVE  g = f /\ s = new
  BY <1>4, <1>6
<1> QED
  BY <1>3, <1>4, <1>5, <1>6 DEF Created, Fresh

LEMMA CreatedPolls ==
  ASSUME Types, Ranged, Tree, Polls, NEW f \in Flows, NEW x \in SpanRecords, Created(f, x), Refers(f, x)
  PROVE  Polls'
<1>1. PICK new \in Nat : new = Len(spans) + 1
  BY Records
<1>2. PICK c \in Nat : c = x.ctx
  BY DEF SpanRecords
<1>3. /\ DOMAIN spans' = DOMAIN spans \cup {new} /\ new \notin DOMAIN spans
      /\ spans'[new] = x /\ \A t \in DOMAIN spans : spans'[t] = spans[t]
      /\ \A d : d # c => SpansOf(d)' = SpansOf(d)
  BY <1>1, <1>2, CreatedGrows
<1>4. /\ pending'[f] = [span |-> new, call |-> x.call]
      /\ \A g \in Flows \ {f} : pending'[g] = NoSpan
      /\ UNCHANGED <<stack, within>>
  <2>1. pending' = [pending EXCEPT ![f] = [span |-> new, call |-> x.call]] /\ AtLiberty(f)
        /\ UNCHANGED <<stack, within>>
    BY <1>1 DEF Created
  <2>2. \A g \in Flows : pending[g] = NoSpan
    BY <2>1, NonePending
  <2> QED
    BY <2>1, <2>2 DEF Types, FlowType
<1>5. /\ \A g \in Flows : \A n \in DOMAIN within[g] : within[g][n] \in DOMAIN spans
      /\ \A g \in Flows : within[g] # <<>> => Last(within[g]) \in DOMAIN spans
  <2>1. \A g \in Flows : \A n \in DOMAIN within[g] : within[g][n] \in DOMAIN spans
    BY DEF Ranged
  <2>2. \A g \in Flows : within[g] # <<>> => Len(within[g]) \in DOMAIN within[g]
    BY DEF Types, FlowType
  <2> QED
    BY <2>1, <2>2 DEF Last
<1>6. ASSUME NEW g \in Flows, pending'[g] # NoSpan PROVE ~InPoll(g)'
  <2>1. g = f /\ ~InPoll(f)
    BY <1>4, <1>6 DEF Refers
  <2> QED
    BY <1>3, <1>4, <1>5, <2>1 DEF InPoll
<1>7. ASSUME NEW g \in Flows, NEW n \in DOMAIN within[g], NEW q \in DOMAIN spans, q = within[g][n], Polled(q),
             Private(g, q)
      PROVE  Private(g, q)'
  <2> DEFINE d == spans[q].ctx
  <2>1. g # f
    BY <1>7, PollElsewhere DEF Refers
  <2>2. d \in DOMAIN ctxs /\ SpansOf(d) = {q} /\ spans[q].call # Nothing
    BY <1>7, CallFacts DEF Private, Ranged, Polled, Nothing, Local
  <2>3. \A m \in DOMAIN stack[f] : stack[f][m] # q
    BY <1>7, <2>1 DEF Private
  <2>4. ~NoTop(f) => Parent(f).ctx # d
    <3>1. ASSUME ~NoTop(f) PROVE Last(stack[f]) \in SpansOf(Parent(f).ctx) /\ Last(stack[f]) # q
      BY <2>3, <3>1, TopIsSpan DEF SpansOf
    <3> QED
      BY <2>2, <3>1
  <2>5. c # d
    <3>1. CASE x.call = Nothing
      BY <1>2, <2>2, <3>1 DEF Created, Ranged
    <3>2. CASE x.call # Nothing
      BY <1>2, <2>2, <2>4, <3>2, CreatedParent
    <3> QED
      BY <3>1, <3>2
  <2>6. \A r \in Referred' : r \in Referred \/ r.ctx # d
    <3>1. Finished(f) => RefTo(Parent(f)).ctx # d
      BY <2>4, CreatedParent DEF Finished
    <3> QED
      BY <3>1, CreatedReferred
  <2>7. SpansOf(d)' = SpansOf(d) /\ spans'[q].ctx = d
    BY <1>3, <2>5
  <2>8. \A h \in Flows \ {g} : pending'[h].span # q /\ \A m \in DOMAIN stack'[h] : stack'[h][m] # q
    <3>1. \A h \in Flows : pending'[h].span \in {0, new} /\ q # 0 /\ q # new
      BY <1>3, <1>4, NameFacts, Records
    <3>2. \A h \in Flows \ {g} : \A m \in DOMAIN stack[h] : stack[h][m] # q
      BY <1>7 DEF Private
    <3> QED
      BY <1>4, <3>1, <3>2
  <2> QED
    BY <1>7, <2>6, <2>7, <2>8, PrivateKept
<1>8. ASSUME NEW g \in Flows, NEW n \in DOMAIN within'[g], NEW q \in DOMAIN spans', q = within'[g][n], Polled(q)'
      PROVE  n = Len(within'[g]) /\ (spans'[q].sid = 0 => Private(g, q)')
  <2>1. n \in DOMAIN within[g] /\ within'[g] = within[g] /\ q = within[g][n] /\ q \in DOMAIN spans
    BY <1>4, <1>5, <1>8
  <2>2. Polled(q) /\ spans'[q] = spans[q]
    BY <1>3, <1>8, <2>1 DEF Polled
  <2>3. n = Len(within[g]) /\ (spans[q].sid = 0 => Private(g, q))
    BY <2>1, <2>2 DEF Polls
  <2> QED
    BY <1>7, <2>1, <2>2, <2>3
<1> QED
  BY <1>6, <1>8 DEF Polls

LEMMA CreatedSnapshots ==
  ASSUME Types, Ranged, Tree, Snapshots, NEW f \in Flows, NEW x \in SpanRecords, Created(f, x), Refers(f, x)
  PROVE  Snapshots'
<1> DEFINE new == Len(spans) + 1
<1>1. spans'[new] = x
  BY CreatedGrows
<1>2. /\ pending'[f] = [span |-> new, call |-> x.call]
      /\ \A g \in Flows \ {f} : pending'[g] = NoSpan
      /\ UNCHANGED <<stack, within, running, captured>> /\ x.depth = 0 /\ f \in running
  <2>1. pending' = [pending EXCEPT ![f] = [span |-> new, call |-> x.call]] /\ AtLiberty(f)
        /\ UNCHANGED <<stack, within, running, captured>> /\ x.depth = 0 /\ f \in running
    BY DEF Created, AtLiberty, Turn
  <2>2. \A g \in Flows : pending[g] = NoSpan
    BY <2>1, NonePending
  <2> HIDE DEF new
  <2> QED
    BY <2>1, <2>2 DEF Types, FlowType
<1>3. ASSUME captured[f] # NoSnapshot
      PROVE  x.call.carrier # "sent" /\ (x.call # Nothing => x.sid = 0)
  <2>1. x.call.carrier # "sent"
    BY <1>3 DEF Refers, Runnable, Nothing, Local
  <2>2. NoTop(f)
    BY <1>3 DEF Snapshots, NoTop
  <2>3. ASSUME x.call # Nothing PROVE x.sid = 0
    <3>1. x.ctx \notin DOMAIN ctxs
      BY <2>2, <2>3, CreatedParent
    <3> QED
      BY <2>3, <3>1 DEF Created
  <2> QED
    BY <2>1, <2>3
<1> HIDE DEF new
<1> QED
  BY <1>1, <1>2, <1>3 DEF Snapshots

LEMMA JoinCreated ==
  ASSUME Types, Ranged, Tree, Joinable, NEW f \in Flows, NEW x \in SpanRecords, Created(f, x), Refers(f, x)
  PROVE  Joinable'
  BY CreatedJoins, CreatedFresh, CreatedPolls, CreatedSnapshots DEF Joinable

-----------------------------------------------------------------------------
(* The steps that create no span.                                          *)

LEMMA JoinSame ==
  ASSUME Joinable, UNCHANGED <<spans, ctxs, stack, running, pending, within, captured, wire>>
  PROVE  Joinable'
<1>1. Referred' = Referred /\ \A c : SpansOf(c)' = SpansOf(c) /\ NestedEntry(c)' = NestedEntry(c)
  BY DEF Referred, SpansOf, NestedEntry
<1>2. \A f, s : Private(f, s)' = Private(f, s) /\ Polled(s)' = Polled(s) /\ InPoll(f)' = InPoll(f)
  BY <1>1 DEF Private, Polled, InPoll
<1>3. \A r : Sound(r)' = Sound(r)
  BY <1>1 DEF Sound
<1>4. Sounds' /\ Owned' /\ Listed' /\ Unserved'
  BY <1>1, <1>2, <1>3 DEF Joinable, Sounds, Owned, Listed, Unserved
<1>5. Fresh' /\ Polls' /\ Snapshots'
  BY <1>2 DEF Joinable, Fresh, Polls, Snapshots
<1> QED
  BY <1>4, <1>5 DEF Joinable

LEMMA QuietJoins ==
  ASSUME Ranged, Sounds, Owned, Listed, Unserved, SameRefs,
         \A r \in Referred' : r \in Referred \/ r = Remote \/ Sound(r)
  PROVE  Sounds' /\ Owned' /\ Listed' /\ Unserved'
<1>1. Owned' /\ Listed' /\ Unserved' /\ \A r : Sound(r) => Sound(r)'
  BY SameRefsKeep
<1>2. ASSUME NEW r \in Referred', r # Remote PROVE Sound(r)'
  BY <1>1, <1>2 DEF Sounds
<1>3. Sounds'
  BY <1>2 DEF Sounds, Remote, NoSnapshot
<1> QED
  BY <1>1, <1>3

LEMMA RestingFresh ==
  ASSUME \A g \in Flows : pending'[g] = NoSpan
  PROVE  Fresh'
  BY DEF Fresh, NoSpan, Nothing, Local

\* Nobody learns of the span q of g's poll.
Secret(g, q) ==
  /\ \A r \in Referred' : r \in Referred \/ r.ctx # spans[q].ctx
  /\ \A h \in Flows \ {g} : pending'[h].span # q /\ \A m \in DOMAIN stack'[h] : stack'[h][m] # q

LEMMA PollsKept ==
  ASSUME Types, Ranged, Polls, Grows, DOMAIN spans' = DOMAIN spans, within' = within,
         \A g \in Flows : pending'[g] # NoSpan => ~InPoll(g),
         \A g \in Flows, q \in DOMAIN spans : \A n \in DOMAIN within[g] :
           q = within[g][n] /\ Polled(q) /\ Private(g, q) => Secret(g, q)
  PROVE  Polls'
<1>1. \A c : SpansOf(c)' = SpansOf(c)
  BY DEF Grows, SpansOf
<1>2. ASSUME NEW g \in Flows, pending'[g] # NoSpan PROVE ~InPoll(g)'
  <2>1. ~InPoll(g) /\ (within[g] # <<>> => Last(within[g]) \in DOMAIN spans)
    <3>1. within[g] # <<>> => Len(within[g]) \in DOMAIN within[g]
      BY DEF Types, FlowType
    <3> QED
      BY <1>2, <3>1 DEF Ranged, Last
  <2> QED
    BY <2>1 DEF InPoll, Grows
<1>3. ASSUME NEW g \in Flows, NEW n \in DOMAIN within'[g], NEW q \in DOMAIN spans', q = within'[g][n], Polled(q)'
      PROVE  n = Len(within'[g]) /\ (spans'[q].sid = 0 => Private(g, q)')
  <2>1. n \in DOMAIN within[g] /\ q \in DOMAIN spans /\ q = within[g][n] /\ Polled(q)
        /\ spans'[q].sid = spans[q].sid /\ spans'[q].ctx = spans[q].ctx
    BY <1>3 DEF Grows, Polled
  <2>2. n = Len(within[g]) /\ (spans[q].sid = 0 => Private(g, q))
    BY <2>1 DEF Polls
  <2>3. ASSUME Private(g, q) PROVE Private(g, q)'
    <3>1. Secret(g, q)
      BY <2>1, <2>3
    <3> QED
      BY <1>1, <2>1, <2>3, <3>1, PrivateKept DEF Secret
  <2> QED
    BY <2>1, <2>2, <2>3
<1> QED
  BY <1>2, <1>3 DEF Polls

LEMMA JoinInherited ==
  ASSUME Types, Ranged, Joinable, NEW f \in Flows, NEW call \in calls, Inherited(f, call), ~InPoll(f)
  PROVE  Joinable'
<1>1. PICK s \in DOMAIN spans : s = Last(stack[f]) /\ Parent(f) = spans[s]
  BY TopIsSpan DEF Inherited
<1>2. /\ pending' = [pending EXCEPT ![f] = [span |-> s, call |-> call]] /\ captured[f] = NoSnapshot
      /\ UNCHANGED <<spans, ctxs, stack, running, within, captured, wire>> /\ AtLiberty(f)
  BY <1>1 DEF Inherited
<1>3. pending'[f].span = s /\ \A g \in Flows \ {f} : pending'[g] = NoSpan /\ pending'[g].span = 0
  <2>1. \A g \in Flows : pending[g] = NoSpan /\ pending[g].span = 0
    BY <1>2, NonePending
  <2> QED
    BY <1>2, <2>1 DEF Types, FlowType
<1>4. ~Polled(s)
  <2>1. spans[s].comp = "General" \/ spans[s].call.kind = "exit"
    BY <1>1 DEF Inherited
  <2> QED
    BY <2>1, PolledServes DEF Joinable, Unserved
<1>5. Referred' = Referred /\ SameRefs /\ Grows
  BY <1>2 DEF Referred, SameRefs, Grows
<1>6. Sounds' /\ Owned' /\ Listed' /\ Unserved'
  BY <1>5, QuietJoins DEF Joinable
<1>7. Fresh'
  BY <1>2, <1>3, <1>4 DEF Fresh, Polled, NoSpan
<1>8. Polls'
  <2>1. ASSUME NEW g \in Flows, NEW q \in DOMAIN spans, NEW n \in DOMAIN within[g], q = within[g][n], Polled(q),
               Private(g, q)
        PROVE  Secret(g, q)
    <3>1. q # s /\ q # 0
      BY <1>4, <2>1, Records
    <3>2. \A h \in Flows \ {g} : \A m \in DOMAIN stack[h] : stack[h][m] # q
      BY <2>1 DEF Private
    <3> QED
      BY <1>2, <1>3, <1>5, <3>1, <3>2 DEF Secret
  <2>2. \A g \in Flows : pending'[g] # NoSpan => ~InPoll(g)
    BY <1>3
  <2> QED
    BY <1>2, <1>5, <2>1, <2>2, PollsKept DEF Joinable
<1>9. Snapshots'
  <2>1. captured[f] = NoSnapshot /\ f \in running
    BY <1>2 DEF Joinable, Snapshots, AtLiberty, Turn
  <2> QED
    BY <1>2, <1>3, <2>1 DEF Joinable, Snapshots
<1> QED
  BY <1>6, <1>7, <1>8, <1>9 DEF Joinable

LEMMA JoinSpawn ==
  ASSUME Types, Ranged, Joinable, NEW f \in Flows, Spawn(f)
  PROVE  Joinable'
<1>1. PICK g \in Flows \ running :
        running' = running \cup {g} /\ stack' = [stack EXCEPT ![g] = stack[f]]
  BY DEF Spawn
<1>2. /\ UNCHANGED <<spans, ctxs, pending, within, captured, wire>>
      /\ AtLiberty(f) /\ ~InPoll(f) /\ f \in running
  BY DEF Spawn, MayCall, AtLiberty, Turn
<1>3. stack'[g] = stack[f] /\ \A h \in Flows \ {g} : stack'[h] = stack[h]
  BY <1>1 DEF Types, FlowType
<1>4. \A h \in Flows : pending[h] = NoSpan
  BY <1>2, NonePending
<1>5. Referred' = Referred /\ SameRefs /\ Grows
  BY <1>2 DEF Referred, SameRefs, Grows
<1>6. Sounds' /\ Owned' /\ Listed' /\ Unserved'
  BY <1>5, QuietJoins DEF Joinable
<1>7. Fresh'
  BY <1>2, <1>4, RestingFresh
<1>8. Polls'
  <2>1. ASSUME NEW h \in Flows, NEW q \in DOMAIN spans, NEW n \in DOMAIN within[h], q = within[h][n], Polled(q),
               Private(h, q)
        PROVE  Secret(h, q)
    <3>1. h # f
      BY <1>2, <2>1, PollElsewhere DEF Joinable
    <3>2. h # g
      BY <1>1, <2>1 DEF Joinable, Snapshots
    <3>3. \A i \in Flows \ {h} : pending[i].span # q /\ \A m \in DOMAIN stack[i] : stack[i][m] # q
      BY <2>1 DEF Private
    <3>4. \A i \in Flows \ {h} : \A m \in DOMAIN stack'[i] : stack'[i][m] # q
      BY <1>3, <3>1, <3>3
    <3> QED
      BY <1>2, <1>5, <3>3, <3>4 DEF Secret
  <2> QED
    BY <1>2, <1>4, <1>5, <2>1, PollsKept DEF Joinable
<1>9. Snapshots'
  <2>1. captured[g] = NoSnapshot
    BY <1>1 DEF Joinable, Snapshots
  <2> QED
    BY <1>1, <1>2, <1>3, <2>1 DEF Joinable, Snapshots
<1> QED
  BY <1>6, <1>7, <1>8, <1>9 DEF Joinable

LEMMA JoinRunThread ==
  ASSUME Types, Ranged, Joinable, NEW f \in Flows, RunThread(f)
  PROVE  Joinable'
<1>1. PICK g \in Flows \ running :
        /\ running' = running \cup {g}
        /\ \/ captured' = [captured EXCEPT ![g] = IF NoTop(f) \/ InNoop(f) THEN NoSnapshot ELSE RefTo(Parent(f))]
           \/ captured' = captured
  BY Zenon DEF RunThread
<1>2. PICK p : p = captured'[g]
  OBVIOUS
<1>3. /\ UNCHANGED <<spans, ctxs, stack, pending, within, wire>>
      /\ AtLiberty(f) /\ ~InPoll(f) /\ f \in running
  BY DEF RunThread, MayCall, AtLiberty, Turn
<1>4. captured'[g] = p /\ \A h \in Flows \ {g} : captured'[h] = captured[h]
  BY <1>1, <1>2 DEF Types, FlowType
<1>5. \A h \in Flows : pending[h] = NoSpan
  BY <1>3, NonePending
<1>6. p # Remote => /\ ~NoTop(f) /\ Sound(p) /\ p.ctx = Parent(f).ctx
                    /\ Last(stack[f]) \in SpansOf(p.ctx)
  <2>1. p # Remote => ~NoTop(f) /\ p = RefTo(Parent(f))
    <3>1. captured[g] = Remote
      BY <1>1 DEF Joinable, Snapshots, Remote
    <3> QED
      BY <1>1, <1>2, <3>1 DEF Remote, Types, FlowType
  <2>2. ~NoTop(f) => Last(stack[f]) \in DOMAIN spans /\ Parent(f) = spans[Last(stack[f])]
    BY TopIsSpan
  <2> QED
    BY <2>1, <2>2, RefToSound DEF SpansOf
<1>7. SameRefs /\ Grows
  BY <1>3 DEF SameRefs, Grows
<1>8. \A r \in Referred' : r \in Referred \/ r = p
  BY <1>3, <1>4, Zenon DEF Referred
<1>9. Sounds' /\ Owned' /\ Listed' /\ Unserved'
  BY <1>6, <1>7, <1>8, QuietJoins DEF Joinable
<1>10. Fresh'
  BY <1>3, <1>5, RestingFresh
<1>11. Polls'
  <2>1. ASSUME NEW h \in Flows, NEW q \in DOMAIN spans, NEW n \in DOMAIN within[h], q = within[h][n], Polled(q),
               Private(h, q)
        PROVE  Secret(h, q)
    <3>1. h # f
      BY <1>3, <2>1, PollElsewhere DEF Joinable
    <3>2. SpansOf(spans[q].ctx) = {q} /\ spans[q].ctx # 0
          /\ \A i \in Flows \ {h} : pending[i].span # q /\ \A m \in DOMAIN stack[i] : stack[i][m] # q
      BY <2>1 DEF Private, Ranged, Types
    <3>3. p.ctx # spans[q].ctx
      <4>1. CASE p = Remote
        BY <3>2, <4>1 DEF Remote, NoSnapshot
      <4>2. CASE p # Remote
        <5>1. Last(stack[f]) # q
          BY <1>6, <3>1, <3>2, <4>2, TopIsSpan
        <5> QED
          BY <1>6, <3>2, <4>2, <5>1
      <4> QED
        BY <4>1, <4>2
    <3> QED
      BY <1>3, <1>8, <3>2, <3>3 DEF Secret
  <2> QED
    BY <1>3, <1>5, <1>7, <2>1, PollsKept DEF Joinable
<1>12. Snapshots'
  <2>1. stack[g] = <<>> /\ within[g] = <<>> /\ pending[g] = NoSpan
    BY <1>1 DEF Joinable, Snapshots
  <2> QED
    BY <1>1, <1>3, <1>4, <2>1 DEF Joinable, Snapshots
<1> QED
  BY <1>9, <1>10, <1>11, <1>12 DEF Joinable

LEMMA StartReferred ==
  ASSUME Types, Ranged, NEW f \in Flows, Start(f)
  PROVE  LET s == pending[f].span
         IN  \A r \in Referred' : \/ r \in Referred \/ r = Remote
                                  \/ pending[f].call.carrier = "sent" /\ r = RefTo(spans[s])
<1>1. PICK s : s = pending[f].span
  OBVIOUS
<1>2. PICK p : p = RefTo(spans[s])
  OBVIOUS
<1>3. /\ \A r \in wire' : r \in wire \/ (pending[f].call.carrier = "sent" /\ r = p)
      /\ captured' = [captured EXCEPT ![f] = NoSnapshot]
  BY <1>1, <1>2, Zenon DEF Start
<1>4. \A g \in Flows : captured'[g] \in {captured[g], Remote}
  BY <1>3 DEF Types, FlowType, Remote
<1>5. /\ DOMAIN spans' = DOMAIN spans
      /\ \A t \in DOMAIN spans : \A r \in spans'[t].refs : r \in spans[t].refs \/ r = captured[f]
  <2>1. /\ DOMAIN spans' = DOMAIN spans /\ s \in DOMAIN spans
        /\ spans'[s].refs = spans[s].refs \cup (IF Continues(f, spans[s]) THEN {captured[f]} ELSE {})
        /\ \A t \in DOMAIN spans \ {s} : spans'[t] = spans[t]
    BY <1>1, StartRefers
  <2>2. ASSUME NEW t \in DOMAIN spans, NEW r \in spans'[t].refs PROVE r \in spans[t].refs \/ r = captured[f]
    <3>1. CASE t = s
      BY <2>1, <2>2, <3>1
    <3>2. CASE t # s
      BY <2>1, <2>2, <3>2
    <3> QED
      BY <3>1, <3>2
  <2> QED
    BY <2>1, <2>2
<1> QED
  BY <1>1, <1>2, <1>3, <1>4, <1>5, Zenon DEF Referred

\* What is known where flow f starts the span s.
LEMMA StartFacts ==
  ASSUME Types, Ranged, Joinable, NEW f \in Flows, Start(f), NEW s, s = pending[f].span
  PROVE  /\ s \in DOMAIN spans /\ pending[f] # NoSpan /\ f \in running
         /\ \A g \in Flows \ {f} : pending[g] = NoSpan
         /\ \A g \in Flows : pending'[g] = NoSpan /\ pending'[g].span = 0
         /\ captured'[f] = NoSnapshot /\ \A g \in Flows \ {f} : captured'[g] = captured[g]
         /\ Polled(s) => /\ pending[f].call = spans[s].call /\ pending[f].call.carrier # "sent"
                         /\ spans[s].sid = 0 => Private(f, s)
         /\ Continues(f, spans[s]) =>
              /\ captured[f] # Remote /\ captured[f].ctx # spans[s].ctx /\ pending[f].call.carrier # "sent"
              /\ s = Len(spans) /\ Private(f, s)
<1>1. /\ s \in DOMAIN spans /\ pending[f] # NoSpan
      /\ Turn(f) /\ pending' = [pending EXCEPT ![f] = NoSpan] /\ captured' = [captured EXCEPT ![f] = NoSnapshot]
  BY StartRefers DEF Start
<1>2. \A g \in Flows \ {f} : pending[g] = NoSpan
  BY <1>1 DEF Turn
<1>3. \A g \in Flows : pending'[g] = NoSpan /\ pending'[g].span = 0
  BY <1>1, <1>2, NameFacts DEF Types, FlowType
<1>4. captured'[f] = NoSnapshot /\ \A g \in Flows \ {f} : captured'[g] = captured[g]
  BY <1>1 DEF Types, FlowType
<1>5. \/ s = Len(spans) /\ pending[f].call = spans[s].call /\ (spans[s].sid = 0 => Private(f, s))
      \/ ~Polled(s) /\ captured[f] = NoSnapshot
  BY <1>1 DEF Joinable, Fresh
<1>6. Polled(s) => /\ pending[f].call = spans[s].call /\ pending[f].call.carrier # "sent"
                   /\ spans[s].sid = 0 => Private(f, s)
  BY <1>5 DEF Polled
<1>7. ASSUME Continues(f, spans[s])
      PROVE  /\ captured[f] # Remote /\ captured[f].ctx # spans[s].ctx /\ pending[f].call.carrier # "sent"
             /\ s = Len(spans) /\ Private(f, s)
  <2>1. captured[f] # NoSnapshot /\ spans[s].call # Nothing /\ captured[f].ctx # spans[s].ctx
    BY <1>7 DEF Continues
  <2>2. /\ pending[f].call.carrier # "sent"
        /\ pending[f].call # Nothing => spans[s].sid = 0
    BY <1>1, <2>1 DEF Joinable, Snapshots
  <2> QED
    BY <1>5, <2>1, <2>2 DEF Remote
<1> QED
  BY <1>1, <1>2, <1>3, <1>4, <1>6, <1>7 DEF Turn

LEMMA StartJoins ==
  ASSUME Types, Ranged, Joinable, NEW f \in Flows, Start(f)
  PROVE  Sounds' /\ Owned' /\ Listed' /\ Unserved'
<1>1. PICK s \in DOMAIN spans : s = pending[f].span
  BY StartRefers
<1>2. PICK c \in DOMAIN ctxs : c = spans[s].ctx
  BY <1>1, StartRefers
<1>3. PICK R : R = IF Continues(f, spans[s]) THEN {captured[f]} ELSE {}
  OBVIOUS
<1>4. /\ Grows /\ DOMAIN spans' = DOMAIN spans /\ DOMAIN ctxs' = DOMAIN ctxs
      /\ spans'[s].refs = spans[s].refs \cup R /\ Follows(ctxs[c], ctxs'[c], R)
      /\ ~Continues(f, spans[s]) => ctxs'[c].traces = ctxs[c].traces
      /\ \A t \in DOMAIN spans \ {s} : spans'[t] = spans[t]
      /\ \A d \in DOMAIN ctxs \ {c} : ctxs'[d] = ctxs[d]
  BY <1>1, <1>2, <1>3, StartRefers
<1>5. /\ Continues(f, spans[s]) =>
           /\ captured[f] # Remote /\ captured[f].ctx # c /\ pending[f].call.carrier # "sent"
           /\ s = Len(spans) /\ Private(f, s)
      /\ Sounds /\ Owned /\ Listed
  BY <1>1, <1>2, StartFacts DEF Joinable
<1>6. \A d : SpansOf(d)' = SpansOf(d)
  BY <1>4 DEF Grows, SpansOf
<1>7. \A d \in DOMAIN ctxs : /\ ListsOn(d)
                             /\ ~Continues(f, spans[s]) \/ d # c => ctxs'[d].traces = ctxs[d].traces
  BY <1>4 DEF Follows, ListsOn
<1>8. ASSUME NEW r, Sound(r), ~Continues(f, spans[s]) \/ r.ctx # c PROVE Sound(r)'
  <2>1. r.ctx \in DOMAIN ctxs
    BY <1>8, SpanThere DEF Sound
  <2>2. ctxs'[r.ctx].traces = ctxs[r.ctx].traces /\ ListsOn(r.ctx)
    BY <1>7, <1>8, <2>1
  <2> QED
    BY <1>4, <1>5, <1>8, <2>2, SoundKept
<1>9. Sounds'
  <2> SUFFICES ASSUME NEW r \in Referred', r # Remote PROVE Sound(r)'
    BY DEF Sounds, Remote, NoSnapshot
  <2>1. CASE r \in Referred
    <3>1. Sound(r)
      BY <1>5, <2>1 DEF Sounds
    <3>2. Continues(f, spans[s]) => r.ctx # c
      BY <1>2, <1>5, <2>1 DEF Private
    <3> QED
      BY <1>8, <3>1, <3>2
  <2>2. CASE pending[f].call.carrier = "sent" /\ r = RefTo(spans[s])
    <3>1. Sound(r) /\ ~Continues(f, spans[s])
      BY <1>5, <2>2, RefToSound
    <3> QED
      BY <1>8, <3>1
  <2> QED
    BY <1>1, <2>1, <2>2, StartReferred
<1>10. Owned'
  <2> SUFFICES ASSUME NEW d \in DOMAIN ctxs', ctxs'[d].ownTrace
               PROVE  ctxs'[d].traces = <<d>> /\ \A t \in SpansOf(d)' : spans'[t].refs = {}
    BY DEF Owned
  <2>1. \A t \in SpansOf(d) : t \in DOMAIN spans /\ (t = s => d = c)
    BY <1>2 DEF SpansOf
  <2>2. CASE d # c
    BY <1>4, <1>5, <1>6, <2>1, <2>2 DEF Owned
  <2>3. CASE d = c
    <3>1. R = {} /\ ctxs'[d].traces = ctxs[d].traces /\ ctxs[d].ownTrace
      BY <1>3, <1>4, <2>3 DEF Follows
    <3>2. \A t \in DOMAIN spans : spans'[t].refs = spans[t].refs
      BY <1>4, <3>1
    <3> QED
      BY <1>2, <1>5, <1>6, <2>1, <2>3, <3>1, <3>2 DEF Owned
  <2> QED
    BY <2>2, <2>3
<1>11. Listed'
  <2> SUFFICES ASSUME NEW t \in DOMAIN spans', NEW r \in spans'[t].refs
               PROVE  /\ r.trace \in ToSet(ctxs'[spans'[t].ctx].traces)
                      /\ r # Remote => \E u \in SpansOf(r.ctx)' : u < t /\ spans'[u].sid = r.sid
    BY DEF Listed, Remote, NoSnapshot
  <2>1. t \in DOMAIN spans /\ spans'[t].ctx = spans[t].ctx /\ ListsOn(spans[t].ctx)
    BY <1>4, <1>7 DEF Grows, Ranged
  <2>2. CASE r \in spans[t].refs
    BY <1>4, <1>5, <2>1, <2>2, ListedKept
  <2>3. CASE t = s /\ Continues(f, spans[s]) /\ r = captured[f]
    <3>1. r.trace \in ToSet(ctxs'[c].traces)
      BY <1>3, <1>4, <2>3 DEF Follows
    <3>2. Sound(r)
      BY <1>5, <2>3 DEF Sounds, Referred
    <3>3. PICK u \in SpansOf(r.ctx) : spans[u].sid = r.sid
      BY <3>2 DEF Sound
    <3>4. u \in DOMAIN spans /\ spans[u].ctx # c
      BY <1>5, <2>3, <3>3 DEF SpansOf
    <3>5. u < s
      BY <1>2, <1>5, <2>3, <3>4, Records
    <3>6. u \in SpansOf(r.ctx)' /\ spans'[u].sid = r.sid
      BY <1>4, <1>6, <3>3, <3>4 DEF Grows
    <3> QED
      BY <1>2, <2>1, <2>3, <3>1, <3>5, <3>6
  <2> QED
    BY <1>3, <1>4, <2>1, <2>2, <2>3
<1>12. Unserved'
  <2>1. Polled(s) => spans'[s].comp # "General"
    <3>1. spans'[s].comp = pending[f].call.comp /\ (Polled(s) => pending[f].call = spans[s].call)
      <4>1. spans'[s].comp = pending[f].call.comp
        BY <1>1, StartRefers
      <4>2. Polled(s) => pending[f].call = spans[s].call
        BY <1>1, StartFacts
      <4> QED
        BY <4>1, <4>2
    <3>2. Polled(s) => spans[s].call.comp # "General"
      BY PolledServes
    <3> QED
      BY <3>1, <3>2
  <2>2. \A t \in DOMAIN spans : Polled(t)' <=> Polled(t)
    BY <1>4 DEF Grows, Polled
  <2> QED
    BY <1>4, <2>1, <2>2 DEF Joinable, Unserved
<1> QED
  BY <1>9, <1>10, <1>11, <1>12

LEMMA StartPolls ==
  ASSUME Types, Ranged, Joinable, NEW f \in Flows, Start(f)
  PROVE  Polls'
<1>1. PICK s \in DOMAIN spans : s = pending[f].span
  BY StartRefers
<1>2. /\ pending[f] # NoSpan
      /\ \A g \in Flows : pending'[g] = NoSpan /\ pending'[g].span = 0
      /\ Polled(s) => /\ pending[f].call.carrier # "sent"
                      /\ spans[s].sid = 0 => Private(f, s)
  BY <1>1, StartFacts
<1>3. /\ Grows /\ DOMAIN spans' = DOMAIN spans
  BY StartRefers
<1>4. \A d : SpansOf(d)' = SpansOf(d)
  BY <1>3 DEF Grows, SpansOf
<1>5. /\ within[f] \in Seq(Nat) /\ within'[f] = Append(within[f], s)
      /\ \A g \in Flows \ {f} : within'[g] = within[g] /\ stack'[g] = stack[g]
      /\ stack[f] \in Seq(Nat) /\ stack'[f] \in {stack[f], Append(stack[f], s)} /\ s \in Nat
  <2>1. /\ stack' = [stack EXCEPT ![f] = IF spans[s].depth = 0 /\ ~Contains(@, s) THEN Append(@, s) ELSE @]
        /\ within' = [within EXCEPT ![f] = Append(@, s)]
    BY <1>1, StartDoes
  <2>2. stack \in [Flows -> Seq(Nat)] /\ within \in [Flows -> Seq(Nat)] /\ s \in Nat
    BY Records DEF Types, FlowType
  <2> QED
    BY <2>1, <2>2
<1>6. \A r \in Referred' : \/ r \in Referred \/ r.ctx = 0
                           \/ pending[f].call.carrier = "sent" /\ r.ctx = spans[s].ctx
  BY <1>1, StartReferred, RefToSound DEF Remote, NoSnapshot
<1>7. ASSUME NEW g \in Flows, NEW q \in DOMAIN spans, Private(g, q), g # f => s # q,
             q = s => pending[f].call.carrier # "sent"
      PROVE  Private(g, q)'
  <2>1. spans[q].ctx # 0 /\ SpansOf(spans[q].ctx) = {q}
    BY <1>7 DEF Private, Ranged, Types
  <2>2. \A r \in Referred' : r \in Referred \/ r.ctx # spans[q].ctx
    <3>1. s # q => spans[s].ctx # spans[q].ctx
      BY <2>1 DEF SpansOf
    <3> QED
      BY <1>6, <1>7, <2>1, <3>1
  <2>3. \A h \in Flows \ {g} : \A m \in DOMAIN stack'[h] : stack'[h][m] # q
    <3>1. \A h \in Flows \ {g} : \A m \in DOMAIN stack[h] : stack[h][m] # q
      BY <1>7 DEF Private
    <3>2. f # g => \A m \in DOMAIN Append(stack[f], s) : Append(stack[f], s)[m] # q
      BY <1>5, <1>7, <3>1
    <3> QED
      BY <1>5, <3>1, <3>2
  <2>4. \A h \in Flows \ {g} : pending'[h].span # q
    BY <1>2, Records
  <2>5. spans'[q].ctx = spans[q].ctx
    BY <1>3 DEF Grows
  <2> QED
    BY <1>4, <1>7, <2>2, <2>3, <2>4, <2>5, PrivateKept
<1>8. ASSUME NEW g \in Flows, NEW n \in DOMAIN within'[g], NEW q \in DOMAIN spans', q = within'[g][n], Polled(q)'
      PROVE  n = Len(within'[g]) /\ (spans'[q].sid = 0 => Private(g, q)')
  <2>1. q \in DOMAIN spans /\ Polled(q) /\ spans'[q].sid = spans[q].sid
    BY <1>3, <1>8 DEF Grows, Polled
  <2>2. CASE g # f
    <3>1. n \in DOMAIN within[g] /\ q = within[g][n] /\ within'[g] = within[g]
      BY <1>5, <1>8, <2>2
    <3>2. n = Len(within[g]) /\ (spans[q].sid = 0 => Private(g, q))
      BY <2>1, <3>1 DEF Joinable, Polls
    <3>3. Private(g, q) => s # q
      BY <1>1, <2>2 DEF Private
    <3> QED
      BY <1>7, <2>1, <3>1, <3>2, <3>3
  <2>3. CASE g = f
    <3>1. ~InPoll(f)
      BY <1>2 DEF Joinable, Polls
    <3>2. n \notin DOMAIN within[f] \/ within[f][n] # q
      BY <2>1, <3>1, PollElsewhere DEF Joinable
    <3>3. n = Len(within[f]) + 1 /\ q = s /\ Len(within'[f]) = Len(within[f]) + 1
      <4>1. DOMAIN Append(within[f], s) = DOMAIN within[f] \cup {Len(within[f]) + 1}
        BY <1>5
      <4>2. /\ Len(Append(within[f], s)) = Len(within[f]) + 1 /\ Append(within[f], s)[Len(within[f]) + 1] = s
            /\ \A m \in DOMAIN within[f] : Append(within[f], s)[m] = within[f][m]
        BY <1>5, AppendProperties
      <4>3. n \in DOMAIN Append(within[f], s) /\ q = Append(within[f], s)[n]
        BY <1>5, <1>8, <2>3
      <4> QED
        BY <1>5, <2>3, <3>2, <4>1, <4>2, <4>3
    <3> QED
      BY <1>2, <1>7, <2>1, <2>3, <3>3
  <2> QED
    BY <2>2, <2>3
<1> QED
  BY <1>2, <1>8 DEF Polls

LEMMA JoinStart ==
  ASSUME Types, Ranged, Joinable, NEW f \in Flows, Start(f)
  PROVE  Joinable'
<1>1. PICK s \in DOMAIN spans : s = pending[f].span
  BY StartRefers
<1>2. /\ f \in running /\ \A g \in Flows : pending'[g] = NoSpan
      /\ captured'[f] = NoSnapshot /\ \A g \in Flows \ {f} : captured'[g] = captured[g]
  BY <1>1, StartFacts
<1>3. /\ \A g \in Flows \ {f} : within'[g] = within[g] /\ stack'[g] = stack[g]
      /\ running' = running
  <2>1. /\ stack' = [stack EXCEPT ![f] = IF spans[s].depth = 0 /\ ~Contains(@, s) THEN Append(@, s) ELSE @]
        /\ within' = [within EXCEPT ![f] = Append(@, s)]
    BY <1>1, StartDoes
  <2> QED
    BY <2>1 DEF Types, FlowType, Start
<1>4. Snapshots'
  BY <1>2, <1>3 DEF Joinable, Snapshots
<1>5. Fresh'
  BY <1>2, RestingFresh
<1> QED
  BY <1>4, <1>5, StartJoins, StartPolls DEF Joinable

LEMMA JoinExtract ==
  ASSUME Types, Ranged, Tree, Joinable, NEW f \in Flows, Extract(f)
  PROVE  Joinable'
<1>1. PICK s \in DOMAIN spans : s = Last(within[f])
  BY ExtractRefers
<1>2. PICK c \in DOMAIN ctxs : c = spans[s].ctx
  BY DEF Ranged
<1>3. PICK R \in SUBSET wire :
        /\ spans'[s].comp = spans[s].comp
        /\ spans'[s].refs = spans[s].refs \cup R /\ Follows(ctxs[c], ctxs'[c], R)
        /\ \A r \in R : r # Remote => \E t \in 1 .. s - 1 : spans[t].ctx = r.ctx /\ spans[t].sid = r.sid
  BY <1>1, <1>2, ExtractRefers
<1>4. /\ within[f] # <<>> /\ s = within[f][Len(within[f])]
      /\ Grows /\ DOMAIN spans' = DOMAIN spans /\ DOMAIN ctxs' = DOMAIN ctxs
      /\ \A t \in DOMAIN spans \ {s} : spans'[t] = spans[t]
      /\ \A d \in DOMAIN ctxs \ {c} : ctxs'[d] = ctxs[d]
      /\ ~ctxs'[c].ownTrace
  BY <1>1, <1>2, ExtractRefers
<1>5. UNCHANGED <<stack, running, pending, within, captured, wire>> /\ AtLiberty(f) /\ InPoll(f)
  BY DEF Extract
<1>6. \A g \in Flows : pending'[g] = NoSpan /\ pending'[g].span = 0
  BY <1>5, NonePending
<1>7. \A d : SpansOf(d)' = SpansOf(d)
  BY <1>4 DEF Grows, SpansOf
<1>8. \A r \in Referred' : r \in Referred
  <2>1. \A t \in DOMAIN spans : \A r \in spans'[t].refs : r \in spans[t].refs \/ r \in wire
    <3>1. ASSUME NEW t \in DOMAIN spans, NEW r \in spans'[t].refs PROVE r \in spans[t].refs \/ r \in wire
      <4>1. CASE t = s
        BY <1>3, <3>1, <4>1
      <4>2. CASE t # s
        BY <1>4, <3>1, <4>2
      <4> QED
        BY <4>1, <4>2
    <3> QED
      BY <3>1
  <2> QED
    BY <1>4, <1>5, <2>1 DEF Referred
<1>9. Polled(s) /\ (spans[s].sid = 0 => Private(f, s))
  <2>1. Polled(s)
    BY <1>1, <1>5 DEF InPoll, Polled
  <2>2. Len(within[f]) \in DOMAIN within[f]
    BY <1>4 DEF Types, FlowType
  <2> QED
    BY <1>4, <2>1, <2>2 DEF Joinable, Polls
<1>10. spans[s].call # Nothing /\ spans[s].call.kind = "entry"
  <2>1. spans[s].call \in Calls \cup {Nothing}
    BY DEF Ranged, Types
  <2>2. Nothing.carrier # "polled" /\ \A call \in Calls : call.carrier = "polled" => call.kind = "entry"
    BY DEF Nothing, Local, Calls
  <2> QED
    BY <1>9, <2>1, <2>2 DEF Polled
<1>11. spans[s].sid \in Nat
  BY <1>10, Numbered
<1>12. \A d \in DOMAIN ctxs : /\ ListsOn(d)
                              /\ d # c => ctxs'[d].traces = ctxs[d].traces
  BY <1>3, <1>4 DEF Follows, ListsOn
<1>13. ASSUME NEW r \in Referred, Sound(r) PROVE Sound(r)'
  <2>1. r.ctx \in DOMAIN ctxs
    BY <1>13, SpanThere DEF Sound
  <2>2. r.ctx = c => NestedEntry(c)'
    <3>1. r.ctx = c => spans[s].sid > 0
      BY <1>2, <1>9, <1>11 DEF Private
    <3>2. s \in SpansOf(c)' /\ spans'[s].call = spans[s].call /\ spans'[s].sid = spans[s].sid
      BY <1>2, <1>4, <1>7 DEF SpansOf, Grows
    <3> QED
      BY <1>10, <3>1, <3>2 DEF NestedEntry
  <2>3. ListsOn(r.ctx) /\ (r.ctx # c => ToSet(ctxs[r.ctx].traces) \subseteq ToSet(ctxs'[r.ctx].traces))
    BY <1>12, <2>1
  <2>4. CASE r.ctx = c
    <3>1. NestedEntry(r.ctx)'
      BY <2>2, <2>4
    <3> QED
      BY <1>4, <1>13, <2>3, <3>1, SoundKept DEF Joinable
  <2>5. CASE r.ctx # c
    BY <1>4, <1>13, <2>3, <2>5, SoundKept DEF Joinable
  <2> QED
    BY <2>4, <2>5
<1>14. Sounds'
  <2> SUFFICES ASSUME NEW r \in Referred', r # Remote PROVE Sound(r)'
    BY DEF Sounds, Remote, NoSnapshot
  <2> QED
    BY <1>8, <1>13 DEF Joinable, Sounds
<1>15. Owned'
  <2> SUFFICES ASSUME NEW d \in DOMAIN ctxs', ctxs'[d].ownTrace
               PROVE  ctxs'[d].traces = <<d>> /\ \A t \in SpansOf(d)' : spans'[t].refs = {}
    BY DEF Owned
  <2>1. d \in DOMAIN ctxs /\ d # c /\ ctxs'[d] = ctxs[d]
    BY <1>4
  <2>2. \A t \in SpansOf(d) : t \in DOMAIN spans /\ t # s
    BY <1>2, <2>1 DEF SpansOf
  <2> QED
    BY <1>4, <1>7, <2>1, <2>2 DEF Joinable, Owned
<1>16. Listed'
  <2> SUFFICES ASSUME NEW t \in DOMAIN spans', NEW r \in spans'[t].refs
               PROVE  /\ r.trace \in ToSet(ctxs'[spans'[t].ctx].traces)
                      /\ r # Remote => \E u \in SpansOf(r.ctx)' : u < t /\ spans'[u].sid = r.sid
    BY DEF Listed, Remote, NoSnapshot
  <2>1. t \in DOMAIN spans /\ spans'[t].ctx = spans[t].ctx /\ ListsOn(spans[t].ctx)
    BY <1>4, <1>12 DEF Grows, Ranged
  <2>2. CASE r \in spans[t].refs
    BY <1>4, <2>1, <2>2, ListedKept DEF Joinable
  <2>3. CASE t = s /\ r \in R
    <3>1. r.trace \in ToSet(ctxs'[c].traces)
      BY <1>3, <2>3 DEF Follows
    <3>2. ASSUME r # Remote PROVE \E u \in SpansOf(r.ctx)' : u < t /\ spans'[u].sid = r.sid
      <4>1. PICK u \in 1 .. s - 1 : spans[u].ctx = r.ctx /\ spans[u].sid = r.sid
        BY <1>3, <2>3, <3>2
      <4>2. u \in DOMAIN spans /\ u < s
        BY <4>1, Records
      <4>3. u \in SpansOf(r.ctx)' /\ spans'[u].sid = r.sid
        BY <1>4, <1>7, <4>1, <4>2 DEF Grows, SpansOf
      <4> QED
        BY <2>3, <4>2, <4>3
    <3> QED
      BY <1>2, <2>1, <2>3, <3>1, <3>2
  <2> QED
    BY <1>3, <1>4, <2>1, <2>2, <2>3
<1>17. Fresh'
  BY <1>6, RestingFresh
<1>18. Polls'
  <2>1. ASSUME NEW g \in Flows, NEW q \in DOMAIN spans, Private(g, q) PROVE Secret(g, q)
    <3>1. \A h \in Flows \ {g} : \A m \in DOMAIN stack[h] : stack[h][m] # q
      BY <2>1 DEF Private
    <3>2. q # 0
      BY Records
    <3> QED
      BY <1>5, <1>6, <1>8, <3>1, <3>2 DEF Secret
  <2> QED
    BY <1>4, <1>5, <1>6, <2>1, PollsKept DEF Joinable
<1>19. Snapshots'
  BY <1>5, <1>6 DEF Joinable, Snapshots
<1>20. Unserved'
  <2>1. \A t \in DOMAIN spans : (Polled(t)' <=> Polled(t)) /\ spans'[t].comp = spans[t].comp
    BY <1>3, <1>4 DEF Grows, Polled
  <2> QED
    BY <1>4, <2>1 DEF Joinable, Unserved
<1> QED
  BY <1>14, <1>15, <1>16, <1>17, <1>18, <1>19, <1>20 DEF Joinable

LEMMA JoinEnded ==
  ASSUME Types, Ranged, Joinable, NEW f \in Flows, NEW g \in Flows, NEW n \in DOMAIN within[g], Ended(f, g, n)
  PROVE  Joinable'
<1>1. PICK s : s = within[g][n]
  OBVIOUS
<1>2. /\ within' = [within EXCEPT ![g] = RemoveAt(@, n)]
      /\ stack' = [stack EXCEPT ![f] = IF spans[s].depth = 1 /\ f \notin unset THEN RemoveFirst(@, s) ELSE @]
  BY <1>1, EndDoes DEF Ended
<1>3. UNCHANGED <<running, pending, captured, wire>> /\ AtLiberty(f) /\ f \in running
  BY DEF Ended, AtLiberty, Turn
<1>4. \A h \in Flows : pending'[h] = NoSpan /\ pending'[h].span = 0
  BY <1>3, NonePending
<1>5. SameRefs /\ Grows /\ DOMAIN spans' = DOMAIN spans
  BY EndedRefers DEF SameRefs, Grows
<1>6. \A r \in Referred' : r \in Referred
  BY <1>3, <1>5 DEF Referred, SameRefs
<1>7. Sounds' /\ Owned' /\ Listed' /\ Unserved'
  BY <1>5, <1>6, QuietJoins DEF Joinable
<1>8. Fresh'
  BY <1>4, RestingFresh
<1>9. /\ \A h \in Flows : stack'[h] \in {stack[h], RemoveFirst(stack[h], s)} /\ (h # f => stack'[h] = stack[h])
      /\ within'[g] = RemoveAt(within[g], n) /\ \A h \in Flows \ {g} : within'[h] = within[h]
  BY <1>2 DEF Types, FlowType
<1>10. ASSUME NEW h \in Flows, NEW m \in DOMAIN stack'[h]
       PROVE  \E k \in DOMAIN stack[h] : stack'[h][m] = stack[h][k]
  <2>1. stack[h] \in Seq(Nat)
    BY DEF Types, FlowType
  <2>2. PICK q : q = stack[h]
    OBVIOUS
  <2>3. \/ stack'[h] = q
        \/ \E k \in DOMAIN q : stack'[h] = RemoveAt(q, k)
    BY <1>9, <2>1, <2>2, RemoveFirstRemoves
  <2>4. ASSUME NEW k \in DOMAIN q, stack'[h] = RemoveAt(q, k) PROVE \E j \in DOMAIN q : stack'[h][m] = q[j]
    <3>1. /\ RemoveAt(q, k) \in Seq(Nat) /\ Len(RemoveAt(q, k)) = Len(q) - 1
          /\ \A j \in DOMAIN RemoveAt(q, k) : /\ j \in DOMAIN q /\ j + 1 \in DOMAIN q
                                              /\ RemoveAt(q, k)[j] = IF j < k THEN q[j] ELSE q[j + 1]
      <4>1. q \in Seq(Nat) /\ k \in DOMAIN q
        BY <2>1, <2>2
      <4> QED
        BY ONLY <4>1, RemoveAtProperties
    <3> QED
      BY <1>10, <2>4, <3>1
  <2> QED
    BY <1>10, <2>2, <2>3, <2>4
<1>11. ASSUME NEW j \in DOMAIN within'[g]
       PROVE  \E i \in DOMAIN within[g] : /\ within'[g][j] = within[g][i]
                                          /\ i = Len(within[g]) => j = Len(within'[g])
  <2>1. PICK q \in Seq(Nat) : q = within[g]
    BY DEF Types, FlowType
  <2>2. /\ RemoveAt(q, n) \in Seq(Nat) /\ Len(RemoveAt(q, n)) = Len(q) - 1
        /\ \A i \in DOMAIN RemoveAt(q, n) : /\ i \in DOMAIN q /\ i + 1 \in DOMAIN q
                                            /\ RemoveAt(q, n)[i] = IF i < n THEN q[i] ELSE q[i + 1]
    <3>1. q \in Seq(Nat) /\ n \in DOMAIN q
      BY <2>1
    <3> QED
      BY ONLY <3>1, RemoveAtProperties
  <2>3. PICK r \in Seq(Nat) : r = RemoveAt(q, n)
    BY <2>2
  <2>4. j \in DOMAIN r /\ Len(r) = Len(q) - 1 /\ j \in DOMAIN q /\ j + 1 \in DOMAIN q
        /\ r[j] = IF j < n THEN q[j] ELSE q[j + 1]
    BY <1>9, <1>11, <2>1, <2>2, <2>3
  <2>5. j \in Nat /\ j <= Len(q) - 1 /\ Len(q) \in Nat
    BY <2>4
  <2>6. /\ j # Len(q)
        /\ j + 1 = Len(q) => j = Len(r)
    BY <2>4, <2>5
  <2>7. within'[g] = r /\ within[g] = q
    BY <1>9, <2>1, <2>3
  <2>8. CASE j < n
    BY <2>4, <2>6, <2>7, <2>8
  <2>9. CASE ~(j < n)
    BY <2>4, <2>6, <2>7, <2>9
  <2> QED
    BY <2>8, <2>9
<1>12. ASSUME NEW h \in Flows, NEW q \in DOMAIN spans, Private(h, q) PROVE Private(h, q)'
  <2>1. q # 0 /\ spans'[q].ctx = spans[q].ctx /\ SpansOf(spans[q].ctx)' = SpansOf(spans[q].ctx)
    BY <1>5, Records DEF Grows, SpansOf
  <2>2. \A i \in Flows \ {h} : pending'[i].span # q /\ \A m \in DOMAIN stack'[i] : stack'[i][m] # q
    BY <1>4, <1>10, <1>12, <2>1 DEF Private
  <2> QED
    BY <1>6, <1>12, <2>1, <2>2, PrivateKept
<1>13. Polls'
  <2>1. ASSUME NEW h \in Flows, NEW j \in DOMAIN within'[h], NEW q \in DOMAIN spans', q = within'[h][j], Polled(q)'
        PROVE  j = Len(within'[h]) /\ (spans'[q].sid = 0 => Private(h, q)')
    <3>1. q \in DOMAIN spans /\ Polled(q) /\ spans'[q].sid = spans[q].sid
      BY <1>5, <2>1 DEF Grows, Polled
    <3>2. PICK i \in DOMAIN within[h] : q = within[h][i] /\ (i = Len(within[h]) => j = Len(within'[h]))
      BY <1>9, <1>11, <2>1
    <3>3. i = Len(within[h]) /\ (spans[q].sid = 0 => Private(h, q))
      BY <3>1, <3>2 DEF Joinable, Polls
    <3> QED
      BY <1>12, <3>1, <3>2, <3>3
  <2> QED
    BY <1>4, <2>1 DEF Polls
<1>14. Snapshots'
  <2>1. \A h \in Flows : stack[h] = <<>> => stack'[h] = <<>>
    <3>1. ASSUME NEW h \in Flows, stack[h] = <<>> PROVE stack'[h] = <<>>
      <4>1. <<>> \in Seq(Nat) /\ DOMAIN <<>> = {}
        OBVIOUS
      <4>2. RemoveFirst(<<>>, s) = <<>>
        BY <4>1, RemoveFirstRemoves
      <4> QED
        BY <1>9, <3>1, <4>2
    <3> QED
      BY <3>1
  <2>2. within[g] # <<>>
    OBVIOUS
  <2>3. \A h \in Flows : within[h] = <<>> => within'[h] = <<>>
    BY <1>9, <2>2
  <2> QED
    BY <1>3, <1>4, <2>1, <2>3 DEF Joinable, Snapshots
<1> QED
  BY <1>7, <1>8, <1>13, <1>14 DEF Joinable

LEMMA JoinStep == Types /\ Ranged /\ Tree /\ Joinable /\ [Next]_vars => Joinable'
<1> SUFFICES ASSUME Types, Ranged, Tree, Joinable, [Next]_vars PROVE Joinable'
  OBVIOUS
<1>1. CASE Next
  <2>1. PICK f \in Flows :
          \/ \E x \in SpanRecords : Created(f, x) /\ Refers(f, x)
          \/ \E call \in calls : Inherited(f, call) /\ ~InPoll(f)
          \/ LateRaises(f) \/ Start(f) \/ Extract(f)
          \/ \E g \in Flows : \E n \in DOMAIN within[g] : Ended(f, g, n)
          \/ Archive(f) \/ Spawn(f) \/ RunThread(f)
    BY <1>1, JoinCases
  <2>2. ASSUME LateRaises(f) \/ Archive(f) PROVE Joinable'
    BY <2>2, JoinSame DEF LateRaises, Archive
  <2> QED
    BY <2>1, <2>2, JoinCreated, JoinInherited, JoinStart, JoinExtract, JoinEnded, JoinSpawn, JoinRunThread
<1>2. CASE UNCHANGED vars
  BY <1>2, JoinSame DEF vars
<1> QED
  BY <1>1, <1>2

LEMMA JoinInit == Init => Joinable
<1> SUFFICES ASSUME Init PROVE Joinable
  OBVIOUS
<1>1. spans = <<>> /\ ctxs = <<>> /\ wire = {Remote}
      /\ \A f \in Flows : stack[f] = <<>> /\ within[f] = <<>> /\ pending[f] = NoSpan /\ captured[f] = NoSnapshot
  BY DEF Init
<1>2. DOMAIN spans = {} /\ DOMAIN ctxs = {} /\ \A f \in Flows : DOMAIN within[f] = {}
  BY <1>1
<1>3. \A r \in Referred : r = Remote
  BY <1>1, <1>2 DEF Referred, Remote
<1>4. Sounds /\ Owned /\ Listed /\ Unserved
  BY <1>2, <1>3 DEF Sounds, Owned, Listed, Unserved
<1>5. Fresh /\ Polls /\ Snapshots
  BY <1>1, <1>2 DEF Fresh, Polls, Snapshots
<1> QED
  BY <1>4, <1>5 DEF Joinable

\* The references of the spans of a segment lead to older spans, and to a trace that both segments
\* list unless a carrier replaced it: what Carrier, Snapshot and Segment.relate do together
\* (trace/carrier.py, trace/snapshot.py, trace/segment.py:82), whatever is sent, lost, delivered
\* twice or polled, and whatever runs under a snapshot.
THEOREM TracesCanBeJoined == Spec => []TracesJoin
<1> DEFINE IInv == Types /\ Ranged /\ Tree /\ Joinable
<1>1. Init => IInv
  BY TypesInit, TreeInit, JoinInit
<1>2. IInv /\ [Next]_vars => IInv'
  BY TypesStep, TreeStep, JoinStep
<1>3. IInv => TracesJoin
  <2> SUFFICES ASSUME Joinable, NEW s \in DOMAIN spans, NEW r \in spans[s].refs
               PROVE  /\ r.trace \in ToSet(ctxs[spans[s].ctx].traces)
                      /\ r # Remote =>
                           /\ \E t \in SpansOf(r.ctx) : t < s /\ spans[t].sid = r.sid
                           /\ \/ r.trace \in ToSet(ctxs[r.ctx].traces)
                              \/ r.trace = r.ctx /\ \E t \in SpansOf(r.ctx) : spans[t].call.kind = "entry" /\ spans[t].sid > 0
    BY DEF TracesJoin
  <2>1. r \in Referred
    BY DEF Referred
  <2> QED
    BY <2>1 DEF Joinable, Listed, Sounds, Sound, NestedEntry
<1> QED
  BY <1>1, <1>2, <1>3, PTL DEF Spec


-----------------------------------------------------------------------------
(* Consequences of the refinement: what the report thread is given.         *)

\* A segment is given to the agent once, unless a finished span of it was inherited: then each time
\* nothing in it is open.
SentOnce == \A m, n \in DOMAIN sent : m < n /\ sent[m] = sent[n] => sent[n] \in Reopened

\* What has been given to the agent stays, and says the same unless a finished span of it was, or is
\* now, inherited.
SentFinal == \A c \in ToSet(sent) : c \in ToSet(sent') /\ (c \notin Reopened' => Same(c))

LEMMA StoreOthers ==
  ASSUME NEW c \in Numbers, Store!Only(c), NEW d \in Numbers \ {c}
  PROVE  Same(d)
  BY DEF Store!Only, Same, OpenIn, RecordedIn, RecordedAs, RecordOf, RelatedIn, Numbers

\* One segment changes, which had not been given to the agent or goes on.
LEMMA StoreChangesOne ==
  ASSUME sent \in Seq(Nat), \A n \in DOMAIN sent : sent[n] \in Numbers, SentOnce,
         NEW c \in Numbers, Store!Only(c), UNCHANGED sent, Reopened \subseteq Reopened',
         c \in ToSet(sent) => c \in Reopened'
  PROVE  SentOnce' /\ SentFinal
<1>1. \A d \in ToSet(sent) : d \in Numbers
  BY DEF ToSet
<1>2. \A d \in Numbers \ {c} : Same(d)
  BY StoreOthers
<1>3. SentFinal
  <2>1. ASSUME NEW d \in ToSet(sent), d \notin Reopened' PROVE Same(d)
    BY <1>1, <1>2, <2>1
  <2>2. ToSet(sent') = ToSet(sent)
    OBVIOUS
  <2> QED
    BY <2>1, <2>2 DEF SentFinal
<1>4. SentOnce'
  BY DEF SentOnce
<1> QED
  BY <1>3, <1>4

LEMMA StoreArchivesOne ==
  ASSUME sent \in Seq(Nat), \A n \in DOMAIN sent : sent[n] \in Numbers, SentOnce,
         NEW c \in Numbers, Store!Archive(c)
  PROVE  SentOnce' /\ SentFinal
<1>1. /\ sent' = Append(sent, c) /\ c \in Nat /\ Reopened' = Reopened
      /\ c \in ToSet(sent) => c \in Reopened
  BY DEF Store!Archive, Store!GoesOn, Store!Contains, ToSet, Numbers
<1>2. \A d \in Numbers : Same(d)
  BY DEF Store!Archive, Same, OpenIn, RecordedIn, RecordedAs, RecordOf, RelatedIn, Numbers
<1>3. ToSet(sent') = ToSet(sent) \cup {c}
  BY <1>1, ElementsOfAppend
<1>4. SentFinal
  BY <1>2, <1>3 DEF SentFinal, ToSet
<1>5. SentOnce'
  <2> SUFFICES ASSUME NEW m \in DOMAIN sent', NEW n \in DOMAIN sent', m < n, sent'[m] = sent'[n]
               PROVE  sent'[n] \in Reopened'
    BY DEF SentOnce
  <2>1. m \in DOMAIN sent /\ sent'[m] = sent[m]
    BY <1>1
  <2>2. CASE n \in DOMAIN sent
    <3>1. sent'[n] = sent[n]
      BY <1>1, <2>2
    <3> QED
      BY <1>1, <2>1, <2>2, <3>1 DEF SentOnce
  <2>3. CASE n \notin DOMAIN sent
    <3>1. sent'[n] = c
      BY <1>1, <2>3
    <3>2. c \in ToSet(sent)
      BY <2>1, <3>1 DEF ToSet
    <3> QED
      BY <1>1, <3>1, <3>2
  <2> QED
    BY <2>2, <2>3
<1> QED
  BY <1>4, <1>5

LEMMA StoreUnchanged ==
  ASSUME UNCHANGED Store!store
  PROVE  sent' = sent /\ Reopened' = Reopened /\ \A d \in Numbers : Same(d)
<1> DEFINE o == [c \in 1 .. MaxSpans |->
                   IF c \in Segments THEN SpansOf(c) \ (ToSet(Recorded(c)) \ Started) ELSE {}]
           r == [c \in 1 .. MaxSpans |-> [n \in DOMAIN Recorded(c) |-> RecordOf(Recorded(c)[n])]]
           t == [c \in 1 .. MaxSpans |-> IF c \in Segments THEN ctxs[c].traces ELSE <<>>]
<1>1. sent' = sent /\ Reopened' = Reopened /\ o' = o /\ r' = r /\ t' = t
  BY Zenon DEF Store!store
<1>2. ASSUME NEW d \in Numbers PROVE Same(d)
  <2>1. OpenIn(d) = o[d] /\ OpenIn(d)' = o'[d]
    BY DEF OpenIn, Numbers
  <2>2. RecordedIn(d) = r[d] /\ RecordedIn(d)' = r'[d]
    BY DEF RecordedIn, RecordedAs, RecordOf, Numbers
  <2>3. RelatedIn(d) = t[d] /\ RelatedIn(d)' = t'[d]
    BY DEF RelatedIn, Numbers
  <2>4. OpenIn(d)' = OpenIn(d)
    BY ONLY <1>1, <2>1
  <2>5. RecordedIn(d)' = RecordedIn(d)
    BY ONLY <1>1, <2>2
  <2>6. RelatedIn(d)' = RelatedIn(d)
    BY ONLY <1>1, <2>3
  <2> QED
    BY <2>4, <2>5, <2>6 DEF Same
<1> QED
  BY <1>1, <1>2

LEMMA StoreStepFacts ==
  ASSUME sent \in Seq(Nat), \A n \in DOMAIN sent : sent[n] \in Numbers, SentOnce, Stored
  PROVE  SentOnce' /\ SentFinal
<1>1. CASE UNCHANGED Store!store
  <2>1. sent' = sent /\ Reopened' = Reopened /\ \A d \in Numbers : Same(d)
    BY <1>1, StoreUnchanged
  <2> QED
    BY <2>1 DEF SentOnce, SentFinal, ToSet
<1>2. CASE Store!Next
  <2>1. PICK c \in Numbers :
          Store!Open(c) \/ Store!RelateTo(c) \/ Store!Record(c) \/ Store!Reopen(c) \/ Store!Archive(c)
    BY <1>2 DEF Store!Next, Numbers
  <2>2. CASE Store!Open(c) \/ Store!RelateTo(c) \/ Store!Record(c)
    <3>1. Store!Only(c) /\ Store!GoesOn(c) /\ sent' = sent /\ Reopened' = Reopened
      BY <2>2 DEF Store!Open, Store!RelateTo, Store!Record
    <3>2. c \in ToSet(sent) => c \in Reopened
      BY <3>1 DEF Store!GoesOn, Store!Contains, ToSet
    <3> QED
      BY <3>1, <3>2, StoreChangesOne
  <2>3. CASE Store!Reopen(c)
    <3>1. Store!Only(c) /\ sent' = sent /\ Reopened' = Reopened \cup {c}
      BY <2>3 DEF Store!Reopen
    <3> QED
      BY <3>1, StoreChangesOne
  <2> QED
    BY <2>1, <2>2, <2>3, StoreArchivesOne
<1> QED
  BY <1>1, <1>2 DEF Stored

LEMMA SentAreNumbers ==
  ASSUME AInv
  PROVE  sent \in Seq(Nat) /\ \A n \in DOMAIN sent : sent[n] \in Numbers
<1>1. Types /\ Ranged /\ Recs
  BY DEF AInv, Base
<1>2. \A c \in Segments : c \in Numbers /\ sent \in Seq(Nat)
  BY <1>1, SegmentFacts
<1>3. \A n \in DOMAIN sent : sent[n] \in Segments
  BY <1>1 DEF Ranged, ToSet
<1> QED
  BY <1>1, <1>2, <1>3 DEF Types

LEMMA SentStep == AInv /\ SentOnce /\ [Next]_vars => AInv' /\ SentOnce' /\ [SentFinal]_vars
  BY StoredStep, AInvStep, SentAreNumbers, StoreStepFacts

\* Each segment is archived once: SpanContext.stop (trace/context.py:197) archives when the count of
\* the context comes to zero, and no later span of the same context, by whichever flow, does it
\* again; only the inheritance of a finished span (context.py:138, 162) brings the count to zero
\* a second time.
THEOREM SegmentsArchivedOnce == Spec => []SentOnce
<1> DEFINE IInv == AInv /\ SentOnce
<1>1. Init => IInv
  BY AInvInit DEF Init, SentOnce
<1>2. IInv /\ [Next]_vars => IInv'
  BY SentStep
<1> QED
  BY <1>1, <1>2, PTL DEF Spec

\* What has been archived is final: the report thread reads a segment's spans and related traces while
\* the requests run on, and no step opens, records or relates anything of it (SpanContext.stop and
\* Segment.archive, trace/context.py:197, trace/segment.py:79), except in a segment of which a
\* finished span was inherited.
THEOREM SegmentsFinal == Spec => [][SentFinal]_vars
<1> DEFINE IInv == AInv /\ SentOnce
<1>1. Init => IInv
  BY AInvInit DEF Init, SentOnce
<1>2. IInv /\ [Next]_vars => IInv' /\ [SentFinal]_vars
  BY SentStep
<1> QED
  BY <1>1, <1>2, PTL DEF Spec
=============================================================================
