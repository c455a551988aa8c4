-------------------------------- MODULE SpanTree --------------------------------
(***************************************************************************)
(* How one trace template is made (internal/generator/traces/spans.go):    *)
(* the recursion that spends the span budget, the durations computed       *)
(* afterwards and the treatment of the root.                               *)
(*                                                                         *)
(* `tree' lists the spans in the order they are created, which is that of  *)
(* CollectSpans (a parent, then its children from left to right); a span   *)
(* is named by its index, the root is 1.  `frames' is the stack of calls   *)
(* of buildSpanTree or buildWideSpanTree in progress.                      *)
(***************************************************************************)
EXTENDS ServiceTopology, Sequences, SequencesExt

CONSTANTS
  SpanCounts,                \* what NormalInt or high_span_traces.span_count give
  Children, MaxDepth,        \* buildSpanTree: 1..4 children, depth 10
  WideChildren, WideDepth,   \* buildWideSpanTree: 5..15 children, depth 20
  LeafDuration, Overhead     \* durations drawn by calculateDurations

ASSUME SpanTreeAssumption ==
  /\ SpanCounts \cup Children \cup WideChildren \subseteq Nat \ {0}
  /\ LeafDuration \cup Overhead \subseteq Nat \ {0}
  /\ MaxDepth \in Nat /\ WideDepth \in Nat

VARIABLES
  calls, roots,   \* the topology: downstream services, entry points
  phase,          \* "start", "build", "treat", "ready"
  wide,           \* a high-span trace
  spanCount,      \* TraceTemplate.SpanCount
  tree, frames,
  phantom, late   \* applyRootTreatment: a parent that is never emitted, an emit delay

treeVars == <<calls, roots, phase, wide, spanCount, tree, frames, phantom, late>>

ChildrenOf(t, k) == {j \in DOMAIN t : t[j].parent = k}

SpanTreeInit ==
  /\ calls \in Topologies
  /\ \E single \in BOOLEAN, name \in Service \cup {0} : roots = RootServices(single, name)
  /\ phase = "start" /\ wide = FALSE /\ spanCount = 0
  /\ tree = <<>> /\ frames = <<>>
  /\ phantom = FALSE /\ late = FALSE

\* A call of buildSpanTree or buildWideSpanTree for span k that draws c children: nothing
\* at all when no budget is left or the depth limit is passed.
BuildCall(w, k, start, remaining, depth, c) ==
  IF remaining = 0 \/ depth > (IF w THEN WideDepth ELSE MaxDepth) THEN <<>>
  ELSE <<[parent |-> k, offset |-> start, remaining |-> remaining, depth |-> depth,
          count |-> IF c > remaining THEN remaining ELSE c, i |-> 0, created |-> 0]>>

ChildCounts(w) == IF w THEN WideChildren ELSE Children

\* GenerateTrace or GenerateHighSpanTrace creates the root and starts the recursion.
GenerateTrace ==
  /\ phase = "start"
  /\ \E w \in BOOLEAN, n \in SpanCounts, s \in roots : \E c \in ChildCounts(w) :
       /\ wide' = w /\ spanCount' = n
       /\ tree' = <<[parent |-> 0, service |-> s, start |-> 0, duration |-> 0]>>
       /\ frames' = BuildCall(w, 1, 0, n - 1, 0, c)
  /\ phase' = "build"
  /\ UNCHANGED <<calls, roots, phantom, late>>

\* Mutant: what is left is shared with one child too many.
ChildBudget_OneMore(w, left, count, i) ==
  LET share == left \div (count - i + 1) IN IF ~w /\ share < 1 THEN left ELSE share

\* The share of a child in what is left; the narrow tree spends a remainder too small to
\* share on this child.
ChildBudget(w, left, count, i) ==
  LET share == left \div (count - i) IN IF ~w /\ share < 1 THEN left ELSE share

Growing(f) == f.i < f.count /\ f.created < f.remaining

\* Mutant: siblings are put one after the other with a duration known only later.
AddChild_Sequential ==
  /\ phase = "build" /\ frames # <<>>
  /\ LET f == Last(frames)
         left == f.remaining - f.created - 1
         k == Len(tree) + 1
     IN /\ Growing(f)
        /\ \E s \in ChildServices(calls, tree[f.parent].service), c \in ChildCounts(wide) :
             /\ tree' = Append(tree, [parent |-> f.parent, service |-> s,
                                      start |-> f.offset, duration |-> 0])
             /\ frames' = Append(Front(frames), [f EXCEPT !.i = @ + 1, !.created = @ + 1,
                                                          !.offset = @ + 3])
                            \o BuildCall(wide, k, f.offset,
                                         ChildBudget(wide, left, f.count, f.i), f.depth + 1, c)
  /\ UNCHANGED <<calls, roots, phase, wide, spanCount, phantom, late>>

\* One turn of the loop up to the recursive call.  The next sibling starts after this
\* one's duration, which is still zero; a wide tree's random durations are overwritten
\* before anything reads them, and its spans start with their parent.
AddChild ==
  /\ phase = "build" /\ frames # <<>>
  /\ LET f == Last(frames)
         left == f.remaining - f.created - 1
         k == Len(tree) + 1
         new(s) == [parent |-> f.parent, service |-> s, start |-> f.offset, duration |-> 0]
     IN /\ Growing(f)
        /\ \E s \in ChildServices(calls, tree[f.parent].service), c \in ChildCounts(wide) :
             /\ tree' = Append(tree, new(s))
             /\ frames' = Append(Front(frames), [f EXCEPT !.i = @ + 1, !.created = @ + 1,
                                                          !.offset = @ + new(s).duration])
                            \o BuildCall(wide, k, f.offset,
                                         ChildBudget(wide, left, f.count, f.i), f.depth + 1, c)
  /\ UNCHANGED <<calls, roots, phase, wide, spanCount, phantom, late>>

\* A call returns the number of spans it created to its caller.
BuildReturn ==
  /\ phase = "build" /\ frames # <<>> /\ ~Growing(Last(frames))
  /\ LET rest == Front(frames)
     IN frames' = IF rest = <<>> THEN <<>>
                  ELSE [rest EXCEPT ![Len(rest)].created = @ + Last(frames).created]
  /\ UNCHANGED <<calls, roots, phase, wide, spanCount, tree, phantom, late>>

\* calculateDurations: a leaf has its own time, an inner span its children's and some.
Duration(t, own) ==
  LET d[k \in DOMAIN t] == own[k] + MapThenSumSet(LAMBDA j : d[j], ChildrenOf(t, k)) IN d

CalculateDurations ==
  /\ phase = "build" /\ frames = <<>>
  /\ \E own \in [DOMAIN tree -> LeafDuration \cup Overhead] :
       /\ \A k \in DOMAIN tree :
            own[k] \in (IF ChildrenOf(tree, k) = {} THEN LeafDuration ELSE Overhead)
       /\ tree' = [k \in DOMAIN tree |-> [tree[k] EXCEPT !.duration = Duration(tree, own)[k]]]
  /\ phase' = "treat"
  /\ UNCHANGED <<calls, roots, wide, spanCount, frames, phantom, late>>

\* Either treatment may be configured or not, and drawn or not.
ApplyRootTreatment ==
  /\ phase = "treat"
  /\ phantom' \in BOOLEAN /\ late' \in BOOLEAN
  /\ phase' = "ready"
  /\ UNCHANGED <<calls, roots, wide, spanCount, tree, frames>>

SpanTreeNext ==
  GenerateTrace \/ AddChild \/ BuildReturn \/ CalculateDurations \/ ApplyRootTreatment

--------------------------------------------------------------------------------
\* How far below the root each span is.
Depth(t) == LET d[k \in DOMAIN t] == IF k = 1 THEN 0 ELSE d[t[k].parent] + 1 IN d

\* The spans asked for, which CalculateStats counts (writer.go), are the spans made,
\* however the budget is divided: nothing makes the tree exceed it, and the tree is short
\* only when the last branch, which is given all that is left, runs into the depth limit.
BudgetSpent ==
  /\ Len(tree) <= spanCount
  /\ phase = "ready" /\ Len(tree) < spanCount =>
       Depth(tree)[Len(tree)] = (IF wide THEN WideDepth ELSE MaxDepth) + 1

\* "Downstream edges only go forward ... a trace rooted at a single early service only
\* reaches a small window of the service list" (ARCHITECTURE.md, Ingress): one fan-out
\* further per level, never back before the entry point.
ServiceWindow ==
  \A k \in DOMAIN tree :
    /\ tree[1].service \in roots
    /\ tree[1].service <= tree[k].service
    /\ tree[k].service <= tree[1].service + Depth(tree)[k] * Max(Fanout)
================================================================================
