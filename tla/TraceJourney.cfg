\* Traces of one to four spans, depth limits that a chain of three runs into, two
\* workers that each make a pass over the same template.
SPECIFICATION Spec
CONSTANTS
  NumServices = 3
  Fanout = {1}
  SpanCounts = {1, 4}
  Children = {1, 2, 3}
  MaxDepth = 1
  WideChildren = {2, 3}
  WideDepth = 1
  LeafDuration = {1, 3}
  Overhead = {1}
  DelayMs = 5
  Worker = {w1, w2}
  Jitter = {0, 1}
  Now = 20
  DefaultDuration = 10
SYMMETRY Interchangeable
INVARIANTS BudgetSpent ServiceWindow TreePreserved OnlyLateRootDeferred TimingKept
