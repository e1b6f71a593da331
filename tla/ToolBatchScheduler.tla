------------------------- MODULE ToolBatchScheduler -------------------------
(***************************************************************************)
(* The provider-independent planner that cuts the tool calls of one model  *)
(* output into waves (harness/src/tool-batch-scheduler.ts).  A call is     *)
(* abstracted to the verdict of isParallelSafe on it, "safe" or "unsafe";  *)
(* a wave is the interval of call positions it runs together.              *)
(*                                                                         *)
(* IsWave says which interval the plan runs from a given position, without *)
(* running the planner; the agent loop uses it.  plan is the planner's own *)
(* loop; AgentLoopProofs shows that the two agree.                         *)
(***************************************************************************)
EXTENDS Integers, Sequences, SequencesExt

Safety == {"safe", "unsafe"}
Modes  == {"serial", "parallel"}

\* Largest value the constructor accepts for maxConcurrency.
MAX_TOOL_BATCH_CONCURRENCY == 16

\* The configurations the constructor does not reject.
ValidConfig(mode, maxConcurrency) ==
  /\ mode \in Modes
  /\ maxConcurrency \in 1..MAX_TOOL_BATCH_CONCURRENCY

\* Calls i..j of items are one wave: a lone call, or the longest run of safe
\* calls from i that maxConcurrency admits.
IsWave(mode, maxConcurrency, items, i, j) ==
  /\ i \in 1..Len(items)
  /\ j \in i..Len(items)
  /\ \/ /\ mode = "serial" \/ items[i] = "unsafe"
        /\ j = i
     \/ /\ mode = "parallel"
        /\ \A k \in i..j : items[k] = "safe"
        /\ j - i + 1 <= maxConcurrency
        /\ \/ j - i + 1 = maxConcurrency
           \/ j = Len(items)
           \/ j < Len(items) /\ items[j + 1] = "unsafe"

-----------------------------------------------------------------------------
(* The planner's loop: `waves` is the closed waves, `open` the safe wave    *)
(* being filled.                                                            *)

\* flushSafeWave
Flush(acc) ==
  IF acc.open = <<>> THEN acc
  ELSE [waves |-> Append(acc.waves, acc.open), open |-> <<>>]

\* One iteration of the loop over the items, for position k.
PlanItem(maxConcurrency, items, acc, k) ==
  LET filled == [acc EXCEPT !.open = Append(@, k)]
  IN  IF items[k] = "unsafe"
      THEN [Flush(acc) EXCEPT !.waves = Append(@, <<k>>)]
      ELSE IF Len(filled.open) >= maxConcurrency THEN Flush(filled) ELSE filled

\* ToolBatchScheduler.plan: the waves, each the sequence of its positions.
plan(mode, maxConcurrency, items) ==
  LET acc[k \in 0..Len(items)] ==
        IF k = 0 THEN [waves |-> <<>>, open |-> <<>>]
        ELSE PlanItem(maxConcurrency, items, acc[k - 1], k)
  IN  IF mode = "serial" THEN [k \in 1..Len(items) |-> <<k>>]
      ELSE Flush(acc[Len(items)]).waves

=============================================================================
