---------------------------- MODULE AgentLoopMC ----------------------------
(***************************************************************************)
(* Values for the constants of AgentLoop that a .cfg cannot write.         *)
(***************************************************************************)
EXTENDS AgentLoop

\* No tool, one unsafe tool, a safe pair, and a pair of safe tools after an
\* unsafe one: every kind of wave and a batch of two waves.
MCBatches ==
  {<<>>, <<"unsafe">>, <<"safe", "safe">>, <<"unsafe", "safe", "safe">>}

\* The planner and IsWave agree on every batch of up to six calls, in both
\* modes and for every width up to four: each call is in one wave, in order,
\* and each wave is the interval IsWave allows from its first position.
SmallBatches == UNION {[1..n -> Safety] : n \in 0..6}

ASSUME PlanMatchesIsWave ==
  \A mode \in Modes, width \in 1..4, items \in SmallBatches :
    LET waves == plan(mode, width, items)
    IN  /\ FlattenSeq(waves) = [k \in 1..Len(items) |-> k]
        /\ \A w \in 1..Len(waves) : \A j \in 1..Len(items) :
              IsWave(mode, width, items, waves[w][1], j) <=> j = waves[w][Len(waves[w])]

=============================================================================
