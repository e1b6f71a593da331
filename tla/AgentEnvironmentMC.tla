------------------------- MODULE AgentEnvironmentMC -------------------------
(***************************************************************************)
(* One built-in provider with the code's default model and one custom      *)
(* provider with two models, each switched on or off, complete or not.     *)
(***************************************************************************)
EXTENDS AgentEnvironment

CONSTANTS deepseek, custom

MCModels    == 1..3
MCProviders == {deepseek, custom}
MCBuiltIn   == {deepseek}
MCOwner     == [m \in MCModels |-> IF m = 3 THEN deepseek ELSE custom]

Offers(enabled, models) == [present |-> TRUE, enabled |-> enabled, models |-> models]

MCCatalogue ==
    [p \in MCProviders |->
        IF p = deepseek THEN {Offers(TRUE, {3}), Offers(FALSE, {3})}
        ELSE {Offers(TRUE, {1, 2}), Offers(FALSE, {1})}]

MCRegistries ==
    {[p \in MCProviders |-> IF p = deepseek THEN b ELSE c] :
        b \in MCCatalogue[deepseek],
        c \in {Absent, Offers(TRUE, {1, 2}), Offers(FALSE, {1})}}
=============================================================================
