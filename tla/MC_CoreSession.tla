--------------------------- MODULE MC_CoreSession ---------------------------
(* Two models with the same layer names, lists of layers in both orders, and *)
(* vectors with ties, zeros and both signs.                                  *)
EXTENDS CoreSession, TLC

CONSTANTS q1, q2, q3, rA, rB

MCPrompts == {<<"q">>, <<"p", "q">>}
MCTokenCount == [p |-> 2, q |-> 1]
MCLayerLists == {<<"l0", "l1">>, <<"l1", "l0">>, <<"l1">>}

MCVectors == {<<a, b, c, d>> : a, b, c, d \in {-3, 0, 1, 2}}
\* Scales that vanish, that are below and that are in the normal range of a
\* float16, and a narrow row far from zero.
MCBlocks == MCVectors \X {1, 2^10, 2^17, 2^20} \union {<<<<4099, 4100, 4100, 4099>>, 1>>}
MCRatios == {<<0, 1>>, <<1, 5>>, <<1, 2>>, <<9, 10>>}
MCPlans == {<<<<a, b>>, <<c, d>>, <<e, f>>>> : a, b, c, d, e, f \in 0..1}
MCCosts == {<<<<0, 1>>, <<1, 0>>, <<1, 1>>>>, <<<<1, 0>>, <<1, 0>>, <<0, 1>>>>}
MCSigmas == {<<9>>, <<9, 5>>, <<9, 4, 5>>, <<0, 0>>, <<2, 1, 1>>}

MCModules == {[class |-> "attention", gated |-> FALSE], [class |-> "mlp", gated |-> TRUE],
              [class |-> "down", gated |-> FALSE], [class |-> "default", gated |-> FALSE]}
MCTexts == UNION {[1..n -> {"sql", "fence", "select", "stop", "semi", "text"}] : n \in 0..4}

MCMockRoute == q1 :> rA @@ q2 :> rB @@ q3 :> rA
=============================================================================
