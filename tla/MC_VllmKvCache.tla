--------------------------- MODULE MC_VllmKvCache ---------------------------
(* Two requests with the same prompt on different routes, and a third that  *)
(* shares the first block.                                                  *)
EXTENDS VllmKvCache, TLC

CONSTANTS a1, a2, b1, rA, rB

MCRouteOf == a1 :> rA @@ a2 :> rA @@ b1 :> rB
MCPromptOf == a1 :> <<"s", "t">> @@ a2 :> <<"s">> @@ b1 :> <<"s", "t">>
=============================================================================
