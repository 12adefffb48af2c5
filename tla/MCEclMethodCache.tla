-------------------------- MODULE MCEclMethodCache --------------------------
(* EclMethodCache for TLC: three keys of two functions, whose probes       *)
(* overlap.                                                                *)
EXTENDS EclMethodCache

CONSTANTS gf1, gf2, ka, kb, kc

MCKey == {ka, kb, kc}
MCGfOf == [k \in MCKey |-> IF k = kc THEN gf2 ELSE gf1]
MCHash == [k \in MCKey |-> IF k = kb THEN 1 ELSE 0]
MCMaxVersion == [f \in {gf1, gf2} |-> 1]
=============================================================================
