------------------------------ MODULE MCRegAlloc ------------------------------
(* Two registers for four values: functions of up to two blocks of up to two     *)
(* instructions, with one to four operands.                                      *)
EXTENDS RegAlloc

CONSTANTS a, b, c, d, r1, r2

MCStack == <<r1, r2>>
Instructions == {<<a>>, <<a, b>>} \cup {<<v, b, w>> : v, w \in {a, b, c, d}}
                \cup {<<a, b, v, w>> : v, w \in {a, c, d}}
Blocks == {<<>>} \cup {<<i>> : i \in Instructions}
          \cup {<<i, j>> : i \in {<<a, b, c>>, <<c, a, d, c>>, <<b, d, a>>}, j \in Instructions}
MCFunctions == {<<>>} \cup {<<k>> : k \in Blocks}
          \cup {<<k, l>> : k \in Blocks, l \in {<<<<a, b, c, d>>>>, <<<<d, c, b>>, <<a>>>>}}
=============================================================================
