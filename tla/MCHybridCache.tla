----------------------------- MODULE MCHybridCache -----------------------------
(***************************************************************************)
(* Prompts of one to six text tokens, which fill no chunk, one, two or a   *)
(* chunk and a part, and prompts with one or two images.                   *)
(***************************************************************************)
EXTENDS HybridCache

A == [grid |-> << >>, embed |-> [q |-> <<1, 0>>, k |-> <<1, 0>>, v |-> 1, beta |-> 1, decay |-> -1]]
B == [grid |-> << >>, embed |-> [q |-> <<1, 1>>, k |-> <<1, 1>>, v |-> 2, beta |-> -1, decay |-> 1]]
Image(h, w) == [grid |-> <<h, w>>, embed |-> [q |-> <<0, 1>>, k |-> <<0, 1>>, v |-> 1, beta |-> 1, decay |-> 2]]

MCWeights    == <<1, -1, 1>>
MCTexts      == {A, B}
MCImages     == {Image(2, 6), Image(5, 2), Image(2, 4)}
MCPrompts    == {[i \in 1 .. n |-> IF i % 2 = 0 THEN A ELSE B] : n \in {1, 2, 3, 5, 6}}
                \cup {<<A, Image(2, 6), B>>, <<Image(5, 2), A, Image(2, 4), B>>}
MCExtensions == {<<A, B>>}
=============================================================================
