------------------------------- MODULE RopeIndex -------------------------------
(***************************************************************************)
(* get_rope_index of examples/Qwen3_5/python/modeling_qwen3_5.py: the      *)
(* temporal, height and width position of every token of a prompt of text  *)
(* and images.  A prompt is a sequence of groups: a text token, or an      *)
(* image with the grid <<h, w>> of its patches, one frame of them.  Images *)
(* have text between them, as the chat template puts it; two without any   *)
(* would be one run of the code's groupby.  Video is not modelled.         *)
(***************************************************************************)
EXTENDS Integers, Sequences, FiniteSetsExt

CONSTANT MergeSize \* spatial_merge_size

IsImage(group) == group.grid # << >>

\* The tokens that the vision model makes of an image.
Size(group) ==
  IF IsImage(group) THEN (group.grid[1] \div MergeSize) * (group.grid[2] \div MergeSize) ELSE 1

\* get_vision_position_ids
VisionPositions(start, grid) ==
  LET h == grid[1] \div MergeSize
      w == grid[2] \div MergeSize
  IN [i \in 1 .. h * w |-> <<start, start + (i - 1) \div w, start + ((i - 1) % w)>>]

PositionStep(acc, group) ==
  IF IsImage(group)
  THEN [ids |-> acc.ids \o VisionPositions(acc.pos, group.grid),
        pos |-> acc.pos + Max({group.grid[1], group.grid[2]}) \div MergeSize]
  ELSE [ids |-> Append(acc.ids, <<acc.pos, acc.pos, acc.pos>>), pos |-> acc.pos + 1]

Positions(groups) ==
  LET acc[g \in 0 .. Len(groups)] ==
        IF g = 0 THEN [ids |-> << >>, pos |-> 0] ELSE PositionStep(acc[g-1], groups[g])
  IN acc[Len(groups)].ids

MaxPosition(ids) == Max(UNION {{ids[i][1], ids[i][2], ids[i][3]} : i \in DOMAIN ids})

\* Mutant: the text goes on with the last position.
get_rope_index_SameMax(groups) ==
  LET ids == Positions(groups)
  IN [ids |-> ids, delta |-> MaxPosition(ids) - Len(ids)]

\* get_rope_index: the positions, and mrope_position_deltas.
get_rope_index(groups) ==
  LET ids == Positions(groups)
  IN [ids |-> ids, delta |-> MaxPosition(ids) + 1 - Len(ids)]

\* Positions of text alone.
Arange(from, n) == [i \in 1 .. n |-> <<from + i - 1, from + i - 1, from + i - 1>>]

Shifted(ids, delta) == [i \in DOMAIN ids |-> <<ids[i][1] + delta, ids[i][2] + delta, ids[i][3] + delta>>]
=============================================================================
