--------------------------- MODULE MCLocateAnything ---------------------------
(***************************************************************************)
(* Boxes that are whole, points, empty, cut short, with a coordinate that  *)
(* was averaged away (zero), references with and without padding.          *)
(***************************************************************************)
EXTENDS LocateAnything

Coord(n) == [i \in 1 .. n |-> "coord"]

MCPrompts == {<<"text">>, <<"text", "text">>}

MCGuesses ==
  { <<"box">> \o Coord(4) \o <<"box_end">>,
    <<"box">> \o Coord(2) \o <<"box_end", "null", "null">>,
    <<"box", "none", "box_end", "null", "null", "null">>,
    <<"box">> \o Coord(4) \o <<"null">>,
    <<"box", "coord", "zero", "coord", "coord", "box_end">>,
    <<"box", "box_end", "coord", "coord", "coord", "box_end">>,
    <<"ref", "text", "ref_end", "ref_end", "null", "null">>,
    <<"ref", "text", "text", "text", "ref_end", "box">>,
    <<"null", "null", "null", "null", "null", "null">> }

MCSingles == {"coord", "none", "box_end", "im_end", "text"}
=============================================================================
