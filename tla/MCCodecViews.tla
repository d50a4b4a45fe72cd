---------------------------- MODULE MCCodecViews ----------------------------
(* Two iterators over a short range, over every codec of MaxOwed + 1 states  *)
(* and every combination of the concepts a codec can model.                  *)
EXTENDS CodecViews

CONSTANTS a, b

MCCodecBytes == {<<>>, <<a>>, <<a, b>>}
=============================================================================
