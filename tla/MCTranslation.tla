--------------------------- MODULE MCTranslation ----------------------------
(* Names that could be mistaken for the lengths and separators around them. *)
EXTENDS Translation

MCNames == {<<>>, <<49>>, <<32>>, <<49, 32, 49>>, <<1, 49>>, [n \in 1 .. 11 |-> 48]}
MCLeftovers == {<<>>, <<49>>, <<32, 49>>}
=============================================================================
