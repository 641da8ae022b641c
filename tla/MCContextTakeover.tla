------------------------- MODULE MCContextTakeover -------------------------
(* Payloads for ContextTakeover, around a window of three bytes: empty,    *)
(* short, as long as the window, longer.                                   *)
EXTENDS ContextTakeover

SmallPayloads == {<<>>, <<0>>, <<1, 0>>, <<0, 1, 1>>, <<1, 0, 0, 1>>}
=============================================================================
