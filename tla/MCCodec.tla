------------------------------ MODULE MCCodec ------------------------------
(***************************************************************************)
(* Bytes of six values, enough for the opcodes: numbers whose two bytes    *)
(* differ, empty and short texts, blocks with zeros in them.               *)
(***************************************************************************)
EXTENDS Codec

MCTexts == {<< >>, <<1>>}
MCNumbers == {0, 1, 8}
MCPayloads == {<< >>, <<0>>, <<2, 0>>, <<4, 0, 1>>}
=============================================================================
