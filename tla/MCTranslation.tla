---------------------------- MODULE MCTranslation ----------------------------
(* A TLC instance of Translation: a page of one text.                      *)
EXTENDS Translation

OneLine == {<<"x">>}
=============================================================================
