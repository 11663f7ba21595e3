-------------------------------- MODULE MCPane --------------------------------
EXTENDS PanePump

(* A child that writes one-byte characters and lines. *)
Ascii == {<<"a">>, <<"n">>}

(* A child that also writes a two-byte character, whole. *)
Multibyte == {<<"a">>, <<"n">>, <<"l", "t">>}
=============================================================================
