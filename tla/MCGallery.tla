----------------------------- MODULE MCGallery -----------------------------
(***************************************************************************)
(* Two assets of the same photograph, as two devices sync it.              *)
(***************************************************************************)
EXTENDS Gallery

MCContentOf == <<"x", "x">>
============================================================================
