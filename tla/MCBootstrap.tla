---------------------------- MODULE MCBootstrap ----------------------------
(***************************************************************************)
(* The instance of Bootstrap that TLC checks: of three tarballs the first  *)
(* and the last have the same size.                                        *)
(***************************************************************************)
EXTENDS Bootstrap

MCSize == <<1, 2, 1>>
=============================================================================
