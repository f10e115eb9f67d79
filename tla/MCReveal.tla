------------------------------- MODULE MCReveal -------------------------------
(***************************************************************************)
(* Two photos with different passwords.  One page of an album shows both; a *)
(* page of another album, or of none, or one on which getAlbumName throws,  *)
(* shows the second.                                                        *)
(***************************************************************************)
EXTENDS Reveal

CONSTANTS x, y, z, p1, p2, a, b, k1, k2

MCPages == {x, y, z}
MCOnPage == [p \in MCPages |-> IF p = x THEN {p1, p2} ELSE {p2}]
MCAlbumOf == [p \in MCPages |-> IF p = x THEN a ELSE IF p = y THEN b ELSE Throws]
MCKey == [f \in {p1, p2} |-> IF f = p1 THEN k1 ELSE k2]
===============================================================================
