---------------------------- MODULE MCAutoDecrypt -----------------------------
(***************************************************************************)
(* A tab that goes back and forth between an album, in which all photos but *)
(* one have a stored password, the page of a single photo, and a page of    *)
(* another kind with an image.                                              *)
(***************************************************************************)
EXTENDS AutoDecrypt

CONSTANTS album, photo, wall, AlbumSize

AllPages == {album, photo, wall}
MCKind == [p \in Pages |-> CASE p = album -> "album" [] p = photo -> "photo" [] OTHER -> "other"]
MCSize == [p \in Pages |-> CASE p = album -> AlbumSize [] OTHER -> 1]
MCKnown == [p \in Pages |-> IF p = album THEN 2..AlbumSize ELSE {1}]
===============================================================================
