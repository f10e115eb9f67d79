------------------------------ MODULE MCBacchant ------------------------------
(***************************************************************************)
(* Encoded images.  A payload has at least 65 characters: 32 of the MD5     *)
(* sum, 22 of the initialization vector, 11 of the salt.                    *)
(***************************************************************************)
EXTENDS Bacchant

CONSTANTS FirstLength, LastLength

MCLengths == FirstLength..LastLength
\* A letter in the first and in the last place, a smaller length, 0, one that is too large.
MCMisreads == {<<0, 1>>, <<905, 8>>, <<70, 9>>, <<0, 9>>, <<MaxLength, 9>>}
Landscape == {<<3, 1>>, <<7, 2>>, <<4, 1>>}
Flat == {<<12, 1>>, <<20, 1>>}
AllShapes == {<<1, 2>>, <<3, 4>>, <<1, 1>>, <<4, 3>>, <<2, 1>>} \cup Landscape \cup Flat
===============================================================================
