----------------------------- MODULE MCEncoder -----------------------------
(* Four images, two of which are named alike but for the suffix; one is as *)
(* large as the zip file may be, one larger, one cannot be read; a file is *)
(* no image.                                                               *)
EXTENDS Encoder

MCFile == {"a.png", "a.jpg", "b.png", "large.png", "huge.png", "broken.png", "notes.txt"}
MCImages == MCFile \ {"notes.txt"}
MCUnreadable == {"broken.png"}
MCNewName == [f \in MCFile |->
                CASE f \in {"a.png", "a.jpg"} -> "a.cryptagram.jpg"
                  [] f = "b.png" -> "b.cryptagram.jpg"
                  [] OTHER -> f]
MCSize == [f \in MCFile |-> CASE f = "large.png" -> 3 [] f = "huge.png" -> 4 [] OTHER -> 1]

MCSelections ==
  {<<"a.png">>, <<"notes.txt">>, <<"huge.png", "b.png">>, <<"b.png", "broken.png", "a.png">>,
   <<"a.jpg", "notes.txt", "b.png">>, <<"a.png", "large.png">>, <<"a.png", "a.jpg", "b.png">>,
   <<"b.png", "a.png", "large.png", "a.jpg">>}
=============================================================================
