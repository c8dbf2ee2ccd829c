------------------------------- MODULE MCTmin -------------------------------
(* '!' = 33 and '0' = 48 lie in the part of alpha_map that is cleared between *)
(* passes, 'a' = 97 and 'b' = 98 do not.                                     *)
EXTENDS Tmin
MCFiles == {<<97>>, <<97, 48, 98>>, <<97, 97, 33>>, <<97, 97, 98, 33>>}
=============================================================================
