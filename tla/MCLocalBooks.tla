---------------------------- MODULE MCLocalBooks ----------------------------
(* Two metrics on the lower side, so that its best one can jump, and one on  *)
(* the upper side.                                                           *)
EXTENDS LocalBooks

MCLevels == {<<"lower", 1>>, <<"lower", 2>>, <<"upper", 3>>}
=============================================================================
