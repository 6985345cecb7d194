--------------------------- MODULE MCCommandHistory ---------------------------
(* Instance of CommandHistory for TLC: three commands of which two are     *)
(* kept, characters of one and three bytes, a cap that cuts through one.   *)
EXTENDS CommandHistory

MCChunks == {<<1>>, <<1, 4>>}
MCLimits == {1, 9}
===============================================================================
