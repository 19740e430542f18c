--------------------------- MODULE MCSftpCommands ---------------------------
(* SftpCommands on two names, with one mode, as a string and as a number, and one owner. *)
EXTENDS SftpCommands, TLC

OneMode == [string : BOOLEAN, high : {1}, low : {0}]
NameSymmetry == Permutations(Names)
=============================================================================
