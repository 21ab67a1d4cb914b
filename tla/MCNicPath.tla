----------------------------- MODULE MCNicPath ------------------------------
(* On words of two bytes: a packet of two words, the last one half full,   *)
(* and one of three full words.                                            *)
EXTENDS NicPath

MCPacket == {<<"a", "b", "c">>, <<"d", "e", "f", "g", "h", "i">>}
=============================================================================
