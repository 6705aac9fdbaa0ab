-------------------------- MODULE MCMessageHandler --------------------------
(* One token of every kind, with the numbers at the edges of the four      *)
(* bytes and of the sign, and characters on either side of zero.           *)
EXTENDS MessageHandler

MCCodes == {1, 27}
MCInts == {-2147483647 - 1, -1, 0, 255, 65536, 2147483647}
MCTexts == {<<>>, <<-61, 10>>, <<97>>}
MCFormat == <<"code", "PAR_NUM", "PAR_STRING", "code">>

=============================================================================
