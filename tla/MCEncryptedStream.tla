--------------------------- MODULE MCEncryptedStream ---------------------------
(* Small instance of EncryptedStream: blocks of two and of three bytes.     *)
EXTENDS EncryptedStream

TwoAndThree == [kEncXtea |-> 2, kEncAES |-> 3]
=============================================================================
