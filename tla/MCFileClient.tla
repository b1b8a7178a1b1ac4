----------------------------- MODULE MCFileClient -----------------------------
(* The small instance of FileClient: two manifests or files of different    *)
(* lengths, each in one or more messages.                                   *)
EXTENDS FileClient

MCTotal == <<3, 2>>
=============================================================================
