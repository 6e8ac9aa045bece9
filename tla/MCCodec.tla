------------------------------ MODULE MCCodec ------------------------------
(* StorageCodec for TLC: every value over two integers of each width, with *)
(* keys and signatures of different lengths.                               *)
EXTENDS StorageCodec
=============================================================================
