----------------------------- MODULE MCTransfer -----------------------------
(* A small instance of Transfer for TLC: messages that fit in the kernels' *)
(* buffers at once, and ones that need two or three rounds.                *)
EXTENDS Transfer

MCLengths == {1, 3, 6}
=============================================================================
