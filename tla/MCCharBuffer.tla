---------------------------- MODULE MCCharBuffer ----------------------------
(* A buffer of three characters, two separators and one other character.     *)
EXTENDS CharBuffer
=============================================================================
