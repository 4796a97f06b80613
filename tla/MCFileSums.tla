----------------------------- MODULE MCFileSums -----------------------------
(***************************************************************************)
(* Three names, two files and a directory; a rotation of two names and the *)
(* creation of the first anew take three changes.                          *)
(***************************************************************************)
EXTENDS FileSums

MCNames == 1..3
=============================================================================
