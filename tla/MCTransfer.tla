------------------------------ MODULE MCTransfer ------------------------------
(* A small instance of Transfer for TLC.                                    *)
EXTENDS Transfer

CONSTANTS k1, k2

\* Two pairs of chunks have the same content.
MCKey == <<k1, k2, k2, k1>>
=============================================================================
