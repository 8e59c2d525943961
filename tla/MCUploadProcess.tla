--------------------------- MODULE MCUploadProcess ---------------------------
(* Small instances of UploadProcess for TLC.                                *)
EXTENDS UploadProcess, TLC

CONSTANTS k1, k2

\* The first and the last chunk have the same content.
MCKey3 == 1 :> k1 @@ 2 :> k2 @@ 3 :> k1

\* Both chunks have the same content.
MCKey2 == 1 :> k1 @@ 2 :> k1
=============================================================================
