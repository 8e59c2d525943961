-------------------------- MODULE MCDownloadProcess --------------------------
(* Small instances of DownloadProcess for TLC.                              *)
EXTENDS DownloadProcess

CONSTANTS h1, h2

\* The first and the last chunk have the same content.
MCArchive3 == <<h1, h2, h1>>
MCArchive2 == <<h1, h2>>
=============================================================================
