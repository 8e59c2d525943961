-------------------------- MODULE DatasetPublication -------------------------
(* What an upload promises to whoever reads the dataset from the object      *)
(* store: chunks come before the index that lists them, the index before the *)
(* metadata, and everything before the dataset is marked SUCCESS.  Objects   *)
(* are never taken back, and the index is published once.                    *)
EXTENDS Naturals, Sequences, FiniteSets

CONSTANTS
  Archive,       \* sequence of the content hashes of the archive's chunks
  Hashes,        \* content hashes of chunks
  TailHash       \* hash of the partial chunk a truncated archive may end in

VARIABLES store, objects, index, size, status

remote == <<store, objects, index, size, status>>

\* The indices of the archive and of its truncations.
Truncated == {SubSeq(Archive, 1, n) : n \in 0..Len(Archive)}
Listings == Truncated
              \cup {Append(s, TailHash) : s \in Truncated \ {Archive}}

Init ==
  /\ store \in SUBSET Hashes
  /\ objects = {} /\ index = <<>> /\ size = 0
  /\ status = "CREATED"

StoreChunk(h) ==
  /\ store' = store \cup {h}
  /\ UNCHANGED <<objects, index, size, status>>

StoreIndex ==
  /\ "index" \notin objects
  /\ objects' = objects \cup {"index"}
  /\ index' \in {s \in Listings : \A i \in DOMAIN s : s[i] \in store}
  /\ UNCHANGED <<store, size, status>>

StoreMetadata ==
  /\ objects = {"index"} /\ index = Archive
  /\ objects' = objects \cup {"metadata"}
  /\ size' = Len(Archive)
  /\ UNCHANGED <<store, index, status>>

KeepAlive ==
  /\ status = "CREATED" /\ status' = "UPLOADING"
  /\ UNCHANGED <<store, objects, index, size>>

Succeed ==
  /\ "metadata" \in objects
  /\ status' = "SUCCESS"
  /\ UNCHANGED <<store, objects, index, size>>

Next == \/ \E h \in Hashes \cup {TailHash} : StoreChunk(h)
        \/ StoreIndex \/ StoreMetadata \/ KeepAlive \/ Succeed

Spec == Init /\ [][Next]_remote

\* A reader that sees SUCCESS can read the whole archive: the index it finds
\* is the archive's, every key listed resolves and the size is right.
SuccessMeansReadable ==
  status = "SUCCESS" =>
    /\ objects = {"index", "metadata"}
    /\ index = Archive /\ size = Len(Archive)
    /\ \A i \in DOMAIN index : index[i] \in store
=============================================================================
