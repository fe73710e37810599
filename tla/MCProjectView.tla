----------------------------- MODULE MCProjectView -----------------------------
(***************************************************************************)
(* Instances of ProjectView for TLC.                                       *)
(***************************************************************************)
EXTENDS ProjectView

CONSTANTS d1, d2, l1, l2

Has(s1, s2) == [d \in Docs |-> IF d = d1 THEN s1 ELSE s2]

\* The same content is there already.
Uploading  == [does |-> {"worker", "upload", "stopUpload"}, has |-> Has("none", "done"), faults |-> 0]
\* Two deletes of one document, and the worker is down.
Deleting   == [does |-> {"delete", "undo", "showTab"}, has |-> Has("done", "none"), faults |-> 1]
Failing    == [does |-> {"worker", "delete", "deleteFault"}, has |-> Has("pending", "none"), faults |-> 1]
Cancelling == [does |-> {"worker", "cancel", "fetchFault"}, has |-> Has("pending", "none"), faults |-> 1]
Streaming  == [does |-> {"worker", "streamFault", "showTab"}, has |-> Has("pending", "none"), faults |-> 1]
Renewing   == [does |-> {"worker", "renewToken"}, has |-> Has("pending", "none"), faults |-> 0]
Retrying   == [does |-> {"renewToken", "showTab", "streamFault"}, has |-> Has("done", "none"), faults |-> 2]
Visits == {Uploading, Deleting, Failing, Cancelling, Streaming, Renewing, Retrying}

=============================================================================
