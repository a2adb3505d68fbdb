--------------------------- MODULE ArtifactStore ----------------------------
(***************************************************************************)
(* The artifacts of one execution (runtime/execution-artifact-store-       *)
(* service.ts): what is registered, in insertion order, how far its upload *)
(* is, and what the store on the other side holds.                         *)
(* Abstracted: paths, object keys, headers, the bytes.                     *)
(***************************************************************************)
EXTENDS Naturals, Sequences, SequencesExt

CONSTANT MaxUploadFaults    \* bound: the uploads that are refused or fail

VARIABLES
    storeMode,      \* "local", "catalog" (no endpoint), "no-token" or "remote"
    stored,         \* the keys of the artifacts Map, in insertion order
    upload,         \* of each: undefined, pending, uploaded, skipped or failed
    flushing,       \* the artifacts flushUploads has still to look at
    sent,           \* what the remote store has received
    faults          \* how often it refused or failed

storeVars == <<stored, upload, flushing, sent, faults>>

StoreMode == {"local", "catalog", "no-token", "remote"}

\* A key that is set anew keeps its place in a Map.
SetAll(keys, ids) ==
    LET Set(map, a) == IF a \in Range(map) THEN map ELSE Append(map, a)
    IN  FoldLeft(Set, keys, ids)

\* A record registered anew starts over.
RegisterArtifacts(ids) ==
    LET initial == IF storeMode = "local" THEN "undefined" ELSE "pending"
    IN  /\ stored' = SetAll(stored, ids)
        /\ upload' = [a \in Range(stored) \cup Range(ids) |->
                         IF a \in Range(ids) THEN initial ELSE upload[a]]

\* flushUploads: without ids, everything registered so far.
BeginFlush(ids) == flushing' = ids

Settle(status) ==
    /\ upload' = [upload EXCEPT ![Head(flushing)] = status]
    /\ flushing' = Tail(flushing)
    /\ UNCHANGED <<storeMode, stored>>

\* Nothing to wait for: the whole loop is one step.
FlushWithoutUpload ==
    /\ flushing # <<>> /\ storeMode # "remote"
    /\ LET status == IF storeMode = "no-token" THEN "failed" ELSE "skipped"
       IN  upload' = [a \in DOMAIN upload |-> IF a \in Range(flushing) THEN status ELSE upload[a]]
    /\ flushing' = <<>>
    /\ UNCHANGED <<storeMode, stored, sent, faults>>

UploadAccepted ==
    /\ flushing # <<>> /\ storeMode = "remote"
    /\ Settle("uploaded")
    /\ sent' = sent \cup {Head(flushing)}
    /\ UNCHANGED faults

\* Mutant of UploadRefused: the status of the response is not looked at.
UploadRefusedUnseen ==
    /\ flushing # <<>> /\ storeMode = "remote" /\ faults < MaxUploadFaults
    /\ Settle("uploaded")
    /\ faults' = faults + 1
    /\ UNCHANGED sent

UploadRefused ==
    /\ flushing # <<>> /\ storeMode = "remote" /\ faults < MaxUploadFaults
    /\ Settle("failed")
    /\ faults' = faults + 1
    /\ UNCHANGED sent

\* fetch rejects: the server is not reachable, and flushUploads throws; the
\* server may have taken the file all the same.
UploadBreaks ==
    /\ flushing # <<>> /\ storeMode = "remote" /\ faults < MaxUploadFaults
    /\ faults' = faults + 1
    /\ sent' \in {sent, sent \cup {Head(flushing)}}
    /\ flushing' = <<>>
    /\ UNCHANGED <<storeMode, stored, upload>>

FlushStep == FlushWithoutUpload \/ UploadAccepted \/ UploadRefused

StoreInit ==
    /\ storeMode \in StoreMode
    /\ stored = <<>> /\ upload = <<>>
    /\ flushing = <<>>
    /\ sent = {} /\ faults = 0
=============================================================================
