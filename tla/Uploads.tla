------------------------------- MODULE Uploads -------------------------------
(***************************************************************************)
(* A chunked upload (panel/api_file.go): the chunks of one upload           *)
(* identifier are files of one temporary directory, mergeChunks writes them *)
(* one after the other into the destination and removes the directory.  No  *)
(* lock and no record says which requests of an upload are running.         *)
(*                                                                          *)
(* A chunk is empty from its os.Create until its content is copied.  The    *)
(* destination is one slot per chunk: what a merge wrote at its offset.     *)
(***************************************************************************)
EXTENDS Naturals, Sequences

CONSTANTS
  TotalChunks,  \* the chunks of the file the client uploads
  Senders,      \* the requests that may be in flight together
  UploadUses    \* the environments: see UploadUseType

(* overlap: a merge runs beside other requests of the upload; again: a      *)
(* merge is repeated after it succeeded; resume: the client trusts          *)
(* uploadChunkStatus; full: writes may fail.                                *)
UploadUseType == [overlap : BOOLEAN, again : BOOLEAN, resume : BOOLEAN, full : BOOLEAN]

ASSUME ChunksAreCounted == TotalChunks \in Nat \ {0}
ASSUME UploadUsesAreTyped == UploadUses \subseteq UploadUseType

VARIABLES
  chunks,    \* the files chunk_0, chunk_1, ... of the upload
  target,    \* the destination file
  sending,   \* what each request does: step, chunk, and whether the chunk
             \*   it writes is still in the directory
  sent,      \* the chunks the client knows to be there
  merged,    \* the merge was answered with success
  uploadUse

uploadVars == <<chunks, target, sending, sent, merged, uploadUse>>

Indices == 0..(TotalChunks - 1)
Slot == {"hole", "empty", "whole"}
Waiting == [at |-> "idle", index |-> 0, linked |-> FALSE]

UploadTypeOK ==
  /\ chunks \in [Indices -> {"none", "empty", "whole"}]
  /\ target \in UNION {[1..n -> Slot] : n \in 0..TotalChunks}
  /\ sending \in [Senders -> [at : {"idle", "create", "fill", "open", "merge", "clear"},
                              index : 0..TotalChunks, linked : BOOLEAN]]
  /\ sent \subseteq Indices
  /\ merged \in BOOLEAN
  /\ uploadUse \in UploadUses

UploadInit ==
  /\ chunks = [i \in Indices |-> "none"]
  /\ target = <<>>
  /\ sending = [s \in Senders |-> Waiting]
  /\ sent = {} /\ merged = FALSE
  /\ uploadUse \in UploadUses

Is(s, step) == sending[s].at = step
Proceed(s, step) == sending' = [sending EXCEPT ![s].at = step]
Reply(s) == sending' = [sending EXCEPT ![s] = Waiting]
Merging == \E s \in Senders : sending[s].at \in {"open", "merge", "clear"}
Quiet == \A s \in Senders : Is(s, "idle")

-----------------------------------------------------------------------------
(* uploadChunk.  The client may send a chunk again, answered or not.        *)
SendChunk(s, i) ==
  /\ Is(s, "idle") /\ ~ merged
  /\ uploadUse.overlap \/ ~ Merging
  /\ sending' = [sending EXCEPT ![s] = [at |-> "create", index |-> i, linked |-> TRUE]]
  /\ UNCHANGED <<chunks, target, sent, merged, uploadUse>>

CreateChunk(s) ==
  /\ Is(s, "create")
  /\ chunks' = [chunks EXCEPT ![sending[s].index] = "empty"]
  /\ Proceed(s, "fill")
  /\ UNCHANGED <<target, sent, merged, uploadUse>>

(* The copy goes to the file that was opened, be it removed or not.  While  *)
(* another request writes the same chunk it may have been emptied again.    *)
FillsToo(s) == \E o \in Senders \ {s} : Is(o, "fill") /\ sending[o] = sending[s]

FillChunk(s) ==
  /\ Is(s, "fill")
  /\ \E slot \in {"whole"} \cup (IF FillsToo(s) THEN {"empty"} ELSE {}) :
       chunks' = IF sending[s].linked THEN [chunks EXCEPT ![sending[s].index] = slot] ELSE chunks
  /\ sent' = sent \cup {sending[s].index}
  /\ Reply(s)
  /\ UNCHANGED <<target, merged, uploadUse>>

(* The copy fails, what there is of the chunk stays.                        *)
ChunkFails(s) ==
  /\ Is(s, "fill") /\ uploadUse.full
  /\ sent' = sent \ {sending[s].index}
  /\ Reply(s)
  /\ UNCHANGED <<chunks, target, merged, uploadUse>>

(* uploadChunkStatus lists the files there are, complete or not.            *)
Status ==
  /\ uploadUse.resume
  /\ sent' = {i \in Indices : chunks[i] # "none"}
  /\ UNCHANGED <<chunks, target, sending, merged, uploadUse>>

-----------------------------------------------------------------------------
(* mergeChunks: the client asks for it too early, repeats it when it was    *)
(* told that a chunk is missing.                                            *)
Merge(s) ==
  /\ Is(s, "idle")
  /\ uploadUse.overlap \/ Quiet
  /\ uploadUse.again \/ ~ merged
  /\ Proceed(s, "open")
  /\ UNCHANGED <<chunks, target, sent, merged, uploadUse>>

OpenTarget(s) ==
  /\ Is(s, "open")
  /\ target' = <<>>
  /\ sending' = [sending EXCEPT ![s] = [at |-> "merge", index |-> 0, linked |-> FALSE]]
  /\ UNCHANGED <<chunks, sent, merged, uploadUse>>

(* Mutant: what is written goes to the end of the file. *)
Appended(file, i, slot) == Append(file, slot)

(* What is written at offset i of a file, of which another request may have *)
(* written more or that it may have emptied.                                *)
Written(file, i, slot) ==
  [j \in 1..(IF Len(file) > i THEN Len(file) ELSE i + 1) |->
     IF j = i + 1 THEN slot ELSE IF j <= Len(file) THEN file[j] ELSE "hole"]

(* The error of a write is not looked at.                                   *)
MergeChunk(s) ==
  /\ Is(s, "merge") /\ sending[s].index < TotalChunks
  /\ chunks[sending[s].index] # "none"
  /\ \E slot \in {chunks[sending[s].index]} \cup (IF uploadUse.full THEN {"hole"} ELSE {}) :
       target' = Written(target, sending[s].index, slot)
  /\ sending' = [sending EXCEPT ![s].index = @ + 1]
  /\ UNCHANGED <<chunks, sent, merged, uploadUse>>

(* Mutant: the directory is removed whatever the merge came to. *)
MissingCleared(s) ==
  /\ Is(s, "merge") /\ sending[s].index < TotalChunks
  /\ chunks[sending[s].index] = "none"
  /\ chunks' = [i \in Indices |-> "none"]
  /\ Reply(s)
  /\ UNCHANGED <<target, sent, merged, uploadUse>>

(* "Missing chunk": the destination keeps what was written so far.          *)
MissingChunk(s) ==
  /\ Is(s, "merge") /\ sending[s].index < TotalChunks
  /\ chunks[sending[s].index] = "none"
  /\ Reply(s)
  /\ UNCHANGED <<chunks, target, sent, merged, uploadUse>>

(* RemoveAll, also of the chunks that are being written.                    *)
ClearChunks(s) ==
  /\ Is(s, "merge") /\ sending[s].index = TotalChunks
  /\ chunks' = [i \in Indices |-> "none"]
  /\ sending' = [o \in Senders |-> IF o = s THEN Waiting
                                   ELSE IF Is(o, "fill") THEN [sending[o] EXCEPT !.linked = FALSE]
                                   ELSE sending[o]]
  /\ merged' = TRUE
  /\ UNCHANGED <<target, sent, uploadUse>>

UploadNext ==
  \/ \E s \in Senders :
       \/ \E i \in Indices : SendChunk(s, i)
       \/ CreateChunk(s) \/ FillChunk(s) \/ ChunkFails(s)
       \/ Merge(s) \/ OpenTarget(s) \/ MergeChunk(s) \/ MissingChunk(s) \/ ClearChunks(s)
  \/ Status

UploadSpec == UploadInit /\ [][UploadNext]_uploadVars

-----------------------------------------------------------------------------
(***************************************************************************)
(* A client that does not merge beside other requests of its upload and     *)
(* does not merge again after a success can merge at any time, also too     *)
(* early, and may trust the status about the chunks that are there: what a  *)
(* successful merge leaves is the whole file, and after a refused one the   *)
(* chunks the client knows of are still there for the next (uploadChunk,    *)
(* uploadChunkStatus, mergeChunks).                                         *)
(***************************************************************************)
MergedWhole ==
  ~ (uploadUse.overlap \/ uploadUse.again \/ uploadUse.full) =>
    /\ merged => target = [j \in 1..TotalChunks |-> "whole"]
    /\ ~ merged => \A i \in sent : chunks[i] = "whole"
                     \/ \E s \in Senders : sending[s].index = i /\ Is(s, "fill")
=============================================================================
