----------------------------- MODULE Panel_proofs -----------------------------
(* Proofs about the services of the panel that keep their own state.        *)
EXTENDS MCPanel, TLAPS

-----------------------------------------------------------------------------
(***************************************************************************)
(* Chunked uploads.                                                         *)
(***************************************************************************)

Sending == [at : {"idle", "create", "fill", "open", "merge", "clear"},
            index : 0..TotalChunks, linked : BOOLEAN]

\* A chunk that is being written is one of the upload.
IndexInv == \A s \in Senders : sending[s].at \in {"create", "fill"} => sending[s].index \in Indices

LEMMA WaitingIsTyped == Waiting \in Sending /\ Waiting.at = "idle" /\ Waiting.index = 0
BY ChunksAreCounted DEF Waiting, Sending

\* What one request does leaves the others where they are.
LEMMA OneSends ==
  ASSUME UploadTypeOK, NEW s \in Senders, NEW r \in Sending, sending' = [sending EXCEPT ![s] = r]
  PROVE  /\ sending' \in [Senders -> Sending] /\ sending'[s] = r
         /\ \A o \in Senders : o # s => sending'[o] = sending[o]
BY DEF UploadTypeOK, Sending

LEMMA ReplyMoves ==
  ASSUME UploadTypeOK, NEW s \in Senders, Reply(s)
  PROVE  /\ sending' \in [Senders -> Sending] /\ sending'[s] = Waiting
         /\ \A o \in Senders : o # s => sending'[o] = sending[o]
BY WaitingIsTyped, OneSends DEF Reply

LEMMA ProceedMoves ==
  ASSUME UploadTypeOK, NEW s \in Senders, NEW step \in {"fill", "open"}, Proceed(s, step)
  PROVE  /\ sending' \in [Senders -> Sending] /\ sending'[s].at = step
         /\ sending'[s].index = sending[s].index /\ sending'[s].linked = sending[s].linked
         /\ \A o \in Senders : o # s => sending'[o] = sending[o]
BY DEF Proceed, UploadTypeOK, Sending

LEMMA SendMoves ==
  ASSUME UploadTypeOK, NEW s \in Senders, NEW i \in Indices,
         sending' = [sending EXCEPT ![s] = [at |-> "create", index |-> i, linked |-> TRUE]]
  PROVE  /\ sending' \in [Senders -> Sending] /\ sending'[s].at = "create"
         /\ sending'[s].index = i /\ sending'[s].linked
         /\ \A o \in Senders : o # s => sending'[o] = sending[o]
<1>1. [at |-> "create", index |-> i, linked |-> TRUE] \in Sending
  BY ChunksAreCounted DEF Sending, Indices
<1> QED
  BY <1>1, OneSends

LEMMA OpenMoves ==
  ASSUME UploadTypeOK, NEW s \in Senders, OpenTarget(s)
  PROVE  /\ sending' \in [Senders -> Sending] /\ sending'[s].at = "merge" /\ sending'[s].index = 0
         /\ \A o \in Senders : o # s => sending'[o] = sending[o]
<1>1. [at |-> "merge", index |-> 0, linked |-> FALSE] \in Sending
  BY ChunksAreCounted DEF Sending
<1> QED
  BY <1>1, OneSends DEF OpenTarget

LEMMA MergeMoves ==
  ASSUME UploadTypeOK, NEW s \in Senders, MergeChunk(s)
  PROVE  /\ sending' \in [Senders -> Sending] /\ sending'[s].at = "merge"
         /\ sending'[s].index = sending[s].index + 1
         /\ \A o \in Senders : o # s => sending'[o] = sending[o]
<1>1. sending[s].index + 1 \in 0..TotalChunks
  BY ChunksAreCounted DEF MergeChunk, UploadTypeOK
<1>2. sending' = [sending EXCEPT ![s].index = @ + 1] /\ sending[s].at = "merge"
  BY DEF MergeChunk, Is
<1> QED
  BY <1>1, <1>2 DEF UploadTypeOK, Sending

\* What a merge writes, at the end of the file or within it.
LEMMA WrittenIsTyped ==
  ASSUME NEW n \in 0..TotalChunks, NEW file \in [1..n -> Slot], NEW i \in Indices, NEW slot \in Slot
  PROVE  /\ Written(file, i, slot) \in UNION {[1..m -> Slot] : m \in 0..TotalChunks}
         /\ n = i => /\ Written(file, i, slot) \in [1..(i + 1) -> Slot]
                     /\ Written(file, i, slot)[i + 1] = slot
                     /\ \A j \in 1..i : Written(file, i, slot)[j] = file[j]
<1>1. Len(file) = n
  BY ChunksAreCounted
<1> DEFINE m == IF n > i THEN n ELSE i + 1
<1>2. m \in 0..TotalChunks /\ i + 1 \in Nat /\ n \in Nat
  BY ChunksAreCounted DEF Indices
<1>3. Written(file, i, slot) = [j \in 1..m |-> IF j = i + 1 THEN slot ELSE IF j <= n THEN file[j] ELSE "hole"]
  BY <1>1 DEF Written
<1>4. Written(file, i, slot) \in [1..m -> Slot]
  BY <1>2, <1>3 DEF Slot
<1>5. n = i => m = i + 1
  BY <1>2
<1> QED
  BY <1>2, <1>3, <1>4, <1>5

\* Every state of an upload is well typed, and the chunks written are those of the upload.
THEOREM UploadsTyping == UploadSpec => [](UploadTypeOK /\ IndexInv)
<1> USE ChunksAreCounted, UploadUsesAreTyped
<1>1. UploadInit => UploadTypeOK /\ IndexInv
  <2> SUFFICES ASSUME UploadInit PROVE UploadTypeOK /\ IndexInv
    OBVIOUS
  <2>1. target \in [1..0 -> Slot]
    BY DEF UploadInit
  <2>2. target \in UNION {[1..n -> Slot] : n \in 0..TotalChunks}
    BY <2>1
  <2>3. sending \in [Senders -> Sending] /\ IndexInv
    BY WaitingIsTyped DEF UploadInit, IndexInv
  <2> QED
    BY <2>2, <2>3 DEF UploadInit, UploadTypeOK, Sending
<1>2. UploadTypeOK /\ IndexInv /\ [UploadNext]_uploadVars => UploadTypeOK' /\ IndexInv'
  <2> SUFFICES ASSUME UploadTypeOK, IndexInv, [UploadNext]_uploadVars PROVE UploadTypeOK' /\ IndexInv'
    OBVIOUS
  <2>1. ASSUME NEW s \in Senders, NEW i \in Indices, SendChunk(s, i) PROVE UploadTypeOK' /\ IndexInv'
    <3>1. sending' = [sending EXCEPT ![s] = [at |-> "create", index |-> i, linked |-> TRUE]]
      BY <2>1 DEF SendChunk
    <3>2. sending' \in [Senders -> Sending] /\ IndexInv'
      BY <3>1, SendMoves DEF IndexInv
    <3> QED
      BY <2>1, <3>2 DEF SendChunk, UploadTypeOK, Sending
  <2>2. ASSUME NEW s \in Senders, CreateChunk(s) PROVE UploadTypeOK' /\ IndexInv'
    BY <2>2, ProceedMoves DEF CreateChunk, Is, UploadTypeOK, IndexInv, Sending
  <2>3. ASSUME NEW s \in Senders, FillChunk(s) PROVE UploadTypeOK' /\ IndexInv'
    <3>1. sending[s].index \in Indices
      BY <2>3 DEF FillChunk, Is, IndexInv
    <3>2. chunks' \in [Indices -> {"none", "empty", "whole"}]
      BY <2>3 DEF FillChunk, UploadTypeOK
    <3>3. sent' \subseteq Indices
      BY <2>3, <3>1 DEF FillChunk, UploadTypeOK
    <3> QED
      BY <2>3, <3>2, <3>3, ReplyMoves, WaitingIsTyped DEF FillChunk, UploadTypeOK, IndexInv, Sending
  <2>4. ASSUME NEW s \in Senders, ChunkFails(s) PROVE UploadTypeOK' /\ IndexInv'
    BY <2>4, ReplyMoves, WaitingIsTyped DEF ChunkFails, UploadTypeOK, IndexInv, Sending
  <2>5. ASSUME NEW s \in Senders, Merge(s) PROVE UploadTypeOK' /\ IndexInv'
    BY <2>5, ProceedMoves DEF Merge, UploadTypeOK, IndexInv, Sending
  <2>6. ASSUME NEW s \in Senders, OpenTarget(s) PROVE UploadTypeOK' /\ IndexInv'
    <3>1. target' \in [1..0 -> Slot]
      BY <2>6 DEF OpenTarget
    <3>2. target' \in UNION {[1..n -> Slot] : n \in 0..TotalChunks}
      BY <3>1
    <3> QED
      BY <2>6, <3>2, OpenMoves DEF OpenTarget, UploadTypeOK, IndexInv, Sending
  <2>7. ASSUME NEW s \in Senders, MergeChunk(s) PROVE UploadTypeOK' /\ IndexInv'
    <3>1. sending[s].index \in Indices
      BY <2>7 DEF MergeChunk, UploadTypeOK, Indices
    <3>2. PICK slot \in {chunks[sending[s].index]} \cup (IF uploadUse.full THEN {"hole"} ELSE {}) :
            target' = Written(target, sending[s].index, slot)
      BY <2>7 DEF MergeChunk
    <3>3. slot \in Slot
      BY <2>7, <3>1, <3>2 DEF MergeChunk, UploadTypeOK, Slot
    <3>4. PICK n \in 0..TotalChunks : target \in [1..n -> Slot]
      BY DEF UploadTypeOK
    <3>5. target' \in UNION {[1..n1 -> Slot] : n1 \in 0..TotalChunks}
      BY <3>1, <3>2, <3>3, <3>4, WrittenIsTyped
    <3> QED
      BY <2>7, <3>5, MergeMoves DEF MergeChunk, UploadTypeOK, IndexInv, Sending
  <2>8. ASSUME NEW s \in Senders, MissingChunk(s) PROVE UploadTypeOK' /\ IndexInv'
    BY <2>8, ReplyMoves, WaitingIsTyped DEF MissingChunk, UploadTypeOK, IndexInv, Sending
  <2>9. ASSUME NEW s \in Senders, ClearChunks(s) PROVE UploadTypeOK' /\ IndexInv'
    <3>1. sending' \in [Senders -> Sending]
      BY <2>9, WaitingIsTyped DEF ClearChunks, UploadTypeOK, Sending
    <3>2. IndexInv'
      BY <2>9, WaitingIsTyped DEF ClearChunks, IndexInv, UploadTypeOK
    <3> QED
      BY <2>9, <3>1, <3>2 DEF ClearChunks, UploadTypeOK, Sending
  <2>10. ASSUME Status \/ UNCHANGED uploadVars PROVE UploadTypeOK' /\ IndexInv'
    BY <2>10 DEF Status, uploadVars, UploadTypeOK, IndexInv
  <2> QED
    BY <2>1, <2>2, <2>3, <2>4, <2>5, <2>6, <2>7, <2>8, <2>9, <2>10 DEF UploadNext
<1> QED
  BY <1>1, <1>2, PTL DEF UploadSpec

\* A client that merges beside no other request, merges once, and has room on the disk.
Solo == ~ (uploadUse.overlap \/ uploadUse.again \/ uploadUse.full)

\* A merge is alone; a chunk that is written is in the directory.
AloneInv ==
  /\ \A s, o \in Senders : sending[s].at \in {"open", "merge", "clear"} /\ o # s => Is(o, "idle")
  /\ \A s \in Senders : sending[s].at \in {"create", "fill"} => sending[s].linked
  /\ merged => Quiet

\* A chunk that is empty is being written, and one the client knows of is there.
ChunkInv ==
  /\ \A i \in Indices : chunks[i] = "empty" => \E s \in Senders : Is(s, "fill") /\ sending[s].index = i
  /\ ~ merged => \A i \in sent : chunks[i] # "none"

\* A merge has written what it has gone through, and all of it when it succeeds.
TargetInv ==
  /\ \A s \in Senders : Is(s, "merge") => target = [j \in 1..sending[s].index |-> "whole"]
  /\ merged => target = [j \in 1..TotalChunks |-> "whole"]

UploadInv == Solo => AloneInv /\ ChunkInv /\ TargetInv

LEMMA SendKeeps ==
  ASSUME UploadTypeOK, IndexInv, UploadInv, Solo, NEW s \in Senders, NEW i \in Indices, SendChunk(s, i)
  PROVE  AloneInv' /\ ChunkInv' /\ TargetInv'
<1>1. sending[s].at = "idle" /\ ~ merged /\ ~ Merging /\ UNCHANGED <<chunks, target, sent, merged, uploadUse>>
  BY DEF SendChunk, Is, Solo
<1>2. /\ sending'[s].at = "create" /\ sending'[s].index = i /\ sending'[s].linked
      /\ \A o \in Senders : o # s => sending'[o] = sending[o]
  BY SendMoves DEF SendChunk
<1>3. AloneInv'
  BY <1>1, <1>2 DEF UploadInv, AloneInv, Merging, Is
<1>4. ChunkInv'
  BY <1>1, <1>2 DEF UploadInv, ChunkInv, Is
<1>5. TargetInv'
  BY <1>1, <1>2 DEF UploadInv, TargetInv, Is
<1> QED
  BY <1>3, <1>4, <1>5

LEMMA CreateKeeps ==
  ASSUME UploadTypeOK, IndexInv, UploadInv, Solo, NEW s \in Senders, CreateChunk(s)
  PROVE  AloneInv' /\ ChunkInv' /\ TargetInv'
<1> DEFINE i == sending[s].index
<1>1. sending[s].at = "create" /\ i \in Indices /\ sending[s].linked /\ ~ merged
      /\ UNCHANGED <<target, sent, merged, uploadUse>>
  BY DEF CreateChunk, Is, IndexInv, UploadInv, AloneInv, Quiet
<1>2. /\ sending'[s].at = "fill" /\ sending'[s].index = i /\ sending'[s].linked
      /\ \A o \in Senders : o # s => sending'[o] = sending[o]
  BY <1>1, ProceedMoves DEF CreateChunk
<1>3. chunks'[i] = "empty" /\ \A j \in Indices : j # i => chunks'[j] = chunks[j]
  BY <1>1 DEF CreateChunk, UploadTypeOK
<1> HIDE DEF i
<1>4. AloneInv'
  BY <1>1, <1>2 DEF UploadInv, AloneInv, Is
<1>5. ChunkInv'
  BY <1>1, <1>2, <1>3 DEF UploadInv, ChunkInv, Is, UploadTypeOK
<1>6. TargetInv'
  BY <1>1, <1>2 DEF UploadInv, TargetInv, Is
<1> QED
  BY <1>4, <1>5, <1>6

LEMMA UploadFillKeeps ==
  ASSUME UploadTypeOK, IndexInv, UploadInv, Solo, NEW s \in Senders, FillChunk(s)
  PROVE  AloneInv' /\ ChunkInv' /\ TargetInv'
<1> DEFINE i == sending[s].index
<1>1. sending[s].at = "fill" /\ i \in Indices /\ sending[s].linked /\ ~ merged
      /\ sent' = sent \cup {i} /\ UNCHANGED <<target, merged, uploadUse>>
  BY DEF FillChunk, Is, IndexInv, UploadInv, AloneInv, Quiet
<1>2. sending'[s].at = "idle" /\ \A o \in Senders : o # s => sending'[o] = sending[o]
  BY ReplyMoves, WaitingIsTyped DEF FillChunk
<1>3. PICK slot \in {"whole"} \cup (IF FillsToo(s) THEN {"empty"} ELSE {}) :
        chunks' = [chunks EXCEPT ![i] = slot]
  BY <1>1 DEF FillChunk
<1>4. chunks'[i] = slot /\ slot # "none" /\ \A j \in Indices : j # i => chunks'[j] = chunks[j]
  BY <1>1, <1>3 DEF UploadTypeOK
<1>5. slot = "empty" => \E o \in Senders : o # s /\ sending[o].at = "fill" /\ sending[o].index = i
  BY <1>3 DEF FillsToo, Is
<1> HIDE DEF i
<1>6. AloneInv'
  BY <1>1, <1>2 DEF UploadInv, AloneInv, Is
<1>7. ASSUME NEW j \in Indices, chunks'[j] = "empty"
      PROVE  \E o \in Senders : Is(o, "fill")' /\ sending'[o].index = j
  <2>1. CASE j = i
    BY <1>2, <1>4, <1>5, <1>7, <2>1 DEF Is
  <2>2. CASE j # i
    <3>1. PICK o \in Senders : Is(o, "fill") /\ sending[o].index = j
      BY <1>4, <1>7, <2>2 DEF UploadInv, ChunkInv
    <3> QED
      BY <1>2, <2>2, <3>1 DEF Is, i
  <2> QED
    BY <2>1, <2>2
<1>8. ~ merged' => \A j \in sent' : chunks'[j] # "none"
  BY <1>1, <1>4 DEF UploadInv, ChunkInv, UploadTypeOK
<1>9. TargetInv'
  BY <1>1, <1>2 DEF UploadInv, TargetInv, Is
<1> QED
  BY <1>6, <1>7, <1>8, <1>9 DEF ChunkInv

LEMMA MergeBegins ==
  ASSUME UploadTypeOK, IndexInv, UploadInv, Solo, NEW s \in Senders, Merge(s) \/ OpenTarget(s)
  PROVE  AloneInv' /\ ChunkInv' /\ TargetInv'
<1>1. /\ \A o \in Senders : o # s => sending[o].at = "idle"
      /\ sending[s].at \in {"idle", "open"} /\ ~ merged
      /\ UNCHANGED <<chunks, sent, merged, uploadUse>>
  BY DEF Merge, OpenTarget, Is, Quiet, Solo, UploadInv, AloneInv
<1>2. \A o \in Senders : o # s => sending'[o] = sending[o]
  BY ProceedMoves, OpenMoves DEF Merge
<1>3. \/ sending'[s].at = "open"
      \/ sending'[s].at = "merge" /\ sending'[s].index = 0 /\ target' = <<>>
  BY ProceedMoves, OpenMoves DEF Merge, OpenTarget
<1>4. AloneInv'
  BY <1>1, <1>2, <1>3 DEF AloneInv, Is
<1>5. ChunkInv'
  BY <1>1, <1>2 DEF UploadInv, ChunkInv, Is
<1>6. TargetInv'
  <2>1. [j \in 1..0 |-> "whole"] = <<>>
    OBVIOUS
  <2> QED
    BY <1>1, <1>2, <1>3, <2>1 DEF TargetInv, Is
<1> QED
  BY <1>4, <1>5, <1>6

LEMMA MergeKeeps ==
  ASSUME UploadTypeOK, IndexInv, UploadInv, Solo, NEW s \in Senders, MergeChunk(s)
  PROVE  AloneInv' /\ ChunkInv' /\ TargetInv'
<1> DEFINE i == sending[s].index
<1>1. /\ sending[s].at = "merge" /\ i \in Indices /\ i \in Nat /\ chunks[i] # "none"
      /\ UNCHANGED <<chunks, sent, merged, uploadUse>>
  BY ChunksAreCounted DEF MergeChunk, Is, UploadTypeOK, Indices
<1>2. \A o \in Senders : o # s => sending[o].at = "idle"
  BY <1>1 DEF UploadInv, AloneInv, Is
<1>3. ~ merged
  BY <1>1 DEF UploadInv, AloneInv, Quiet, Is
<1>4. chunks[i] = "whole"
  BY <1>1, <1>2 DEF UploadInv, ChunkInv, Is, UploadTypeOK
<1>5. target' = Written(target, i, "whole")
  BY <1>4 DEF MergeChunk, Solo
<1>6. target = [j \in 1..i |-> "whole"]
  BY <1>1 DEF UploadInv, TargetInv, Is
<1>7. target' = [j \in 1..(i + 1) |-> "whole"]
  <2>1. target \in [1..i -> Slot] /\ i \in 0..TotalChunks /\ "whole" \in Slot
    BY <1>1, <1>6, ChunksAreCounted DEF Slot, Indices
  <2>2. /\ target' \in [1..(i + 1) -> Slot] /\ target'[i + 1] = "whole"
        /\ \A j \in 1..i : target'[j] = "whole"
    <3>1. /\ Written(target, i, "whole") \in [1..(i + 1) -> Slot]
          /\ Written(target, i, "whole")[i + 1] = "whole"
          /\ \A j \in 1..i : Written(target, i, "whole")[j] = target[j]
      BY <1>1, <2>1, WrittenIsTyped
    <3>2. \A j \in 1..i : target[j] = "whole"
      BY <1>6
    <3> QED
      BY <1>5, <3>1, <3>2
  <2>3. \A j \in 1..(i + 1) : target'[j] = "whole"
    BY <1>1, <2>2
  <2> QED
    BY <2>2, <2>3
<1>8. /\ sending'[s].at = "merge" /\ sending'[s].index = i + 1
      /\ \A o \in Senders : o # s => sending'[o] = sending[o]
  BY MergeMoves
<1> HIDE DEF i
<1>9. AloneInv'
  BY <1>1, <1>2, <1>3, <1>8 DEF AloneInv, Is
<1>10. ChunkInv'
  BY <1>1, <1>2, <1>8 DEF UploadInv, ChunkInv, Is
<1>11. TargetInv'
  BY <1>1, <1>2, <1>3, <1>7, <1>8 DEF TargetInv, Is
<1> QED
  BY <1>9, <1>10, <1>11

LEMMA MissingKeeps ==
  ASSUME UploadTypeOK, IndexInv, UploadInv, Solo, NEW s \in Senders, MissingChunk(s)
  PROVE  AloneInv' /\ ChunkInv' /\ TargetInv'
<1>1. sending[s].at = "merge" /\ UNCHANGED <<chunks, target, sent, merged, uploadUse>>
  BY DEF MissingChunk, Is
<1>2. sending'[s].at = "idle" /\ \A o \in Senders : o # s => sending'[o] = sending[o]
  BY ReplyMoves, WaitingIsTyped DEF MissingChunk
<1>3. AloneInv'
  BY <1>1, <1>2 DEF UploadInv, AloneInv, Is, Quiet
<1>4. ChunkInv'
  BY <1>1, <1>2 DEF UploadInv, ChunkInv, Is
<1>5. TargetInv'
  BY <1>1, <1>2 DEF UploadInv, TargetInv, Is
<1> QED
  BY <1>3, <1>4, <1>5

LEMMA ClearKeeps ==
  ASSUME UploadTypeOK, IndexInv, UploadInv, Solo, NEW s \in Senders, ClearChunks(s)
  PROVE  AloneInv' /\ ChunkInv' /\ TargetInv'
<1>1. /\ sending[s].at = "merge" /\ sending[s].index = TotalChunks
      /\ merged' /\ UNCHANGED target /\ \A i \in Indices : chunks'[i] = "none"
  BY DEF ClearChunks, Is
<1>2. \A o \in Senders : sending'[o].at = "idle"
  BY <1>1, WaitingIsTyped DEF ClearChunks, UploadInv, AloneInv, Is
<1>3. target = [j \in 1..TotalChunks |-> "whole"]
  BY <1>1 DEF UploadInv, TargetInv, Is
<1> QED
  BY <1>1, <1>2, <1>3 DEF AloneInv, ChunkInv, TargetInv, Is, Quiet

\* A merge that succeeds leaves the whole file, one that is refused the chunks for the next.
THEOREM MergedStaysWhole == UploadSpec => []MergedWhole
<1>1. UploadInit => UploadInv
  BY WaitingIsTyped DEF UploadInit, UploadInv, AloneInv, ChunkInv, TargetInv, Is, Quiet
<1>2. UploadTypeOK /\ IndexInv /\ UploadInv /\ [UploadNext]_uploadVars => UploadInv'
  <2> SUFFICES ASSUME UploadTypeOK, IndexInv, UploadInv, [UploadNext]_uploadVars, Solo'
               PROVE  AloneInv' /\ ChunkInv' /\ TargetInv'
    BY DEF UploadInv
  <2>1. Solo
    BY DEF Solo, UploadNext, uploadVars, SendChunk, CreateChunk, FillChunk, ChunkFails, Merge, OpenTarget,
           MergeChunk, MissingChunk, ClearChunks, Status
  <2>2. ASSUME NEW s \in Senders, ChunkFails(s) PROVE FALSE
    BY <2>1, <2>2 DEF ChunkFails, Solo
  <2>3. ASSUME Status PROVE AloneInv' /\ ChunkInv' /\ TargetInv'
    BY <2>1, <2>3 DEF Status, UploadInv, AloneInv, ChunkInv, TargetInv, Is, Quiet
  <2>4. ASSUME UNCHANGED uploadVars PROVE AloneInv' /\ ChunkInv' /\ TargetInv'
    BY <2>1, <2>4 DEF uploadVars, UploadInv, AloneInv, ChunkInv, TargetInv, Is, Quiet
  <2> QED
    BY <2>1, <2>2, <2>3, <2>4, SendKeeps, CreateKeeps, UploadFillKeeps, MergeBegins, MergeKeeps, MissingKeeps,
       ClearKeeps DEF UploadNext
<1>3. UploadTypeOK /\ UploadInv => MergedWhole
  <2> SUFFICES ASSUME UploadTypeOK, UploadInv, Solo
               PROVE  /\ merged => target = [j \in 1..TotalChunks |-> "whole"]
                      /\ ~ merged => \A i \in sent : chunks[i] = "whole"
                           \/ \E s \in Senders : sending[s].index = i /\ Is(s, "fill")
    BY DEF MergedWhole, Solo
  <2> QED
    BY DEF UploadTypeOK, UploadInv, ChunkInv, TargetInv
<1> QED
  BY <1>1, <1>2, <1>3, UploadsTyping, PTL DEF UploadSpec

-----------------------------------------------------------------------------
(***************************************************************************)
(* Background scripts.                                                      *)
(***************************************************************************)

Asking == [at : {"idle", "record", "running", "code", "output", "term", "kill"},
           proc : Procs \cup {NoProc}, view : View]

\* A request that is under way is about a process.
AboutInv == \A a \in Askers : ask[a].at # "idle" => ask[a].proc \in Procs

LEMMA SilentIsTyped == Silent \in Asking /\ Silent.at = "idle"
BY DEF Silent, Asking, Fresh, View

\* What one request does leaves the others where they are.
LEMMA OneAsks ==
  ASSUME ScriptTypeOK, NEW a \in Askers, NEW r \in Asking, ask' = [ask EXCEPT ![a] = r]
  PROVE  /\ ask' \in [Askers -> Asking] /\ ask'[a] = r
         /\ \A b \in Askers : b # a => ask'[b] = ask[b]
BY DEF ScriptTypeOK, Asking

LEMMA FinishMoves ==
  ASSUME ScriptTypeOK, NEW a \in Askers, Finish(a)
  PROVE  /\ ask' \in [Askers -> Asking] /\ ask'[a] = Silent
         /\ \A b \in Askers : b # a => ask'[b] = ask[b]
BY SilentIsTyped, OneAsks DEF Finish

\* A request begins.
LEMMA BeginMoves ==
  ASSUME ScriptTypeOK, NEW a \in Askers, NEW p \in Procs,
         NEW step \in {"record", "running", "term"},
         ask' = [ask EXCEPT ![a] = [at |-> step, proc |-> p, view |-> Fresh]]
  PROVE  /\ ask' \in [Askers -> Asking]
         /\ ask'[a].at = step /\ ask'[a].proc = p
         /\ \A b \in Askers : b # a => ask'[b] = ask[b]
<1>1. [at |-> step, proc |-> p, view |-> Fresh] \in Asking
  BY DEF Asking, Fresh, View
<1> QED
  BY <1>1, OneAsks

\* A request goes on.
LEMMA StepMoves ==
  ASSUME ScriptTypeOK, NEW a \in Askers, NEW step \in {"code", "output", "kill"}, NEW v \in View,
         ask' = [ask EXCEPT ![a] = [@ EXCEPT !.at = step, !.view = v]]
  PROVE  /\ ask' \in [Askers -> Asking]
         /\ ask'[a].at = step /\ ask'[a].proc = ask[a].proc /\ ask'[a].view = v
         /\ \A b \in Askers : b # a => ask'[b] = ask[b]
<1>1. [ask[a] EXCEPT !.at = step, !.view = v] \in Asking
  BY DEF ScriptTypeOK, Asking
<1>2. ask' = [ask EXCEPT ![a] = [ask[a] EXCEPT !.at = step, !.view = v]]
  OBVIOUS
<1>3. [ask[a] EXCEPT !.at = step, !.view = v].proc = ask[a].proc
  BY DEF ScriptTypeOK
<1>4. /\ [ask[a] EXCEPT !.at = step, !.view = v].at = step
      /\ [ask[a] EXCEPT !.at = step, !.view = v].view = v
  BY DEF ScriptTypeOK
<1> QED
  BY <1>1, <1>2, <1>3, <1>4, OneAsks

LEMMA TermMoves ==
  ASSUME ScriptTypeOK, NEW a \in Askers, ask' = [ask EXCEPT ![a].at = "kill"]
  PROVE  /\ ask' \in [Askers -> Asking]
         /\ ask'[a].at = "kill" /\ ask'[a].proc = ask[a].proc
         /\ \A b \in Askers : b # a => ask'[b] = ask[b]
BY DEF ScriptTypeOK, Asking
\* The goroutine assigns one field of its record.
LEMMA FieldIsView ==
  ASSUME NEW v \in View
  PROVE  /\ [v EXCEPT !.output = TRUE] \in View
         /\ [v EXCEPT !.running = FALSE] \in View
         /\ [v EXCEPT !.code = TRUE] \in View
<1>1. [v EXCEPT !.output = TRUE] \in View
  BY DEF View
<1>2. [v EXCEPT !.running = FALSE] \in View
  BY DEF View
<1>3. [v EXCEPT !.code = TRUE] \in View
  BY DEF View
<1> QED
  BY <1>1, <1>2, <1>3

LEMMA ListedMoves ==
  ASSUME ScriptTypeOK, NEW p \in Procs, NEW v \in BOOLEAN, record' = [record EXCEPT ![p].listed = v]
  PROVE  record' \in [Procs -> [listed : BOOLEAN, view : View]]
<1>1. record \in [Procs -> [listed : BOOLEAN, view : View]]
  BY DEF ScriptTypeOK
<1> QED
  BY <1>1

LEMMA ViewMoves ==
  ASSUME ScriptTypeOK, NEW p \in Procs, NEW v \in View, record' = [record EXCEPT ![p].view = v]
  PROVE  /\ record' \in [Procs -> [listed : BOOLEAN, view : View]]
         /\ record'[p].listed = record[p].listed /\ record'[p].view = v
         /\ \A q \in Procs : q # p => record'[q] = record[q]
BY DEF ScriptTypeOK

\* Every state of the scripts is well typed, and a request that is under way has its process.
THEOREM ScriptsTyping == ScriptSpec => [](ScriptTypeOK /\ AboutInv)
<1> USE NamesAreApart, ScriptUsesAreTyped
<1>1. ScriptInit => ScriptTypeOK /\ AboutInv
  <2> SUFFICES ASSUME ScriptInit PROVE ScriptTypeOK /\ AboutInv
    OBVIOUS
  <2>1. [listed |-> FALSE, view |-> Fresh] \in [listed : BOOLEAN, view : View]
    BY DEF Fresh, View
  <2>2. record \in [Procs -> [listed : BOOLEAN, view : View]]
    BY <2>1 DEF ScriptInit
  <2>3. ask \in [Askers -> Asking] /\ AboutInv
    BY SilentIsTyped DEF ScriptInit, AboutInv
  <2> QED
    BY <2>2, <2>3 DEF ScriptInit, ScriptTypeOK, Asking
<1>2. ScriptTypeOK /\ AboutInv /\ [ScriptNext]_scriptVars => ScriptTypeOK' /\ AboutInv'
  <2> SUFFICES ASSUME ScriptTypeOK, AboutInv, [ScriptNext]_scriptVars PROVE ScriptTypeOK' /\ AboutInv'
    OBVIOUS
  <2>1. ASSUME NEW a \in Askers, NEW p \in Procs, Start(a, p) PROVE ScriptTypeOK' /\ AboutInv'
    <3>1. ask' = [ask EXCEPT ![a] = [at |-> "record", proc |-> p, view |-> Fresh]]
      BY <2>1 DEF Start
    <3>2. ask' \in [Askers -> Asking] /\ AboutInv'
      BY <3>1, BeginMoves DEF AboutInv
    <3>3. process' \in [Procs -> {"none", "alive", "dead", "reaped", "reused"}]
      BY <2>1 DEF Start, ScriptTypeOK
    <3> QED
      BY <2>1, <3>2, <3>3 DEF Start, ScriptTypeOK, Asking
  <2>2. ASSUME NEW a \in Askers, NEW p \in Procs, AskOutput(a, p) PROVE ScriptTypeOK' /\ AboutInv'
    <3>1. ask' = [ask EXCEPT ![a] = [at |-> "running", proc |-> p, view |-> Fresh]]
      BY <2>2 DEF AskOutput
    <3>2. ask' \in [Askers -> Asking] /\ AboutInv'
      BY <3>1, BeginMoves DEF AboutInv
    <3> QED
      BY <2>2, <3>2 DEF AskOutput, ScriptTypeOK, Asking
  <2>3. ASSUME NEW a \in Askers, NEW p \in Procs, Stop(a, p) PROVE ScriptTypeOK' /\ AboutInv'
    <3>1. ask' = [ask EXCEPT ![a] = [at |-> "term", proc |-> p, view |-> Fresh]]
      BY <2>3 DEF Stop
    <3>2. ask' \in [Askers -> Asking] /\ AboutInv'
      BY <3>1, BeginMoves DEF AboutInv
    <3> QED
      BY <2>3, <3>2 DEF Stop, ScriptTypeOK, Asking
  <2>4. ASSUME NEW a \in Askers, NEW p \in Procs, DeleteRecord(a, p) PROVE ScriptTypeOK' /\ AboutInv'
    <3>1. record' = [record EXCEPT ![p].listed = FALSE]
      BY <2>4 DEF DeleteRecord
    <3>2. record' \in [Procs -> [listed : BOOLEAN, view : View]]
      BY <3>1, ListedMoves
    <3> QED
      BY <2>4, <3>2 DEF DeleteRecord, ScriptTypeOK, AboutInv
  <2>5. ASSUME NEW a \in Askers, Record(a) PROVE ScriptTypeOK' /\ AboutInv'
    <3>1. ask' \in [Askers -> Asking] /\ AboutInv'
      BY <2>5, FinishMoves, SilentIsTyped DEF Record, AboutInv
    <3> QED
      <4>1. record' \in [Procs -> [listed : BOOLEAN, view : View]]
        <5>1. record' = [record EXCEPT ![ask[a].proc].listed = TRUE] /\ ask[a].proc \in Procs
          BY <2>5 DEF Record, Asked, AboutInv
        <5> QED
          BY <5>1, ListedMoves
      <4>2. waiter' \in [Procs -> {"none", "wait", "lock", "output", "running", "code"}]
        BY <2>5 DEF Record, ScriptTypeOK
      <4> QED
        BY <2>5, <3>1, <4>1, <4>2 DEF Record, ScriptTypeOK, Asking
  <2>6. ASSUME NEW a \in Askers, ListProcesses(a) PROVE ScriptTypeOK' /\ AboutInv'
    <3>1. misled' \in BOOLEAN
      BY <2>6 DEF ListProcesses
    <3> QED
      BY <2>6, <3>1 DEF ListProcesses, ScriptTypeOK, AboutInv
  <2>7. ASSUME NEW a \in Askers, ReadField(a) PROVE ScriptTypeOK' /\ AboutInv'
    <3>1. ask' \in [Askers -> Asking] /\ AboutInv' /\ misled' \in BOOLEAN
      <4>1. ask[a].at # "idle" /\ ask[a].proc \in Procs
        BY <2>7 DEF ReadField, Asked, AboutInv
      <4>2. CASE Asked(a, "running")
        <5>1. [ask[a].view EXCEPT !.running = record[ask[a].proc].view.running] \in View
          BY <4>1 DEF ScriptTypeOK, View
        <5>2. ask' = [ask EXCEPT ![a] = [@ EXCEPT !.at = "code",
                        !.view = [ask[a].view EXCEPT !.running = record[ask[a].proc].view.running]]]
              /\ UNCHANGED misled
          BY <2>7, <4>2 DEF ReadField, Asked
        <5> QED
          <6>1. /\ ask' \in [Askers -> Asking] /\ ask'[a].proc = ask[a].proc
                /\ \A b \in Askers : b # a => ask'[b] = ask[b]
            BY <5>1, <5>2, StepMoves
          <6>2. misled' \in BOOLEAN
            BY <5>2 DEF ScriptTypeOK
          <6> QED
            BY <4>1, <6>1, <6>2 DEF AboutInv
      <4>3. CASE Asked(a, "code")
        <5>1. [ask[a].view EXCEPT !.code = record[ask[a].proc].view.code] \in View
          BY <4>1 DEF ScriptTypeOK, View
        <5>2. ask' = [ask EXCEPT ![a] = [@ EXCEPT !.at = "output",
                        !.view = [ask[a].view EXCEPT !.code = record[ask[a].proc].view.code]]]
              /\ UNCHANGED misled
          BY <2>7, <4>3 DEF ReadField, Asked
        <5> QED
          <6>1. /\ ask' \in [Askers -> Asking] /\ ask'[a].proc = ask[a].proc
                /\ \A b \in Askers : b # a => ask'[b] = ask[b]
            BY <5>1, <5>2, StepMoves
          <6>2. misled' \in BOOLEAN
            BY <5>2 DEF ScriptTypeOK
          <6> QED
            BY <4>1, <6>1, <6>2 DEF AboutInv
      <4>4. CASE Asked(a, "output")
        <5>1. Finish(a) /\ misled' \in BOOLEAN
          BY <2>7, <4>4 DEF ReadField, Asked
        <5> QED
          BY <5>1, FinishMoves, SilentIsTyped DEF AboutInv
      <4> QED
        BY <2>7, <4>2, <4>3, <4>4 DEF ReadField
    <3> QED
      BY <2>7, <3>1 DEF ReadField, ScriptTypeOK, Asking
  <2>8. ASSUME NEW a \in Askers, Signal(a) PROVE ScriptTypeOK' /\ AboutInv'
    <3>1. ask' \in [Askers -> Asking] /\ AboutInv'
      BY <2>8, FinishMoves, TermMoves, SilentIsTyped DEF Signal, AboutInv
    <3>2. process' \in [Procs -> {"none", "alive", "dead", "reaped", "reused"}]
      <4>1. PICK obeys \in BOOLEAN :
              process' = [process EXCEPT ![ask[a].proc] = IF @ = "alive" /\ obeys THEN "dead" ELSE @]
        BY <2>8 DEF Signal
      <4>2. process \in [Procs -> {"none", "alive", "dead", "reaped", "reused"}]
        BY DEF ScriptTypeOK
      <4> QED
        BY <4>1, <4>2
    <3>3. strayKill' \in BOOLEAN
      BY <2>8 DEF Signal
    <3>4. lock' \in Procs \cup Askers \cup {NoProc}
      BY <2>8 DEF Signal, ScriptTypeOK
    <3> QED
      BY <2>8, <3>1, <3>2, <3>3, <3>4 DEF Signal, ScriptTypeOK, Asking
  <2>9. ASSUME NEW p \in Procs, End(p) \/ Reap(p) \/ Reuse(p) PROVE ScriptTypeOK' /\ AboutInv'
    BY <2>9 DEF End, Reap, Reuse, ScriptTypeOK, AboutInv
  <2>10. ASSUME NEW p \in Procs, FillRecord(p) PROVE ScriptTypeOK' /\ AboutInv'
    <3>1. record' \in [Procs -> [listed : BOOLEAN, view : View]]
      <4> record[p].view \in View
        BY DEF ScriptTypeOK
      <4>1. CASE UNCHANGED record
        BY <4>1 DEF ScriptTypeOK
      <4>2. CASE record' = [record EXCEPT ![p].view = [@ EXCEPT !.output = TRUE]]
        BY <4>2, FieldIsView, ViewMoves
      <4>3. CASE record' = [record EXCEPT ![p].view = [@ EXCEPT !.running = FALSE]]
        BY <4>3, FieldIsView, ViewMoves
      <4>4. CASE record' = [record EXCEPT ![p].view = [@ EXCEPT !.code = TRUE]]
        BY <4>4, FieldIsView, ViewMoves
      <4> QED
        BY <2>10, <4>1, <4>2, <4>3, <4>4 DEF FillRecord
    <3>2. waiter' \in [Procs -> {"none", "wait", "lock", "output", "running", "code"}]
          /\ lock' \in Procs \cup Askers \cup {NoProc}
      BY <2>10 DEF FillRecord, ScriptTypeOK
    <3> QED
      BY <2>10, <3>1, <3>2 DEF FillRecord, ScriptTypeOK, AboutInv
  <2>11. ASSUME LoseRecords PROVE ScriptTypeOK' /\ AboutInv'
    <3>1. ask' \in [Askers -> Asking] /\ AboutInv'
      BY <2>11, SilentIsTyped DEF LoseRecords, AboutInv
    <3>2. record' \in [Procs -> [listed : BOOLEAN, view : View]]
      <4>1. ASSUME NEW r \in [listed : BOOLEAN, view : View]
            PROVE  [r EXCEPT !.listed = FALSE] \in [listed : BOOLEAN, view : View]
        OBVIOUS
      <4>2. \A p \in Procs : record[p] \in [listed : BOOLEAN, view : View]
        BY DEF ScriptTypeOK
      <4>3. \A p \in Procs : [record[p] EXCEPT !.listed = FALSE] \in [listed : BOOLEAN, view : View]
        BY <4>1, <4>2
      <4> QED
        BY <2>11, <4>3 DEF LoseRecords
    <3> QED
      BY <2>11, <3>1, <3>2 DEF LoseRecords, ScriptTypeOK, Asking
  <2>12. ASSUME UNCHANGED scriptVars PROVE ScriptTypeOK' /\ AboutInv'
    BY <2>12 DEF scriptVars, ScriptTypeOK, AboutInv
  <2> QED
    BY <2>1, <2>2, <2>3, <2>4, <2>5, <2>6, <2>7, <2>8, <2>9, <2>10, <2>11, <2>12 DEF ScriptNext
<1> QED
  BY <1>1, <1>2, PTL DEF ScriptSpec

(* What the goroutine of a script and its record say of the process.        *)
StateInv ==
  \A p \in Procs :
    /\ process[p] = "none" => waiter[p] = "none"
    /\ waiter[p] = "wait" => process[p] \in {"alive", "dead"}
    /\ waiter[p] \in {"lock", "output", "running", "code"} => process[p] \in {"reaped", "reused"}
    /\ waiter[p] \in {"wait", "lock", "output", "running"} => record[p].view.running
    /\ waiter[p] = "running" => record[p].view.output
    /\ ~ record[p].view.running => process[p] \in {"reaped", "reused"} /\ record[p].view.output

\* The record of a script that has ended is whole, or the lock is held.
CodeInv ==
  \A p \in Procs :
    /\ Listed(p) /\ ~ record[p].view.running => record[p].view.code \/ waiter[p] = "code"
    /\ waiter[p] \in {"output", "running", "code"} => lock = p

\* What a request has been told of its process, and what it holds.
AskInv ==
  /\ \A a \in Askers :
       /\ Asked(a, "record") => /\ process[ask[a].proc] \in {"alive", "dead"}
                                /\ waiter[ask[a].proc] = "none"
       /\ ask[a].at \in {"code", "output"} /\ ~ ask[a].view.running => record[ask[a].proc].view.output
       /\ ask[a].at \in {"term", "kill"} => lock = a
  /\ \A a, b \in Askers :
       Asked(a, "record") /\ Asked(b, "record") /\ ask[a].proc = ask[b].proc => a = b

Found(p) ==
  \/ Listed(p) /\ record[p].view.running
  \/ \E a \in Askers : Asked(a, "record") /\ ask[a].proc = p

AliveInv == ~ scriptUse.restart => \A p \in Procs : process[p] = "alive" => Found(p)

StrayInv == ~ scriptUse.pidReuse => ~ strayKill /\ \A p \in Procs : process[p] # "reused"

ScriptInv == StateInv /\ CodeInv /\ AskInv /\ AliveInv /\ StrayInv /\ ~ misled
LEMMA StartKeeps ==
  ASSUME ScriptTypeOK, AboutInv, ScriptInv, NEW a \in Askers, NEW p \in Procs, Start(a, p) PROVE ScriptInv'
<1>1. /\ process[p] = "none" /\ process'[p] = "alive" /\ ask[a].at = "idle"
      /\ \A q \in Procs : q # p => process'[q] = process[q]
      /\ UNCHANGED <<record, waiter, lock, misled, strayKill, scriptUse>>
  BY DEF Start, Asked, ScriptTypeOK
<1>2. ask'[a].at = "record" /\ ask'[a].proc = p /\ \A b \in Askers : b # a => ask'[b] = ask[b]
  BY BeginMoves DEF Start
<1>3. waiter[p] = "none" /\ record[p].view.running
  BY <1>1 DEF ScriptInv, StateInv
<1>4. \A b \in Askers : b # a /\ Asked(b, "record") => ask[b].proc # p
  BY <1>1 DEF ScriptInv, AskInv
<1>5. StateInv' /\ CodeInv'
  BY <1>1, <1>3 DEF ScriptInv, StateInv, CodeInv, Listed
<1>6. AskInv'
  BY <1>1, <1>2, <1>3, <1>4 DEF ScriptInv, AskInv, AboutInv, Asked
<1>7. AliveInv'
  BY <1>1, <1>2 DEF ScriptInv, AliveInv, Found, Listed, Asked
<1>8. StrayInv' /\ ~ misled'
  BY <1>1 DEF ScriptInv, StrayInv
<1> QED
  BY <1>5, <1>6, <1>7, <1>8 DEF ScriptInv

LEMMA RecordKeeps ==
  ASSUME ScriptTypeOK, AboutInv, ScriptInv, NEW a \in Askers, Record(a) PROVE ScriptInv'
<1> DEFINE p == ask[a].proc
<1>1. /\ ask[a].at = "record" /\ p \in Procs
      /\ UNCHANGED <<process, lock, misled, strayKill, scriptUse>>
  BY DEF Record, Asked, AboutInv
<1>2. ask'[a] = Silent /\ \A b \in Askers : b # a => ask'[b] = ask[b]
  BY FinishMoves DEF Record
<1>3. process[p] \in {"alive", "dead"} /\ waiter[p] = "none" /\ record[p].view.running
  BY <1>1 DEF ScriptInv, AskInv, StateInv, Asked
<1>4. /\ \A q \in Procs : record'[q].view = record[q].view
      /\ \A q \in Procs : q # p => record'[q].listed = record[q].listed
      /\ record'[p].listed
  BY <1>1 DEF Record, ScriptTypeOK
<1>5. waiter'[p] = "wait" /\ \A q \in Procs : q # p => waiter'[q] = waiter[q]
  BY <1>1 DEF Record, ScriptTypeOK
<1>6. \A b \in Askers : b # a /\ Asked(b, "record") => ask[b].proc # p
  BY <1>1 DEF ScriptInv, AskInv, Asked
<1> HIDE DEF p
<1>7. StateInv' /\ CodeInv'
  BY <1>1, <1>3, <1>4, <1>5 DEF ScriptInv, StateInv, CodeInv, Listed
<1>8. AskInv'
  BY <1>1, <1>2, <1>4, <1>5, <1>6, SilentIsTyped DEF ScriptInv, AskInv, AboutInv, Asked
<1>9. AliveInv'
  <2> SUFFICES ASSUME ~ scriptUse.restart, NEW q \in Procs, process[q] = "alive" PROVE Found(q)'
    BY <1>1 DEF AliveInv
  <2>1. Found(q)
    BY DEF ScriptInv, AliveInv
  <2>2. CASE q = p
    BY <1>3, <1>4, <2>2 DEF Found, Listed
  <2>3. CASE q # p
    BY <1>1, <1>2, <1>4, <2>1, <2>3 DEF Found, Listed, Asked, p
  <2> QED
    BY <2>2, <2>3
<1>10. StrayInv' /\ ~ misled'
  BY <1>1 DEF ScriptInv, StrayInv
<1> QED
  BY <1>7, <1>8, <1>9, <1>10 DEF ScriptInv

\* A process ends, is waited for, or gives its PID away.
LEMMA ProcessKeeps ==
  ASSUME ScriptTypeOK, AboutInv, ScriptInv, NEW p \in Procs, End(p) \/ Reap(p) \/ Reuse(p) PROVE ScriptInv'
<1>1. /\ UNCHANGED <<record, lock, ask, misled, strayKill, scriptUse>>
      /\ \A q \in Procs : q # p => process'[q] = process[q] /\ waiter'[q] = waiter[q]
  BY DEF End, Reap, Reuse, ScriptTypeOK
<1>2. \/ process[p] = "alive" /\ process'[p] = "dead" /\ waiter'[p] = waiter[p]
      \/ process[p] = "dead" /\ process'[p] = "reaped" /\ waiter[p] = "wait" /\ waiter'[p] = "lock"
      \/ process[p] = "reaped" /\ process'[p] = "reused" /\ waiter'[p] = waiter[p] /\ scriptUse.pidReuse
  BY DEF End, Reap, Reuse, ScriptTypeOK
<1>3. StateInv' /\ CodeInv'
  BY <1>1, <1>2 DEF ScriptInv, StateInv, CodeInv, Listed
<1>4. AskInv'
  BY <1>1, <1>2 DEF ScriptInv, AskInv, AboutInv, Asked
<1>5. AliveInv'
  BY <1>1, <1>2 DEF ScriptInv, AliveInv, Found, Listed, Asked
<1>6. StrayInv' /\ ~ misled'
  BY <1>1, <1>2 DEF ScriptInv, StrayInv
<1> QED
  BY <1>3, <1>4, <1>5, <1>6 DEF ScriptInv

LEMMA ScriptFillKeeps ==
  ASSUME ScriptTypeOK, AboutInv, ScriptInv, NEW p \in Procs, FillRecord(p) PROVE ScriptInv'
<1> record[p].view \in View
  BY DEF ScriptTypeOK
<1>1. /\ UNCHANGED <<process, ask, misled, strayKill, scriptUse>>
      /\ \A q \in Procs : q # p => record'[q] = record[q] /\ waiter'[q] = waiter[q]
      /\ record'[p].listed = record[p].listed
  BY DEF FillRecord, ScriptTypeOK
<1>2. CASE waiter[p] = "lock"
  <2>1. UNCHANGED record /\ waiter'[p] = "output" /\ lock = NoProc /\ lock' = p
    BY <1>2 DEF FillRecord, LockFree, ScriptTypeOK
  <2>2. \A q \in Procs : waiter[q] \notin {"output", "running", "code"}
    BY <2>1, NamesAreApart DEF ScriptInv, CodeInv
  <2>3. \A b \in Askers : ask[b].at \notin {"term", "kill"}
    BY <2>1, NamesAreApart DEF ScriptInv, AskInv
  <2>4. StateInv' /\ CodeInv'
    BY <1>1, <1>2, <2>1, <2>2 DEF ScriptInv, StateInv, CodeInv, Listed
  <2>5. AskInv'
    BY <1>1, <1>2, <2>1, <2>3 DEF ScriptInv, AskInv, AboutInv, Asked
  <2> QED
    BY <1>1, <2>1, <2>4, <2>5 DEF ScriptInv, AliveInv, Found, Listed, Asked, StrayInv
<1>3. CASE waiter[p] = "output"
  <2>1. record' = [record EXCEPT ![p].view = [record[p].view EXCEPT !.output = TRUE]]
        /\ waiter'[p] = "running" /\ UNCHANGED lock
    BY <1>3 DEF FillRecord, ScriptTypeOK
  <2>2. /\ record'[p].view.output
        /\ record'[p].view.running = record[p].view.running
        /\ record'[p].view.code = record[p].view.code
    <3>1. [record[p].view EXCEPT !.output = TRUE] \in View
      BY FieldIsView
    <3>2. record'[p].view = [record[p].view EXCEPT !.output = TRUE]
      BY <2>1, <3>1, ViewMoves
    <3> QED
      BY <3>2 DEF View
  <2>3. StateInv' /\ CodeInv'
    BY <1>1, <1>3, <2>1, <2>2 DEF ScriptInv, StateInv, CodeInv, Listed
  <2>4. AskInv'
    BY <1>1, <1>3, <2>1, <2>2 DEF ScriptInv, AskInv, AboutInv, Asked
  <2>5. AliveInv'
    BY <1>1, <2>2 DEF ScriptInv, AliveInv, Found, Listed, Asked
  <2> QED
    BY <1>1, <2>3, <2>4, <2>5 DEF ScriptInv, StrayInv
<1>4. CASE waiter[p] = "running"
  <2>1. record' = [record EXCEPT ![p].view = [record[p].view EXCEPT !.running = FALSE]]
        /\ waiter'[p] = "code" /\ UNCHANGED lock
    BY <1>4 DEF FillRecord, ScriptTypeOK
  <2>2. /\ ~ record'[p].view.running
        /\ record'[p].view.output = record[p].view.output
        /\ record'[p].view.code = record[p].view.code
    <3>1. [record[p].view EXCEPT !.running = FALSE] \in View
      BY FieldIsView
    <3>2. record'[p].view = [record[p].view EXCEPT !.running = FALSE]
      BY <2>1, <3>1, ViewMoves
    <3> QED
      BY <3>2 DEF View
  <2>3. record[p].view.output /\ process[p] \in {"reaped", "reused"}
    BY <1>4 DEF ScriptInv, StateInv
  <2>4. StateInv' /\ CodeInv'
    BY <1>1, <1>4, <2>1, <2>2, <2>3 DEF ScriptInv, StateInv, CodeInv, Listed
  <2>5. AskInv'
    BY <1>1, <1>4, <2>1, <2>2 DEF ScriptInv, AskInv, AboutInv, Asked
  <2>6. AliveInv'
    BY <1>1, <2>2, <2>3 DEF ScriptInv, AliveInv, Found, Listed, Asked
  <2> QED
    BY <1>1, <2>4, <2>5, <2>6 DEF ScriptInv, StrayInv
<1>5. CASE waiter[p] = "code"
  <2>1. record' = [record EXCEPT ![p].view = [record[p].view EXCEPT !.code = TRUE]]
        /\ waiter'[p] = "none" /\ lock' = NoProc
    BY <1>5 DEF FillRecord, ScriptTypeOK
  <2>2. /\ record'[p].view.code
        /\ record'[p].view.output = record[p].view.output
        /\ record'[p].view.running = record[p].view.running
    <3>1. [record[p].view EXCEPT !.code = TRUE] \in View
      BY FieldIsView
    <3>2. record'[p].view = [record[p].view EXCEPT !.code = TRUE]
      BY <2>1, <3>1, ViewMoves
    <3> QED
      BY <3>2 DEF View
  <2>3. process[p] \in {"reaped", "reused"} /\ lock = p
    BY <1>5 DEF ScriptInv, StateInv, CodeInv
  <2>4. \A q \in Procs : q # p => waiter[q] \notin {"output", "running", "code"}
    BY <2>3 DEF ScriptInv, CodeInv
  <2>5. \A b \in Askers : ask[b].at \notin {"term", "kill"}
    BY <2>3, NamesAreApart DEF ScriptInv, AskInv
  <2>6. StateInv' /\ CodeInv'
    BY <1>1, <1>5, <2>1, <2>2, <2>3, <2>4 DEF ScriptInv, StateInv, CodeInv, Listed
  <2>7. AskInv'
    <3>1. /\ \A b \in Askers : Asked(b, "record") => ask[b].proc # p
      BY <2>3 DEF ScriptInv, AskInv
    <3> QED
      BY <1>1, <2>1, <2>2, <2>5, <3>1 DEF ScriptInv, AskInv, AboutInv, Asked
  <2>8. AliveInv'
    BY <1>1, <2>2 DEF ScriptInv, AliveInv, Found, Listed, Asked
  <2> QED
    BY <1>1, <2>6, <2>7, <2>8 DEF ScriptInv, StrayInv
<1> QED
  BY <1>2, <1>3, <1>4, <1>5 DEF FillRecord

LEMMA ListKeeps ==
  ASSUME ScriptTypeOK, AboutInv, ScriptInv, NEW a \in Askers, ListProcesses(a) PROVE ScriptInv'
<1>1. lock = NoProc /\ UNCHANGED <<process, record, waiter, lock, ask, strayKill, scriptUse>>
  BY DEF ListProcesses, LockFree
<1>2. \A p \in Procs : waiter[p] # "code"
  BY <1>1, NamesAreApart DEF ScriptInv, CodeInv
<1>3. \A p \in Procs : Listed(p) => Truthful(record[p].view, TRUE)
  BY <1>2 DEF ScriptInv, StateInv, CodeInv, Truthful
<1>4. ~ misled'
  BY <1>3 DEF ListProcesses, ScriptInv
<1> QED
  BY <1>1, <1>4 DEF ScriptInv, StateInv, CodeInv, AskInv, AliveInv, StrayInv, Found, Listed, Asked

LEMMA AskKeeps ==
  ASSUME ScriptTypeOK, AboutInv, ScriptInv, NEW a \in Askers, NEW p \in Procs,
         AskOutput(a, p) \/ Stop(a, p)
  PROVE  ScriptInv'
<1>1. /\ ask[a].at = "idle" /\ lock = NoProc
      /\ UNCHANGED <<process, record, waiter, misled, strayKill, scriptUse>>
  BY DEF AskOutput, Stop, Asked, LockFree
<1>2. /\ \A b \in Askers : b # a => ask'[b] = ask[b]
      /\ (ask'[a].at = "running" /\ lock' = lock) \/ (ask'[a].at = "term" /\ lock' = a)
  <2>1. CASE AskOutput(a, p)
    <3>1. ask' = [ask EXCEPT ![a] = [at |-> "running", proc |-> p, view |-> Fresh]] /\ lock' = lock
      BY <2>1 DEF AskOutput
    <3> QED
      BY <3>1, BeginMoves
  <2>2. CASE Stop(a, p)
    <3>1. ask' = [ask EXCEPT ![a] = [at |-> "term", proc |-> p, view |-> Fresh]] /\ lock' = a
      BY <2>2 DEF Stop
    <3> QED
      BY <3>1, BeginMoves
  <2> QED
    BY <2>1, <2>2
<1>3. /\ \A q \in Procs : waiter[q] \notin {"output", "running", "code"}
      /\ \A b \in Askers : ask[b].at \notin {"term", "kill"}
  BY <1>1, NamesAreApart DEF ScriptInv, CodeInv, AskInv
<1>4. StateInv' /\ CodeInv'
  BY <1>1, <1>3 DEF ScriptInv, StateInv, CodeInv, Listed
<1>5. AskInv'
  BY <1>1, <1>2, <1>3 DEF ScriptInv, AskInv, Asked
<1>6. AliveInv'
  BY <1>1, <1>2 DEF ScriptInv, AliveInv, Found, Listed, Asked
<1> QED
  BY <1>1, <1>4, <1>5, <1>6 DEF ScriptInv, StrayInv

LEMMA ReadKeeps ==
  ASSUME ScriptTypeOK, AboutInv, ScriptInv, NEW a \in Askers, ReadField(a) PROVE ScriptInv'
<1> DEFINE p == ask[a].proc
<1> USE DEF Asked
<1>1. /\ ask[a].at \in {"running", "code", "output"} /\ p \in Procs
      /\ UNCHANGED <<process, record, waiter, lock, strayKill, scriptUse>>
  BY DEF ReadField, AboutInv
<1>2. ask[a].view \in View /\ record[p].view \in View
  BY <1>1 DEF ScriptTypeOK
<1>3. ~ record[p].view.running => record[p].view.output
  BY <1>1 DEF ScriptInv, StateInv
<1>4. /\ \A b \in Askers : b # a => ask'[b] = ask[b]
      /\ ~ misled'
      /\ \/ ask'[a].at = "idle"
         \/ /\ ask'[a].at \in {"code", "output"} /\ ask'[a].proc = p
            /\ ~ ask'[a].view.running => record[p].view.output
  <2>1. CASE Asked(a, "running")
    <3>1. [ask[a].view EXCEPT !.running = record[p].view.running] \in View
      BY <1>2 DEF View
    <3>2. [ask[a].view EXCEPT !.running = record[p].view.running].running = record[p].view.running
      BY <1>2 DEF View
    <3>3. ask' = [ask EXCEPT ![a] = [@ EXCEPT !.at = "code",
                     !.view = [ask[a].view EXCEPT !.running = record[p].view.running]]]
          /\ UNCHANGED misled
      BY <2>1 DEF ReadField
    <3> QED
      BY <1>3, <3>1, <3>2, <3>3, StepMoves DEF ScriptInv
  <2>2. CASE Asked(a, "code")
    <3>1. [ask[a].view EXCEPT !.code = record[p].view.code] \in View
      BY <1>2 DEF View
    <3>2. [ask[a].view EXCEPT !.code = record[p].view.code].running = ask[a].view.running
      BY <1>2 DEF View
    <3>3. ask' = [ask EXCEPT ![a] = [@ EXCEPT !.at = "output",
                     !.view = [ask[a].view EXCEPT !.code = record[p].view.code]]]
          /\ UNCHANGED misled
      BY <2>2 DEF ReadField
    <3>4. ~ ask[a].view.running => record[p].view.output
      BY <2>2 DEF ScriptInv, AskInv
    <3> QED
      BY <3>1, <3>2, <3>3, <3>4, StepMoves DEF ScriptInv
  <2>3. CASE Asked(a, "output")
    <3>1. ~ ask[a].view.running => record[p].view.output
      BY <2>3 DEF ScriptInv, AskInv
    <3>2. /\ [ask[a].view EXCEPT !.output = record[p].view.output].running = ask[a].view.running
          /\ [ask[a].view EXCEPT !.output = record[p].view.output].output = record[p].view.output
      BY <1>2 DEF View
    <3>3. Truthful([ask[a].view EXCEPT !.output = record[p].view.output], FALSE)
      BY <3>1, <3>2 DEF Truthful
    <3>4. Finish(a) /\ ~ misled'
      BY <2>3, <3>3 DEF ReadField, ScriptInv
    <3> QED
      BY <3>4, FinishMoves, SilentIsTyped
  <2> QED
    BY <1>1, <2>1, <2>2, <2>3
<1> HIDE DEF p
<1>5. StateInv' /\ CodeInv'
  BY <1>1 DEF ScriptInv, StateInv, CodeInv, Listed
<1>6. AskInv'
  BY <1>1, <1>4 DEF ScriptInv, AskInv
<1>7. AliveInv'
  BY <1>1, <1>4 DEF ScriptInv, AliveInv, Found, Listed
<1> QED
  BY <1>1, <1>4, <1>5, <1>6, <1>7 DEF ScriptInv, StrayInv

LEMMA SignalKeeps ==
  ASSUME ScriptTypeOK, AboutInv, ScriptInv, NEW a \in Askers, Signal(a) PROVE ScriptInv'
<1> DEFINE p == ask[a].proc
<1>1. /\ ask[a].at \in {"term", "kill"} /\ p \in Procs /\ lock = a
      /\ UNCHANGED <<record, waiter, misled, scriptUse>>
  BY DEF Signal, AboutInv, ScriptInv, AskInv
<1>2. /\ \A q \in Procs : process'[q] = process[q] \/ (process[q] = "alive" /\ process'[q] = "dead")
      /\ strayKill' = (strayKill \/ process[p] = "reused")
  <2>1. PICK obeys \in BOOLEAN :
          process' = [process EXCEPT ![p] = IF @ = "alive" /\ obeys THEN "dead" ELSE @]
    BY DEF Signal
  <2>2. strayKill' = (strayKill \/ process[p] = "reused")
    BY DEF Signal
  <2>3. process'[p] = process[p] \/ (process[p] = "alive" /\ process'[p] = "dead")
    BY <1>1, <2>1 DEF ScriptTypeOK
  <2>4. \A q \in Procs : q # p => process'[q] = process[q]
    BY <1>1, <2>1 DEF ScriptTypeOK
  <2> QED
    BY <2>2, <2>3, <2>4
<1>3. /\ \A b \in Askers : b # a => ask'[b] = ask[b]
      /\ (ask'[a].at = "kill" /\ lock' = lock) \/ (ask'[a].at = "idle" /\ lock' = NoProc)
  <2>1. CASE Asked(a, "term")
    <3>1. ask' = [ask EXCEPT ![a].at = "kill"] /\ lock' = lock
      BY <2>1 DEF Signal
    <3> QED
      BY <3>1, TermMoves
  <2>2. CASE ~ Asked(a, "term")
    BY <2>2, FinishMoves, SilentIsTyped DEF Signal
  <2> QED
    BY <2>1, <2>2
<1>4. /\ \A q \in Procs : waiter[q] \notin {"output", "running", "code"}
      /\ \A b \in Askers : b # a => ask[b].at \notin {"term", "kill"}
  BY <1>1, NamesAreApart DEF ScriptInv, CodeInv, AskInv
<1> HIDE DEF p
<1>5. StateInv' /\ CodeInv'
  BY <1>1, <1>2, <1>4 DEF ScriptInv, StateInv, CodeInv, Listed
<1>6. AskInv'
  BY <1>1, <1>2, <1>3, <1>4 DEF ScriptInv, AskInv, AboutInv, Asked
<1>7. AliveInv'
  BY <1>1, <1>2, <1>3 DEF ScriptInv, AliveInv, Found, Listed, Asked
<1>8. StrayInv'
  BY <1>1, <1>2 DEF ScriptInv, StrayInv
<1> QED
  BY <1>1, <1>5, <1>6, <1>7, <1>8 DEF ScriptInv

LEMMA DeleteKeeps ==
  ASSUME ScriptTypeOK, AboutInv, ScriptInv, NEW a \in Askers, NEW p \in Procs, DeleteRecord(a, p)
  PROVE  ScriptInv'
<1>1. /\ ~ record[p].view.running
      /\ UNCHANGED <<process, waiter, lock, ask, misled, strayKill, scriptUse>>
  BY DEF DeleteRecord
<1>2. /\ \A q \in Procs : record'[q].view = record[q].view
      /\ \A q \in Procs : q # p => record'[q].listed = record[q].listed
      /\ record'[p].listed = FALSE
  BY DEF DeleteRecord, ScriptTypeOK
<1>3. process[p] # "alive"
  BY <1>1 DEF ScriptInv, StateInv
<1>4. StateInv' /\ CodeInv'
  BY <1>1, <1>2 DEF ScriptInv, StateInv, CodeInv, Listed
<1>5. AskInv'
  BY <1>1, <1>2 DEF ScriptInv, AskInv, AboutInv, Asked
<1>6. AliveInv'
  BY <1>1, <1>2, <1>3 DEF ScriptInv, AliveInv, Found, Listed, Asked
<1> QED
  BY <1>1, <1>4, <1>5, <1>6 DEF ScriptInv, StrayInv

LEMMA LoseKeeps ==
  ASSUME ScriptTypeOK, AboutInv, ScriptInv, LoseRecords PROVE ScriptInv'
<1>1. scriptUse.restart /\ UNCHANGED <<process, misled, strayKill, scriptUse>>
  BY DEF LoseRecords
<1>2. \A p \in Procs : record'[p].view = record[p].view /\ record'[p].listed = FALSE /\ waiter'[p] = "none"
  BY DEF LoseRecords, ScriptTypeOK
<1>3. \A a \in Askers : ask'[a] = Silent
  BY DEF LoseRecords
<1>4. StateInv' /\ CodeInv'
  BY <1>1, <1>2 DEF ScriptInv, StateInv, CodeInv, Listed
<1>5. AskInv'
  BY <1>3, SilentIsTyped DEF AskInv, Asked
<1> QED
  BY <1>1, <1>4, <1>5 DEF ScriptInv, AliveInv, StrayInv

\* A script that runs can be found and stopped, and nobody is told a half truth of its end.
THEOREM ScriptsStayAccounted == ScriptSpec => []ScriptsAccounted
<1>1. ScriptInit => ScriptInv
  BY NamesAreApart, SilentIsTyped
     DEF ScriptInit, ScriptInv, StateInv, CodeInv, AskInv, AliveInv, StrayInv, Asked, Listed, Fresh
<1>2. ScriptTypeOK /\ AboutInv /\ ScriptInv /\ [ScriptNext]_scriptVars => ScriptInv'
  <2> SUFFICES ASSUME ScriptTypeOK, AboutInv, ScriptInv, [ScriptNext]_scriptVars PROVE ScriptInv'
    OBVIOUS
  <2>1. ASSUME UNCHANGED scriptVars PROVE ScriptInv'
    BY <2>1 DEF scriptVars, ScriptInv, StateInv, CodeInv, AskInv, AliveInv, StrayInv, Found, Listed, Asked
  <2> QED
    BY <2>1, StartKeeps, RecordKeeps, ProcessKeeps, ScriptFillKeeps, ListKeeps, AskKeeps, ReadKeeps, SignalKeeps,
       DeleteKeeps, LoseKeeps DEF ScriptNext
<1>3. ScriptInv => ScriptsAccounted
  BY DEF ScriptInv, AliveInv, StrayInv, ScriptsAccounted, Found
<1> QED
  BY <1>1, <1>2, <1>3, ScriptsTyping, PTL DEF ScriptSpec

-----------------------------------------------------------------------------
(***************************************************************************)
(* Log files.                                                               *)
(***************************************************************************)

\* A writer that is under way has a line.
LineInv == \A w \in Writers : writing[w].at # "idle" => writing[w].line \in Lines

LEMMA BeganTyped ==
  ASSUME LogTypeOK, NEW w \in Writers, NEW r \in [at : {"idle", "find", "write"},
           line : Lines \cup {NoLine}, key : Days, file : 0..MaxOpenings]
  PROVE  [writing EXCEPT ![w] = r] \in [Writers -> [at : {"idle", "find", "write"},
           line : Lines \cup {NoLine}, key : Days, file : 0..MaxOpenings]]
BY DEF LogTypeOK

LEMMA OvertakenTyped ==
  ASSUME LogTypeOK, LineInv, CloseFiles
  PROVE  openFiles' \subseteq 1..MaxOpenings /\ overtaken' \subseteq Lines
<1>1. openFiles' \subseteq openFiles
  BY DEF CloseFiles
<1>2. overtaken' \subseteq overtaken \cup {writing[w].line : w \in {v \in Writers : Busy(v, "write")}}
  BY DEF CloseFiles
<1>3. {writing[w].line : w \in {v \in Writers : Busy(v, "write")}} \subseteq Lines
  BY DEF LineInv, Busy
<1> QED
  BY <1>1, <1>2, <1>3 DEF LogTypeOK

\* Every state of the log files is well typed, and no writer loses its line.
THEOREM LogFilesTyping == LogSpec => [](LogTypeOK /\ LineInv)
<1> USE LogBoundsAreNaturals, LinesAreTyped
<1>1. LogInit => LogTypeOK /\ LineInv
  <2> SUFFICES ASSUME LogInit PROVE LogTypeOK /\ LineInv
    OBVIOUS
  <2>1. 0 \in 0..MaxDay /\ 0 \in 0..MaxOpenings
    OBVIOUS
  <2>2. LineInv
    BY DEF LogInit, LineInv, Listening
  <2>3. writing \in [Writers -> [at : {"idle", "find", "write"}, line : Lines \cup {NoLine},
                                key : Days, file : 0..MaxOpenings]]
    BY <2>1 DEF LogInit, Listening, Days
  <2> QED
    BY <2>1, <2>2, <2>3 DEF LogInit, LogTypeOK, Days
<1>2. LogTypeOK /\ LineInv /\ [LogNext]_logVars => LogTypeOK' /\ LineInv'
  <2> SUFFICES ASSUME LogTypeOK, LineInv, [LogNext]_logVars PROVE LogTypeOK' /\ LineInv'
    OBVIOUS
  <2>1. ASSUME NEW w \in Writers, NEW line \in Lines, Log(w, line) PROVE LogTypeOK' /\ LineInv'
    <3>1. CASE Refused(line)
      BY <2>1, <3>1 DEF Log, LogTypeOK, LineInv
    <3>2. CASE ~ Refused(line)
      <4>1. writing' = [writing EXCEPT ![w] = [at |-> "find", line |-> line, key |-> day, file |-> 0]]
        BY <2>1, <3>2 DEF Log
      <4>2. [at |-> "find", line |-> line, key |-> day, file |-> 0] \in
              [at : {"idle", "find", "write"}, line : Lines \cup {NoLine}, key : Days, file : 0..MaxOpenings]
        BY DEF LogTypeOK
      <4>3. LogTypeOK'
        BY <2>1, <3>2, <4>1, <4>2, BeganTyped DEF Log, LogTypeOK
      <4>4. LineInv'
        BY <4>1 DEF LogTypeOK, LineInv
      <4> QED
        BY <4>3, <4>4
    <3> QED
      BY <3>1, <3>2
  <2>2. ASSUME NEW w \in Writers, FindFile(w) PROVE LogTypeOK' /\ LineInv'
    BY <2>2 DEF FindFile, LogTypeOK, LineInv, Busy
  <2>3. ASSUME NEW w \in Writers, OpenLog(w) PROVE LogTypeOK' /\ LineInv'
    <3>1. openings + 1 \in 1..MaxOpenings
      BY <2>3 DEF OpenLog, LogTypeOK
    <3>2. writing[w].key \in Days
      BY DEF LogTypeOK
    <3>3. /\ openings' \in 0..MaxOpenings /\ openFiles' \subseteq 1..MaxOpenings
          /\ files' \in [Days -> 0..MaxOpenings]
      BY <2>3, <3>1, <3>2 DEF OpenLog, LogTypeOK
    <3>4. writing' \in [Writers -> [at : {"idle", "find", "write"}, line : Lines \cup {NoLine},
                                    key : Days, file : 0..MaxOpenings]]
      <4>1. [writing[w] EXCEPT !.at = "write", !.file = openings + 1] \in
              [at : {"idle", "find", "write"}, line : Lines \cup {NoLine}, key : Days, file : 0..MaxOpenings]
        <5> DEFINE n == openings + 1
        <5>1. n \in 0..MaxOpenings
          BY <3>1
        <5> HIDE DEF n
        <5>2. [writing[w] EXCEPT !.at = "write", !.file = n] \in
                [at : {"idle", "find", "write"}, line : Lines \cup {NoLine}, key : Days, file : 0..MaxOpenings]
          BY <5>1 DEF LogTypeOK
        <5> QED
          BY <5>2 DEF n
      <4> QED
        BY <2>3, <4>1, BeganTyped DEF OpenLog
    <3>5. LineInv'
      BY <2>3 DEF OpenLog, LogTypeOK, LineInv, Busy
    <3> QED
      BY <2>3, <3>3, <3>4, <3>5 DEF OpenLog, LogTypeOK
  <2>4. ASSUME NEW w \in Writers, OpenLogFails(w) PROVE LogTypeOK' /\ LineInv'
    BY <2>4 DEF OpenLogFails, LogTypeOK, LineInv, Busy, Listening, Days
  <2>5. ASSUME NEW w \in Writers, WriteLine(w) PROVE LogTypeOK' /\ LineInv'
    BY <2>5 DEF WriteLine, LogTypeOK, LineInv, Busy, Listening, Days
  <2>6. CASE Midnight
    BY <2>6 DEF Midnight, LogTypeOK, LineInv, Days
  <2>7. CASE DateCheck
    BY <2>7, OvertakenTyped DEF DateCheck, LogTypeOK, LineInv
  <2>8. CASE Close
    <3>1. CASE stopped
      BY <2>8, <3>1 DEF Close, LogTypeOK, LineInv
    <3>2. CASE ~ stopped
      BY <2>8, <3>2, OvertakenTyped DEF Close, LogTypeOK, LineInv
    <3> QED
      BY <3>1, <3>2
  <2>9. CASE Clear
    BY <2>9 DEF Clear, LogTypeOK, LineInv
  <2>10. CASE SetLogConfig
    BY <2>10 DEF SetLogConfig, LogTypeOK, LineInv
  <2>11. CASE UNCHANGED logVars
    BY <2>11 DEF logVars, LogTypeOK, LineInv
  <2> QED
    BY <2>1, <2>2, <2>3, <2>4, <2>5, <2>6, <2>7, <2>8, <2>9, <2>10, <2>11 DEF LogNext
<1> QED
  BY <1>1, <1>2, PTL DEF LogSpec

-----------------------------------------------------------------------------
(***************************************************************************)
(* The file of every day in the map is open, and so is the one a writer has *)
(* got, unless its line was overtaken.                                      *)
(***************************************************************************)
FilesInv ==
  /\ \A d \in Days : files[d] # 0 => files[d] \in openFiles
  /\ \A w \in Writers : writing[w].at = "write" =>
       writing[w].file \in openFiles \/ writing[w].line \in overtaken

LEMMA ClosingKeeps ==
  ASSUME LogTypeOK, FilesInv, ~ dead, CloseFiles, files' = [d \in Days |-> 0], UNCHANGED writing
  PROVE  FilesInv' /\ overtaken \subseteq overtaken'
<1> DEFINE closing == {files[d] : d \in Days} \cap openFiles
<1>1. /\ openFiles' = openFiles \ closing /\ overtaken \subseteq overtaken'
      /\ \A w \in Writers : Busy(w, "write") /\ writing[w].file \in closing => writing[w].line \in overtaken'
  BY DEF CloseFiles
<1> HIDE DEF closing
<1>2. \A w \in Writers : writing[w].at = "write" => Busy(w, "write")
  BY DEF Busy
<1> QED
  BY <1>1, <1>2 DEF FilesInv

\* A new day, Close and the clearing of the log cost no line but those under way.
THEOREM LinesAreWritten == LogSpec => []LinesWritten
<1>1. LogInit => FilesInv /\ LinesWritten
  BY DEF LogInit, FilesInv, LinesWritten, Listening
<1>2. LogTypeOK /\ LineInv /\ FilesInv /\ LinesWritten /\ [LogNext]_logVars => FilesInv' /\ LinesWritten'
  <2> SUFFICES ASSUME LogTypeOK, LineInv, FilesInv, LinesWritten, [LogNext]_logVars
               PROVE  FilesInv' /\ LinesWritten'
    OBVIOUS
  <2>1. ASSUME NEW w \in Writers, NEW line \in Lines, Log(w, line) PROVE FilesInv' /\ LinesWritten'
    BY <2>1 DEF Log, FilesInv, LinesWritten, LogTypeOK
  <2>2. ASSUME NEW w \in Writers, FindFile(w) PROVE FilesInv' /\ LinesWritten'
    <3>1. writing[w].key \in Days /\ files[writing[w].key] \in openFiles
      BY <2>2 DEF FindFile, FilesInv, LogTypeOK
    <3> QED
      BY <2>2, <3>1 DEF FindFile, FilesInv, LinesWritten, LogTypeOK
  <2>3. ASSUME NEW w \in Writers, OpenLog(w) PROVE FilesInv' /\ LinesWritten'
    <3>1. openings + 1 \in openFiles' /\ openFiles \subseteq openFiles'
      BY <2>3 DEF OpenLog
    <3> QED
      BY <2>3, <3>1 DEF OpenLog, FilesInv, LinesWritten, LogTypeOK
  <2>4. ASSUME NEW w \in Writers, OpenLogFails(w) PROVE FilesInv' /\ LinesWritten'
    BY <2>4 DEF OpenLogFails, FilesInv, LinesWritten, LogTypeOK, Listening
  <2>5. ASSUME NEW w \in Writers, WriteLine(w) PROVE FilesInv' /\ LinesWritten'
    <3>1. writing[w].line \in content' \cup overtaken /\ content \subseteq content'
      BY <2>5 DEF WriteLine, FilesInv, Busy
    <3> QED
      BY <2>5, <3>1 DEF WriteLine, FilesInv, LinesWritten, LogTypeOK, Listening
  <2>6. CASE DateCheck
    BY <2>6, ClosingKeeps DEF DateCheck, LinesWritten
  <2>7. CASE Close
    <3>1. CASE stopped
      BY <2>7, <3>1 DEF Close, FilesInv, LinesWritten
    <3>2. CASE ~ stopped
      BY <2>7, <3>2, ClosingKeeps DEF Close, LinesWritten
    <3> QED
      BY <3>1, <3>2
  <2>8. CASE Midnight \/ Clear \/ SetLogConfig \/ UNCHANGED logVars
    BY <2>8 DEF Midnight, Clear, SetLogConfig, logVars, FilesInv, LinesWritten
  <2> QED
    BY <2>1, <2>2, <2>3, <2>4, <2>5, <2>6, <2>7, <2>8 DEF LogNext
<1> QED
  BY <1>1, <1>2, LogFilesTyping, PTL DEF LogSpec

-----------------------------------------------------------------------------
(***************************************************************************)
(* Shared links.                                                            *)
(***************************************************************************)

Visiting == [op : ShareOps \cup {"none"},
             at : {"idle", "add", "look", "check", "count", "drop", "clean", "read",
                   "save", "open", "write"},
             token : Tokens \cup {NoToken}, seen : SUBSET Tokens]

SaveSteps == {"save", "open", "write"}

\* The steps of each operation.
FlowInv ==
  \A v \in Visitors :
    LET r == visit[v] IN
      /\ r.op = "none" <=> r.at = "idle"
      /\ r.op = "share" => r.at \in {"add"} \cup SaveSteps
      /\ r.op = "delete" => r.at \in {"drop"} \cup SaveSteps
      /\ r.op = "list" => r.at \in {"clean", "read"} \cup SaveSteps
      /\ r.op \in {"info", "page", "download"} => r.at \in {"look", "check", "count", "drop"} \cup SaveSteps
      /\ r.op \notin {"none", "list"} => r.token \in Tokens

\* A step of one request.
LEMMA OneMoves ==
  ASSUME ShareTypeOK, NEW v \in Visitors, NEW r \in Visiting, visit' = [visit EXCEPT ![v] = r]
  PROVE  /\ visit' \in [Visitors -> Visiting]
         /\ visit'[v] = r /\ \A w \in Visitors : w # v => visit'[w] = visit[w]
BY DEF ShareTypeOK, Visiting

LEMMA GotoMoves ==
  ASSUME ShareTypeOK, NEW v \in Visitors,
         NEW step \in {"idle", "add", "look", "check", "count", "drop", "clean", "read", "save", "open", "write"},
         Goto(v, step)
  PROVE  /\ visit' \in [Visitors -> Visiting]
         /\ visit'[v].at = step /\ visit'[v].op = visit[v].op
         /\ visit'[v].token = visit[v].token /\ visit'[v].seen = visit[v].seen
         /\ \A w \in Visitors : w # v => visit'[w] = visit[w]
BY DEF ShareTypeOK, Visiting, Goto

LEMMA RestingIsTyped == /\ Resting \in Visiting /\ Resting.op = "none" /\ Resting.at = "idle"
                        /\ Resting.token = NoToken /\ Resting.seen = {}
BY DEF Resting, Visiting

LEMMA AnswerMoves ==
  ASSUME ShareTypeOK, FlowInv, NEW v \in Visitors, Answer(v)
  PROVE  /\ visit' \in [Visitors -> Visiting]
         /\ visit'[v] = Resting /\ \A w \in Visitors : w # v => visit'[w] = visit[w]
         /\ visit[v].op # "share" => told' = told
         /\ visit[v].op # "delete" => dropped' = dropped
         /\ told' \subseteq Tokens /\ dropped' \subseteq Tokens
<1>1. visit' = [visit EXCEPT ![v] = Resting]
  BY DEF Answer
<1>2. visit[v].op \in {"share", "delete"} => visit[v].token \in Tokens
  BY DEF FlowInv
<1> QED
  BY <1>1, <1>2, RestingIsTyped, OneMoves DEF Answer, ShareTypeOK

\* Every state of the shared links is well typed, and a request takes the steps of its operation.
THEOREM ShareLinksTyping == ShareSpec => [](ShareTypeOK /\ FlowInv)
<1> USE ShareBoundsAreNaturals, ShareUsesAreTyped, NoVisitorIsNone, NoTokenIsNone
<1>1. ShareInit => ShareTypeOK /\ FlowInv
  <2> SUFFICES ASSUME ShareInit PROVE ShareTypeOK /\ FlowInv
    OBVIOUS
  <2>1. visit \in [Visitors -> Visiting] /\ FlowInv
    BY RestingIsTyped DEF ShareInit, FlowInv
  <2> QED
    BY <2>1 DEF ShareInit, ShareTypeOK, Visiting, SharesFile
<1>2. ShareTypeOK /\ FlowInv /\ [ShareNext]_shareVars => ShareTypeOK' /\ FlowInv'
  <2> SUFFICES ASSUME ShareTypeOK, FlowInv, [ShareNext]_shareVars PROVE ShareTypeOK' /\ FlowInv'
    OBVIOUS
  <2>1. ASSUME NEW v \in Visitors, NEW op \in shareUse.ops, NEW t \in Tokens \cup {NoToken}, Visit(v, op, t)
        PROVE  ShareTypeOK' /\ FlowInv'
    <3>1. op \in ShareOps
      BY DEF ShareTypeOK, ShareUseType
    <3>2. op # "list" => t \in Tokens
      BY <2>1, <3>1 DEF Visit, Known, ShareTypeOK, SharesFile, ShareOps
    <3>3. FirstStep(op) \in {"add", "drop", "clean", "look"}
      BY <3>1 DEF FirstStep, ShareOps
    <3>4. [op |-> op, at |-> FirstStep(op), token |-> t, seen |-> {}] \in Visiting
      BY <3>1, <3>3 DEF Visiting
    <3>5. visit' \in [Visitors -> Visiting]
      BY <2>1, <3>4, OneMoves DEF Visit
    <3>6. FlowInv'
      BY <2>1, <3>1, <3>2, <3>4, OneMoves DEF Visit, FlowInv, FirstStep, ShareOps
    <3>7. asked' \subseteq Tokens
      BY <2>1, <3>2 DEF Visit, ShareTypeOK
    <3> QED
      BY <2>1, <3>5, <3>6, <3>7 DEF Visit, ShareTypeOK, Visiting
  <2>2. ASSUME NEW v \in Visitors, Add(v) PROVE ShareTypeOK' /\ FlowInv'
    BY <2>2, GotoMoves DEF Add, At, FlowInv, ShareTypeOK, Visiting, SaveSteps
  <2>3. ASSUME NEW v \in Visitors, Look(v) PROVE ShareTypeOK' /\ FlowInv'
    BY <2>3, GotoMoves, AnswerMoves, RestingIsTyped DEF Look, At, FlowInv, ShareTypeOK, Visiting, SaveSteps
  <2>4. ASSUME NEW v \in Visitors, ShowPage(v) PROVE ShareTypeOK' /\ FlowInv'
    BY <2>4, AnswerMoves, RestingIsTyped DEF ShowPage, FlowInv, ShareTypeOK, Visiting
  <2>5. ASSUME NEW v \in Visitors, Check(v) PROVE ShareTypeOK' /\ FlowInv'
    BY <2>5, GotoMoves, AnswerMoves, RestingIsTyped DEF Check, At, FlowInv, ShareTypeOK, Visiting, SaveSteps
  <2>6. ASSUME NEW v \in Visitors, Count(v) PROVE ShareTypeOK' /\ FlowInv'
    <3>1. visit[v].token \in Tokens
      BY <2>6 DEF Count, At, FlowInv, SaveSteps, ShareTypeOK, ShareOps
    <3>2. downloads' \in [Tokens -> 0..MaxDownloads]
      BY <2>6, <3>1 DEF Count, ShareTypeOK
    <3> QED
      BY <2>6, <3>2, AnswerMoves, RestingIsTyped DEF Count, FlowInv, ShareTypeOK, Visiting
  <2>7. ASSUME NEW v \in Visitors, Drop(v) PROVE ShareTypeOK' /\ FlowInv'
    BY <2>7, GotoMoves DEF Drop, At, FlowInv, ShareTypeOK, Visiting, SaveSteps
  <2>8. ASSUME NEW v \in Visitors, CleanExpired(v) PROVE ShareTypeOK' /\ FlowInv'
    BY <2>8, GotoMoves DEF CleanExpired, At, FlowInv, ShareTypeOK, Visiting, SaveSteps
  <2>9. ASSUME NEW v \in Visitors, List(v) PROVE ShareTypeOK' /\ FlowInv'
    BY <2>9, AnswerMoves, RestingIsTyped DEF List, FlowInv, ShareTypeOK, Visiting
  <2>10. ASSUME NEW v \in Visitors, Snapshot(v) PROVE ShareTypeOK' /\ FlowInv'
    <3>1. [visit[v] EXCEPT !.at = "open", !.seen = links] \in Visiting
      BY DEF ShareTypeOK, Visiting
    <3> QED
      BY <2>10, <3>1, OneMoves DEF Snapshot, At, FlowInv, ShareTypeOK, Visiting, SaveSteps
  <2>11. ASSUME NEW v \in Visitors, Open(v) PROVE ShareTypeOK' /\ FlowInv'
    BY <2>11, GotoMoves DEF Open, At, FlowInv, ShareTypeOK, Visiting, SaveSteps, SharesFile
  <2>12. ASSUME NEW v \in Visitors, WriteShares(v) PROVE ShareTypeOK' /\ FlowInv'
    <3>1. shares' \in SharesFile
      <4>1. visit[v].seen \subseteq Tokens
        BY DEF ShareTypeOK
      <4>2. PICK whole \in BOOLEAN : shares' = [whole |-> whole, links |-> visit[v].seen]
        BY <2>12 DEF WriteShares
      <4> QED
        BY <4>1, <4>2 DEF SharesFile
    <3> QED
      BY <2>12, <3>1, AnswerMoves, RestingIsTyped DEF WriteShares, FlowInv, ShareTypeOK, Visiting
  <2>13. ASSUME NEW v \in Visitors, SaveFails(v) PROVE ShareTypeOK' /\ FlowInv'
    BY <2>13, AnswerMoves, RestingIsTyped DEF SaveFails, FlowInv, ShareTypeOK, Visiting
  <2>14. ASSUME NEW t \in Tokens, Expire(t) PROVE ShareTypeOK' /\ FlowInv'
    BY <2>14 DEF Expire, FlowInv, ShareTypeOK
  <2>15. CASE Restart
    <3>1. visit' \in [Visitors -> Visiting] /\ FlowInv'
      BY <2>15, RestingIsTyped DEF Restart, FlowInv
    <3>2. links' \subseteq Tokens
      BY <2>15 DEF Restart, ShareTypeOK, SharesFile
    <3> QED
      BY <2>15, <3>1, <3>2 DEF Restart, ShareTypeOK, Visiting
  <2>16. CASE UNCHANGED shareVars
    BY <2>16 DEF shareVars, ShareTypeOK, FlowInv
  <2> QED
    BY <2>1, <2>2, <2>3, <2>4, <2>5, <2>6, <2>7, <2>8, <2>9, <2>10, <2>11, <2>12, <2>13, <2>14,
       <2>15, <2>16 DEF ShareNext, ShareStep
<1> QED
  BY <1>1, <1>2, PTL DEF ShareSpec

-----------------------------------------------------------------------------
(* What happens to a link that a client was given, or told is deleted.      *)

Careful == ~ shareUse.overlap /\ ~ shareUse.faults /\ ~ shareUse.midSave

NoWriter == \A v \in Visitors : ~ At(v, "write")

\* One save at a time; the file is whole unless it is being written.
SaveInv ==
  /\ \A v, w \in Visitors : Saving(v) /\ Saving(w) => v = w
  /\ \A v \in Visitors : At(v, "write") => shares.links = {}
  /\ NoWriter => shares.whole

\* A link that was given away is in the map, in the file and in a snapshot.
ToldInv ==
  /\ told \subseteq links \cup asked \cup expired
  /\ NoWriter => told \subseteq shares.links \cup asked \cup expired
  /\ \A v \in Visitors : Saving(v) => told \subseteq visit[v].seen \cup asked \cup expired

\* A link that is gone is in none of them.
DroppedInv ==
  /\ dropped \subseteq asked
  /\ dropped \cap (links \cup shares.links) = {}
  /\ \A v \in Visitors : Saving(v) => dropped \cap visit[v].seen = {}

\* The link of a request that creates it: unheard of, then where ToldInv wants it.
NewInv ==
  /\ \A v \in Visitors : visit[v].op = "share" /\ visit[v].at \in SaveSteps =>
       visit[v].token \in links \cup asked \cup expired
  /\ \A v \in Visitors : visit[v].op = "share" /\ Saving(v) =>
       visit[v].token \in visit[v].seen \cup asked \cup expired
  /\ \A v \in Visitors : At(v, "add") =>
       visit[v].token \notin links \cup expired \cup told \cup shares.links \cup asked
  /\ \A v, w \in Visitors : At(v, "add") => visit[v].token \notin visit[w].seen
  /\ \A v, w \in Visitors : At(v, "add") /\ At(w, "add") /\ visit[v].token = visit[w].token => v = w
  /\ \A v \in Visitors : visit[v].seen \subseteq links \cup asked \cup expired

\* The link of a request that deletes it.
OldInv ==
  /\ \A v \in Visitors : visit[v].op = "delete" => visit[v].token \in asked
  /\ \A v \in Visitors : visit[v].op = "delete" /\ visit[v].at \in SaveSteps => visit[v].token \notin links
  /\ \A v \in Visitors : visit[v].op = "delete" /\ Saving(v) => visit[v].token \notin visit[v].seen
  /\ \A v \in Visitors : At(v, "drop") /\ visit[v].op # "delete" => visit[v].token \in expired

KeptInv == SaveInv /\ ToldInv /\ DroppedInv /\ NewInv /\ OldInv

\* A step of a request that neither saves, creates nor deletes.
LEMMA QuietStep ==
  ASSUME KeptInv, NEW v \in Visitors,
         \A w \in Visitors : w # v => visit'[w] = visit[w],
         ~ Saving(v), visit'[v].op \notin {"share", "delete"},
         visit'[v].at \in {"idle", "look", "check", "count", "clean", "read", "drop"},
         visit'[v].at = "drop" => visit'[v].token \in expired,
         visit'[v].seen \in {{}, visit[v].seen},
         UNCHANGED <<links, shares, expired, told, asked, dropped>>
  PROVE  KeptInv'
<1>1. SaveInv'
  BY DEF KeptInv, SaveInv, NoWriter, Saving, At
<1>2. ToldInv'
  BY DEF KeptInv, ToldInv, NoWriter, Saving, At
<1>3. DroppedInv'
  BY DEF KeptInv, DroppedInv, Saving
<1>4. NewInv'
  BY DEF KeptInv, NewInv, Saving, At, SaveSteps
<1>5. OldInv'
  BY DEF KeptInv, OldInv, Saving, At, SaveSteps
<1> QED
  BY <1>1, <1>2, <1>3, <1>4, <1>5 DEF KeptInv

LEMMA VisitKeeps ==
  ASSUME ShareTypeOK, FlowInv, KeptInv, NEW v \in Visitors, NEW op \in ShareOps,
         NEW t \in Tokens \cup {NoToken}, Visit(v, op, t)
  PROVE  KeptInv'
<1>1. /\ At(v, "idle") /\ ~ Saving(v)
      /\ UNCHANGED <<links, downloads, holder, shares, expired, told, dropped, restarts, shareUse>>
      /\ asked' = IF op = "delete" THEN asked \cup {t} ELSE asked
  BY DEF Visit, At, Saving
<1>2. FirstStep(op) \in {"add", "drop", "clean", "look"}
  BY DEF FirstStep, ShareOps
<1>3. [op |-> op, at |-> FirstStep(op), token |-> t, seen |-> {}] \in Visiting
  BY <1>2 DEF Visiting
<1>4. /\ visit'[v] = [op |-> op, at |-> FirstStep(op), token |-> t, seen |-> {}]
      /\ \A w \in Visitors : w # v => visit'[w] = visit[w]
  BY <1>3, OneMoves DEF Visit
<1>5. ~ Saving(v)' /\ ~ At(v, "write")'
  BY <1>2, <1>4 DEF Saving, At
<1>6. CASE op = "share"
  <2>1. /\ visit'[v].at = "add" /\ visit'[v].op = "share" /\ visit'[v].token = t /\ visit'[v].seen = {}
        /\ t \notin Known \cup asked /\ \A w \in Visitors : visit[w].token # t
        /\ asked' = asked
    BY <1>1, <1>4, <1>6 DEF FirstStep, Visit
  <2>2. SaveInv' /\ ToldInv' /\ DroppedInv'
    BY <1>1, <1>4, <1>5, <2>1 DEF KeptInv, SaveInv, ToldInv, DroppedInv, NoWriter, Saving, At
  <2>3. NewInv'
    BY <1>1, <1>4, <1>5, <2>1 DEF KeptInv, NewInv, Saving, At, SaveSteps, Known
  <2>4. OldInv'
    BY <1>1, <1>4, <1>5, <2>1 DEF KeptInv, OldInv, Saving, At, SaveSteps
  <2> QED
    BY <2>2, <2>3, <2>4 DEF KeptInv
<1>7. CASE op = "delete"
  <2>1. /\ visit'[v].at = "drop" /\ visit'[v].op = "delete" /\ visit'[v].token = t /\ visit'[v].seen = {}
        /\ t \in Known /\ asked' = asked \cup {t}
    BY <1>1, <1>4, <1>7 DEF FirstStep, Visit
  <2>2. SaveInv' /\ ToldInv' /\ DroppedInv'
    BY <1>1, <1>4, <1>5, <2>1 DEF KeptInv, SaveInv, ToldInv, DroppedInv, NoWriter, Saving, At
  <2>3. NewInv'
    BY <1>1, <1>4, <1>5, <2>1 DEF KeptInv, NewInv, Saving, At, SaveSteps, Known
  <2>4. OldInv'
    BY <1>1, <1>4, <1>5, <2>1 DEF KeptInv, OldInv, Saving, At, SaveSteps
  <2> QED
    BY <2>2, <2>3, <2>4 DEF KeptInv
<1>8. CASE op \notin {"share", "delete"}
  <2>1. FirstStep(op) \in {"clean", "look"}
    BY <1>8 DEF FirstStep, ShareOps
  <2> QED
    BY <1>1, <1>4, <1>8, <2>1, QuietStep
<1> QED
  BY <1>6, <1>7, <1>8

LEMMA AddKeeps ==
  ASSUME ShareTypeOK, FlowInv, KeptInv, NEW v \in Visitors, Add(v) PROVE KeptInv'
<1>1. /\ visit[v].at = "add" /\ visit[v].op = "share" /\ links' = links \cup {visit[v].token}
      /\ UNCHANGED <<downloads, holder, shares, expired, told, asked, dropped, restarts, shareUse>>
  BY DEF Add, At, FlowInv, ShareTypeOK, SaveSteps, ShareOps
<1>2. /\ visit'[v].at = "save" /\ visit'[v].op = visit[v].op /\ visit'[v].token = visit[v].token
      /\ visit'[v].seen = visit[v].seen /\ \A w \in Visitors : w # v => visit'[w] = visit[w]
  BY GotoMoves DEF Add
<1>3. SaveInv' /\ ToldInv' /\ DroppedInv'
  <2>1. visit[v].token \notin dropped
    BY <1>1 DEF KeptInv, NewInv, DroppedInv, At
  <2> QED
    BY <1>1, <1>2, <2>1 DEF KeptInv, SaveInv, ToldInv, DroppedInv, NoWriter, Saving, At
<1>4. NewInv'
  BY <1>1, <1>2 DEF KeptInv, NewInv, Saving, At, SaveSteps
<1>5. OldInv'
  <2>1. visit[v].token \notin asked
    BY <1>1 DEF KeptInv, NewInv, At
  <2> QED
    BY <1>1, <1>2, <2>1 DEF KeptInv, OldInv, Saving, At, SaveSteps
<1> QED
  BY <1>3, <1>4, <1>5 DEF KeptInv

\* Drop and CleanExpired take links away that are expired or asked for.
LEMMA RemovalKeeps ==
  ASSUME KeptInv, NEW v \in Visitors, visit[v].at \in {"drop", "clean"},
         visit[v].op # "share",
         visit'[v].at \in {"save", "read"}, visit'[v].op = visit[v].op, visit'[v].token = visit[v].token,
         visit'[v].seen = visit[v].seen, \A w \in Visitors : w # v => visit'[w] = visit[w],
         links' \subseteq links, links \subseteq links' \cup asked \cup expired,
         visit[v].op = "delete" => visit[v].token \notin links',
         UNCHANGED <<shares, expired, told, asked, dropped>>
  PROVE  KeptInv'
<1>1. SaveInv' /\ DroppedInv'
  BY DEF KeptInv, SaveInv, DroppedInv, NoWriter, Saving, At
<1>2. ToldInv'
  BY DEF KeptInv, ToldInv, NoWriter, Saving, At
<1>3. NewInv'
  BY DEF KeptInv, NewInv, Saving, At, SaveSteps
<1>4. OldInv'
  BY DEF KeptInv, OldInv, Saving, At, SaveSteps
<1> QED
  BY <1>1, <1>2, <1>3, <1>4 DEF KeptInv

LEMMA DropKeeps ==
  ASSUME ShareTypeOK, FlowInv, KeptInv, NEW v \in Visitors, Drop(v) PROVE KeptInv'
<1>1. /\ visit[v].at = "drop" /\ visit[v].op # "share" /\ links' = links \ {visit[v].token}
      /\ visit[v].token \in asked \cup expired
      /\ UNCHANGED <<shares, expired, told, asked, dropped>>
  BY DEF Drop, At, FlowInv, SaveSteps, KeptInv, OldInv
<1>2. /\ visit'[v].at = "save" /\ visit'[v].op = visit[v].op /\ visit'[v].token = visit[v].token
      /\ visit'[v].seen = visit[v].seen /\ \A w \in Visitors : w # v => visit'[w] = visit[w]
  BY GotoMoves DEF Drop
<1> QED
  BY <1>1, <1>2, RemovalKeeps

LEMMA CleanKeeps ==
  ASSUME ShareTypeOK, FlowInv, KeptInv, NEW v \in Visitors, CleanExpired(v) PROVE KeptInv'
<1>1. /\ visit[v].at = "clean" /\ visit[v].op \notin {"share", "delete"} /\ links' = links \ expired
      /\ UNCHANGED <<shares, expired, told, asked, dropped>>
  BY DEF CleanExpired, At, FlowInv, SaveSteps
<1>2. /\ visit'[v].at \in {"save", "read"} /\ visit'[v].op = visit[v].op /\ visit'[v].token = visit[v].token
      /\ visit'[v].seen = visit[v].seen /\ \A w \in Visitors : w # v => visit'[w] = visit[w]
  BY GotoMoves DEF CleanExpired
<1> QED
  BY <1>1, <1>2, RemovalKeeps

LEMMA SnapshotKeeps ==
  ASSUME ShareTypeOK, FlowInv, Careful, KeptInv, NEW v \in Visitors, Snapshot(v) PROVE KeptInv'
<1>1. /\ visit[v].at = "save" /\ \A w \in Visitors : ~ Saving(w)
      /\ UNCHANGED <<links, downloads, holder, shares, expired, told, asked, dropped, restarts, shareUse>>
  BY DEF Snapshot, At, Careful
<1>2. [visit[v] EXCEPT !.at = "open", !.seen = links] \in Visiting
  BY DEF ShareTypeOK, Visiting
<1>3. visit'[v] = [visit[v] EXCEPT !.at = "open", !.seen = links]
      /\ \A w \in Visitors : w # v => visit'[w] = visit[w]
  BY <1>2, OneMoves DEF Snapshot
<1>4. visit'[v].at = "open" /\ visit'[v].seen = links /\ visit'[v].op = visit[v].op
      /\ visit'[v].token = visit[v].token
  BY <1>3 DEF ShareTypeOK
<1>5. SaveInv' /\ ToldInv' /\ DroppedInv'
  BY <1>1, <1>3, <1>4 DEF KeptInv, SaveInv, ToldInv, DroppedInv, NoWriter, Saving, At
<1>6. NewInv'
  <2>1. \A w \in Visitors : visit[w].op = "share" /\ visit[w].at \in SaveSteps =>
          visit[w].token \in links \cup asked \cup expired
    BY DEF KeptInv, NewInv
  <2>2. \A w \in Visitors : At(w, "add") =>
          /\ visit[w].token \notin links \cup expired \cup told \cup shares.links \cup asked
          /\ \A u \in Visitors : /\ visit[w].token \notin visit[u].seen
                                 /\ At(u, "add") /\ visit[w].token = visit[u].token => w = u
    BY DEF KeptInv, NewInv
  <2>3. \A w \in Visitors : visit[w].seen \subseteq links \cup asked \cup expired
    BY DEF KeptInv, NewInv
  <2>4. \A w \in Visitors : /\ visit'[w].op = visit[w].op /\ visit'[w].token = visit[w].token
                            /\ visit'[w].seen = visit[w].seen \/ visit'[w].seen = links
                            /\ w # v => visit'[w] = visit[w]
    <3>1. ASSUME NEW w \in Visitors, w # v
          PROVE  visit'[w] = visit[w]
      BY <1>3, <3>1
    <3> QED
      BY <1>4, <3>1
  <2>5. ASSUME NEW w \in Visitors, At(w, "add")'
        PROVE  At(w, "add") /\ w # v /\ visit'[w].token = visit[w].token
    <3>1. w # v
      BY <1>4, <2>5 DEF At
    <3> QED
      BY <2>4, <2>5, <3>1 DEF At
  <2>6. ASSUME NEW w \in Visitors, visit'[w].op = "share", visit'[w].at \in SaveSteps
        PROVE  visit'[w].token \in links \cup asked \cup expired
    <3>1. CASE w = v
      BY <1>1, <1>4, <2>1, <2>6, <3>1 DEF SaveSteps
    <3>2. CASE w # v
      BY <2>1, <2>4, <2>6, <3>2
    <3> QED
      BY <3>1, <3>2
  <2>7. \A w \in Visitors : Saving(w)' => w = v
    BY <1>1, <1>3 DEF Saving
  <2>8. \A w \in Visitors : visit'[w].op = "share" /\ Saving(w)' =>
          visit'[w].token \in visit'[w].seen \cup asked \cup expired
    BY <1>1, <1>4, <2>1, <2>7 DEF SaveSteps
  <2>9. \A w \in Visitors : At(w, "add")' =>
          visit'[w].token \notin links \cup expired \cup told \cup shares.links \cup asked
    BY <2>2, <2>5
  <2>10. ASSUME NEW w \in Visitors, NEW u \in Visitors, At(w, "add")'
         PROVE  visit'[w].token \notin visit'[u].seen
    <3>1. At(w, "add") /\ visit'[w].token = visit[w].token
      BY <2>5, <2>10
    <3>2. visit[w].token \notin links /\ visit[w].token \notin visit[u].seen
      BY <2>2, <2>10, <3>1
    <3>3. visit'[u].seen = visit[u].seen \/ visit'[u].seen = links
      BY <2>4, <2>10
    <3> QED
      BY <3>1, <3>2, <3>3
  <2>11. \A w, u \in Visitors : At(w, "add")' /\ At(u, "add")' /\ visit'[w].token = visit'[u].token => w = u
    BY <2>2, <2>5
  <2>12. ASSUME NEW w \in Visitors
         PROVE  visit'[w].seen \subseteq links \cup asked \cup expired
    <3>1. visit'[w].seen = visit[w].seen \/ visit'[w].seen = links
      BY <2>4, <2>12
    <3>2. visit[w].seen \subseteq links \cup asked \cup expired
      BY <2>3, <2>12
    <3> QED
      BY <3>1, <3>2
  <2> QED
    BY <1>1, <2>6, <2>8, <2>9, <2>10, <2>11, <2>12 DEF NewInv
<1>7. OldInv'
  BY <1>1, <1>3, <1>4 DEF KeptInv, OldInv, Saving, At, SaveSteps
<1> QED
  BY <1>5, <1>6, <1>7 DEF KeptInv

LEMMA OpenKeeps ==
  ASSUME ShareTypeOK, FlowInv, KeptInv, NEW v \in Visitors, Open(v) PROVE KeptInv'
<1>1. /\ visit[v].at = "open" /\ shares'.links = {}
      /\ UNCHANGED <<links, downloads, holder, expired, told, asked, dropped, restarts, shareUse>>
  BY DEF Open, At
<1>2. /\ visit'[v].at = "write" /\ visit'[v].op = visit[v].op /\ visit'[v].token = visit[v].token
      /\ visit'[v].seen = visit[v].seen /\ \A w \in Visitors : w # v => visit'[w] = visit[w]
  BY GotoMoves DEF Open
<1>3. SaveInv' /\ ToldInv' /\ DroppedInv'
  BY <1>1, <1>2 DEF KeptInv, SaveInv, ToldInv, DroppedInv, NoWriter, Saving, At
<1>4. NewInv'
  BY <1>1, <1>2 DEF KeptInv, NewInv, Saving, At, SaveSteps
<1>5. OldInv'
  BY <1>1, <1>2 DEF KeptInv, OldInv, Saving, At, SaveSteps
<1> QED
  BY <1>3, <1>4, <1>5 DEF KeptInv

LEMMA WriteKeeps ==
  ASSUME ShareTypeOK, FlowInv, KeptInv, NEW v \in Visitors, WriteShares(v) PROVE KeptInv'
<1>1. /\ visit[v].at = "write" /\ shares.links = {} /\ Saving(v)
      /\ UNCHANGED <<links, downloads, holder, expired, asked, restarts, shareUse>>
  BY DEF WriteShares, At, Saving, KeptInv, SaveInv
<1>2. shares' = [whole |-> TRUE, links |-> visit[v].seen]
  BY <1>1 DEF WriteShares
<1>3. visit'[v] = Resting /\ \A w \in Visitors : w # v => visit'[w] = visit[w]
  BY AnswerMoves DEF WriteShares
<1>4. /\ told' = IF visit[v].op = "share" THEN told \cup {visit[v].token} ELSE told
      /\ dropped' = IF visit[v].op = "delete" THEN dropped \cup {visit[v].token} ELSE dropped
  BY DEF WriteShares, Answer
<1>5. \A w \in Visitors : w # v => ~ Saving(w)
  BY <1>1 DEF KeptInv, SaveInv
<1>6. \A w \in Visitors : ~ Saving(w)'
  BY <1>3, <1>5, RestingIsTyped DEF Saving
<1>7. \A w \in Visitors : ~ At(w, "write")'
  BY <1>6 DEF Saving, At
<1>8. shares'.whole /\ shares'.links = visit[v].seen
  BY <1>2
<1>9. SaveInv'
  BY <1>6, <1>7, <1>8 DEF SaveInv
<1>10. ToldInv'
  <2>1. told' \subseteq links \cup asked \cup expired
    BY <1>1, <1>4 DEF KeptInv, ToldInv, NewInv, SaveSteps
  <2>2. told' \subseteq visit[v].seen \cup asked \cup expired
    BY <1>1, <1>4 DEF KeptInv, ToldInv, NewInv
  <2> QED
    BY <1>1, <1>6, <1>8, <2>1, <2>2 DEF ToldInv
<1>11. DroppedInv'
  <2>1. dropped' \subseteq asked
    BY <1>4 DEF KeptInv, DroppedInv, OldInv
  <2>2. dropped' \cap links = {}
    BY <1>1, <1>4 DEF KeptInv, DroppedInv, OldInv, SaveSteps
  <2>3. dropped' \cap visit[v].seen = {}
    BY <1>1, <1>4 DEF KeptInv, DroppedInv, OldInv
  <2> QED
    BY <1>1, <1>6, <1>8, <2>1, <2>2, <2>3 DEF DroppedInv
<1>12. NewInv'
  <2>1. \A w \in Visitors : At(w, "add") => visit[w].token \notin told'
    BY <1>1, <1>4 DEF KeptInv, NewInv, SaveSteps
  <2>2. \A w \in Visitors : At(w, "add") => visit[w].token \notin visit[v].seen
    BY DEF KeptInv, NewInv
  <2> QED
    BY <1>1, <1>3, <1>6, <1>8, <2>1, <2>2, RestingIsTyped DEF KeptInv, NewInv, At, SaveSteps
<1>13. OldInv'
  BY <1>1, <1>3, <1>6, RestingIsTyped DEF KeptInv, OldInv, At, SaveSteps
<1> QED
  BY <1>9, <1>10, <1>11, <1>12, <1>13 DEF KeptInv

LEMMA RestartKeeps ==
  ASSUME ShareTypeOK, FlowInv, Careful, KeptInv, Restart PROVE KeptInv'
<1>1. /\ NoWriter /\ shares.whole /\ links' = shares.links \ expired
      /\ visit' = [v \in Visitors |-> Resting]
      /\ UNCHANGED <<shares, expired, told, asked, dropped, shareUse>>
  BY DEF Restart, Careful, NoWriter, KeptInv, SaveInv
<1>2. \A v \in Visitors : /\ visit'[v].at = "idle" /\ visit'[v].op = "none" /\ visit'[v].seen = {}
                          /\ ~ Saving(v)'
  BY <1>1, RestingIsTyped DEF Saving
<1>3. SaveInv' /\ ToldInv' /\ DroppedInv'
  BY <1>1, <1>2 DEF KeptInv, SaveInv, ToldInv, DroppedInv, At
<1>4. NewInv' /\ OldInv'
  BY <1>2 DEF NewInv, OldInv, At, SaveSteps
<1> QED
  BY <1>3, <1>4 DEF KeptInv

LEMMA ExpireKeeps ==
  ASSUME ShareTypeOK, KeptInv, NEW t \in Tokens, Expire(t) PROVE KeptInv'
<1>1. /\ t \in links \cup shares.links /\ expired' = expired \cup {t}
      /\ UNCHANGED <<links, downloads, holder, shares, visit, told, asked, dropped, restarts, shareUse>>
  BY DEF Expire
<1>2. SaveInv' /\ ToldInv' /\ DroppedInv'
  BY <1>1 DEF KeptInv, SaveInv, ToldInv, DroppedInv, NoWriter, Saving, At
<1>3. NewInv' /\ OldInv'
  BY <1>1 DEF KeptInv, NewInv, OldInv, Saving, At
<1> QED
  BY <1>2, <1>3 DEF KeptInv

LEMMA KeptStep ==
  ASSUME ShareTypeOK, FlowInv, Careful, KeptInv, [ShareNext]_shareVars PROVE KeptInv'
<1>1. ASSUME NEW v \in Visitors, NEW op \in shareUse.ops, NEW t \in Tokens \cup {NoToken}, Visit(v, op, t)
      PROVE  KeptInv'
  BY <1>1, VisitKeeps, ShareUsesAreTyped DEF ShareTypeOK, ShareUseType
<1>2. ASSUME NEW v \in Visitors, Look(v) \/ ShowPage(v) \/ Check(v) \/ Count(v) \/ List(v) PROVE KeptInv'
  <2>1. /\ visit[v].at \in {"look", "check", "count", "read"} /\ ~ Saving(v)
        /\ UNCHANGED <<links, shares, expired, asked>>
    BY <1>2 DEF Look, ShowPage, Check, Count, List, At, Saving
  <2>2. visit[v].op \notin {"share", "delete"}
    BY <2>1 DEF FlowInv, SaveSteps
  <2>3. CASE Answer(v)
    BY <2>1, <2>2, <2>3, AnswerMoves, RestingIsTyped, QuietStep
  <2>4. CASE /\ UNCHANGED <<told, dropped>>
             /\ \E step \in {"check", "drop", "count"} :
                   Goto(v, step) /\ (step = "drop" => visit[v].token \in expired)
    <3>1. PICK step \in {"check", "drop", "count"} :
            Goto(v, step) /\ (step = "drop" => visit[v].token \in expired)
      BY <2>4
    <3>2. /\ visit'[v].at = step /\ visit'[v].op = visit[v].op
          /\ visit'[v].token = visit[v].token /\ visit'[v].seen = visit[v].seen
          /\ \A w \in Visitors : w # v => visit'[w] = visit[w]
      BY <3>1, GotoMoves
    <3> QED
      BY <2>1, <2>2, <2>4, <3>1, <3>2, QuietStep
  <2> QED
    BY <1>2, <2>3, <2>4 DEF Look, ShowPage, Check, Count, List
<1>3. ASSUME NEW v \in Visitors, SaveFails(v) PROVE FALSE
  BY <1>3 DEF SaveFails, Careful
<1>4. CASE UNCHANGED shareVars
  BY <1>4 DEF shareVars, KeptInv, SaveInv, ToldInv, DroppedInv, NewInv, OldInv, NoWriter, Saving, At
<1> QED
  BY <1>1, <1>2, <1>3, <1>4, AddKeeps, DropKeeps, CleanKeeps, SnapshotKeeps, OpenKeeps, WriteKeeps,
     RestartKeeps, ExpireKeeps DEF ShareNext, ShareStep

\* Links that were given away stay and deleted ones do not come back, through any restarts.
THEOREM SharesStayKept == ShareSpec => []SharesKept
<1>1. ShareInit => (Careful => KeptInv)
  <2> SUFFICES ASSUME ShareInit PROVE KeptInv
    OBVIOUS
  <2>1. \A v \in Visitors : visit[v] = Resting /\ ~ Saving(v)
    BY RestingIsTyped DEF ShareInit, Saving
  <2> QED
    BY <2>1, RestingIsTyped
       DEF ShareInit, KeptInv, SaveInv, ToldInv, DroppedInv, NewInv, OldInv, At, SaveSteps
<1>2. ShareTypeOK /\ FlowInv /\ (Careful => KeptInv) /\ [ShareNext]_shareVars => (Careful => KeptInv)'
  <2> SUFFICES ASSUME ShareTypeOK, FlowInv, Careful => KeptInv, [ShareNext]_shareVars, Careful'
               PROVE  KeptInv'
    OBVIOUS
  <2>1. shareUse' = shareUse
    BY DEF ShareNext, ShareStep, Visit, Add, Look, ShowPage, Check, Count, Drop, CleanExpired, List,
           Snapshot, Open, WriteShares, SaveFails, Expire, Restart, shareVars
  <2> QED
    BY <2>1, KeptStep DEF Careful
<1>3. (Careful => KeptInv) => SharesKept
  BY DEF SharesKept, Careful, KeptInv, ToldInv, DroppedInv
<1> QED
  BY <1>1, <1>2, <1>3, ShareLinksTyping, PTL DEF ShareSpec

-----------------------------------------------------------------------------
(***************************************************************************)
(* The file manager and its trash.                                          *)
(***************************************************************************)

Holding == Item \cup {Nothing}

FileWork == [at : {"idle", "rename", "copy", "remove", "meta", "place", "clean"},
             path : Paths \cup {NoPath}, to : Paths \cup {NoPath},
             entry : Entries \cup {NoEntry}]

Working(k) == ~ Doing(k, "idle")
Deleting == {"rename", "copy", "remove", "meta"}
Restoring == {"place", "clean"}

(* What does not exist in the trash has no path, and a request in flight    *)
(* has its entry and its paths.                                             *)
TrashFlow ==
  \A e \in Entries : /\ trash[e].meta \in DOMAIN Recovered \cup {NoPath}
                     /\ trash[e].state # "there" => trash[e].item = Nothing /\ trash[e].meta = NoPath
WorkFlow ==
  \A k \in Clients :
    /\ Doing(k, "idle") => work[k] = Free
    /\ Working(k) => work[k].path \in DOMAIN Recovered /\ work[k].entry \in Entries
    /\ work[k].at \in Restoring => work[k].to \in {work[k].path, Recovered[work[k].path]}

FileFlow == TrashFlow /\ WorkFlow

LEMMA FreeIsTyped == Free \in FileWork /\ Free.at = "idle" /\ Free.path = NoPath /\ Free.entry = NoEntry
BY DEF Free, FileWork

LEMMA RemovedIsTyped == Removed \in Entry /\ Removed.item = Nothing /\ Removed.meta = NoPath
                        /\ Removed.state = "gone"
BY DEF Removed, Entry

LEMMA WorkMoves ==
  ASSUME FileTypeOK, NEW k \in Clients, NEW r \in FileWork, work' = [work EXCEPT ![k] = r]
  PROVE  /\ work' \in [Clients -> FileWork] /\ work'[k] = r
         /\ \A j \in Clients : j # k => work'[j] = work[j]
BY DEF FileTypeOK, FileWork

LEMMA ThenMoves ==
  ASSUME FileTypeOK, NEW k \in Clients, NEW step \in Deleting \cup Restoring, Then(k, step)
  PROVE  /\ work' \in [Clients -> FileWork]
         /\ work'[k].at = step /\ work'[k].path = work[k].path /\ work'[k].to = work[k].to
         /\ work'[k].entry = work[k].entry
         /\ \A j \in Clients : j # k => work'[j] = work[j]
<1> DEFINE r == [work[k] EXCEPT !.at = step]
<1>1. work[k] \in FileWork
  BY DEF FileTypeOK, FileWork
<1>2. /\ r \in FileWork /\ r.at = step /\ r.path = work[k].path /\ r.to = work[k].to
      /\ r.entry = work[k].entry
  BY <1>1 DEF FileWork, Deleting, Restoring
<1>3. work' = [work EXCEPT ![k] = r]
  BY DEF Then
<1> HIDE DEF r
<1> QED
  BY <1>2, <1>3, WorkMoves

LEMMA DoneMoves ==
  ASSUME FileTypeOK, NEW k \in Clients, Done(k)
  PROVE  /\ work' \in [Clients -> FileWork] /\ work'[k] = Free
         /\ \A j \in Clients : j # k => work'[j] = work[j]
BY FreeIsTyped, WorkMoves DEF Done

LEMMA EntryMoves ==
  ASSUME FileTypeOK, NEW e \in Entries, NEW r \in Entry, trash' = [trash EXCEPT ![e] = r]
  PROVE  /\ trash' \in [Entries -> Entry] /\ trash'[e] = r
         /\ \A x \in Entries : x # e => trash'[x] = trash[x]
BY DEF FileTypeOK

LEMMA AbandonMoves ==
  ASSUME FileTypeOK, NEW k \in Clients, work[k].entry \in Entries, Abandon(k)
  PROVE  /\ work' \in [Clients -> FileWork] /\ work'[k] = Free
         /\ \A j \in Clients : j # k => work'[j] = work[j]
         /\ trash' \in [Entries -> Entry] /\ trash'[work[k].entry] = Removed
         /\ \A x \in Entries : x # work[k].entry => trash'[x] = trash[x]
BY DoneMoves, EntryMoves, RemovedIsTyped DEF Abandon

\* The kind of a file that is copied stays what it is.
LEMMA PartIsItem ==
  ASSUME NEW i \in Item, NEW cs \in SUBSET i.has
  PROVE  [i EXCEPT !.has = cs] \in Item /\ [i EXCEPT !.has = cs].has = cs
BY DEF Item

LEMMA CopiedIsItem ==
  ASSUME NEW new \in Item, NEW old \in Holding
  PROVE  Copied(new, old) \in Item /\ (old = Nothing => Copied(new, old) = new)
<1>1. old # Nothing => old \in Item /\ new.has \cup old.has \in SUBSET Contents
  BY DEF Holding, Item
<1> QED
  BY <1>1 DEF Copied, Item

LEMMA HeldIsContents ==
  ASSUME NEW items \in SUBSET Holding PROVE HeldBy(items) \subseteq Contents
<1>1. \A i \in items \ {Nothing} : i \in Item /\ i.has \subseteq Contents
  BY DEF Holding, Item
<1> QED
  BY <1>1 DEF HeldBy

LEMMA DiscardIsTyped ==
  ASSUME FileTypeOK, Discard PROVE discarded' \subseteq Contents
<1>1. {tree[p] : p \in Paths} \in SUBSET Holding /\ {trash[e].item : e \in Entries} \in SUBSET Holding
  BY DEF FileTypeOK, Entry, Holding
<1>2. InTree \subseteq Contents /\ InTrash \subseteq Contents
  BY <1>1, HeldIsContents DEF InTree, InTrash
<1> QED
  BY <1>2 DEF Discard, FileTypeOK

\* What a request in flight has.
LEMMA WorkHas ==
  ASSUME FileTypeOK, FileFlow, NEW k \in Clients, Working(k)
  PROVE  /\ work[k].path \in DOMAIN Recovered /\ work[k].path \in Paths
         /\ work[k].path # NoPath /\ work[k].entry \in Entries /\ work[k].entry # NoEntry
         /\ tree[work[k].path] \in Holding /\ trash[work[k].entry] \in Entry
         /\ work[k].at \in Restoring => work[k].to \in Paths /\ work[k].to # NoPath
                                        /\ tree[work[k].to] \in Holding
BY FilePathsAreTyped DEF FileFlow, WorkFlow, FileTypeOK, Holding

\* A step that leaves the requests alone.
LEMMA TreeTyped ==
  ASSUME FileTypeOK, FileFlow, tree' \in [Paths -> Holding], stored' \subseteq Contents,
         discarded' \subseteq Contents, UNCHANGED <<trash, work, fileUse>>
  PROVE  FileTypeOK' /\ FileFlow'
BY DEF FileTypeOK, FileFlow, TrashFlow, WorkFlow, Doing, Working, Holding

LEMMA PutTyped ==
  ASSUME FileTypeOK, FileFlow, NEW p \in Paths, NEW cs \in SUBSET Contents, Put(p, cs)
  PROVE  FileTypeOK' /\ FileFlow'
<1>1. [dir |-> FALSE, has |-> cs] \in Holding
  BY DEF Holding, Item
<1>2. tree' \in [Paths -> Holding] /\ stored' \subseteq Contents
  BY <1>1 DEF Put, FileTypeOK, Holding
<1> QED
  BY <1>2, DiscardIsTyped, TreeTyped DEF Put

LEMMA MkdirTyped ==
  ASSUME FileTypeOK, FileFlow, NEW p \in Paths, Mkdir(p) PROVE FileTypeOK' /\ FileFlow'
<1>1. [dir |-> TRUE, has |-> {}] \in Holding
  BY DEF Holding, Item
<1>2. tree' \in [Paths -> Holding] /\ stored' \subseteq Contents /\ discarded' \subseteq Contents
  BY <1>1 DEF Mkdir, FileTypeOK, Holding
<1> QED
  BY <1>2, TreeTyped DEF Mkdir

LEMMA RenameTyped ==
  ASSUME FileTypeOK, FileFlow, NEW p \in Paths, NEW q \in Paths, Rename(p, q)
  PROVE  FileTypeOK' /\ FileFlow'
<1>1. tree' \in [Paths -> Holding] /\ stored' \subseteq Contents
  BY DEF Rename, FileTypeOK, Holding
<1> QED
  BY <1>1, DiscardIsTyped, TreeTyped DEF Rename

LEMMA CopyTyped ==
  ASSUME FileTypeOK, FileFlow, NEW p \in Paths, NEW q \in Paths, Copy(p, q)
  PROVE  FileTypeOK' /\ FileFlow'
<1>1. tree[p] \in Item /\ tree \in [Paths -> Holding]
  BY DEF Copy, FileTypeOK, Holding
<1>2. stored' \subseteq Contents /\ UNCHANGED <<trash, work, fileUse>>
  BY DEF Copy, FileTypeOK
<1>3. CASE p = q
  <2>1. [tree[p] EXCEPT !.has = {}] \in Holding
    BY <1>1, PartIsItem DEF Holding
  <2>2. tree' \in [Paths -> Holding] /\ discarded' \subseteq Contents
    BY <1>1, <1>3, <2>1 DEF Copy, FileTypeOK
  <2> QED
    BY <1>2, <2>2, TreeTyped
<1>4. CASE p # q
  <2>1. PICK some \in SUBSET tree[p].has :
          tree' = [tree EXCEPT ![q] = Copied([tree[p] EXCEPT !.has = some], tree[q])]
    BY <1>1, <1>4 DEF Copy
  <2>2. Copied([tree[p] EXCEPT !.has = some], tree[q]) \in Holding
    BY <1>1, PartIsItem, CopiedIsItem DEF Holding
  <2>3. tree' \in [Paths -> Holding]
    BY <1>1, <2>1, <2>2
  <2> QED
    BY <1>2, <1>4, <2>3, DiscardIsTyped, TreeTyped DEF Copy
<1> QED
  BY <1>3, <1>4

\* A step of one request, and a change of one entry.
LEMMA WorkFlowMoves ==
  ASSUME WorkFlow, NEW k \in Clients, \A j \in Clients : j # k => work'[j] = work[j],
         \/ work'[k] = Free
         \/ /\ work'[k].at # "idle" /\ work'[k].path \in DOMAIN Recovered /\ work'[k].entry \in Entries
            /\ work'[k].at \in Restoring => work'[k].to \in {work'[k].path, Recovered[work'[k].path]}
  PROVE  WorkFlow'
BY DEF WorkFlow, Working, Doing, Free, Restoring

LEMMA TrashFlowMoves ==
  ASSUME TrashFlow, NEW e \in Entries, \A x \in Entries : x # e => trash'[x] = trash[x],
         trash'[e].meta \in DOMAIN Recovered \cup {NoPath},
         trash'[e].state # "there" => trash'[e].item = Nothing /\ trash'[e].meta = NoPath
  PROVE  TrashFlow'
BY DEF TrashFlow

LEMMA AbandonTyped ==
  ASSUME FileTypeOK, FileFlow, NEW k \in Clients, Working(k), Abandon(k),
         tree' \in [Paths -> Holding], stored' = stored, discarded' = discarded, fileUse' = fileUse
  PROVE  FileTypeOK' /\ FileFlow'
<1>1. work[k].entry \in Entries
  BY WorkHas
<1>2. WorkFlow'
  BY <1>1, AbandonMoves, WorkFlowMoves DEF FileFlow
<1>3. TrashFlow'
  BY <1>1, AbandonMoves, RemovedIsTyped, TrashFlowMoves DEF FileFlow
<1> QED
  BY <1>1, <1>2, <1>3, AbandonMoves DEF FileTypeOK, FileFlow, FileWork, Holding

LEMMA DeleteTyped ==
  ASSUME FileTypeOK, FileFlow, NEW k \in Clients, NEW p \in DOMAIN Recovered, NEW e \in Entries,
         Delete(k, p, e)
  PROVE  FileTypeOK' /\ FileFlow'
<1> DEFINE r == [at |-> "rename", path |-> p, to |-> NoPath, entry |-> e]
           x == [trash[e] EXCEPT !.state = "there"]
<1>1. r \in FileWork /\ r.at = "rename" /\ r.path = p /\ r.entry = e
  BY FilePathsAreTyped DEF FileWork
<1>2. x \in Entry /\ x.state = "there" /\ x.meta = trash[e].meta
  BY DEF FileTypeOK, Entry
<1>3. work' = [work EXCEPT ![k] = r] /\ trash' = [trash EXCEPT ![e] = x]
  BY DEF Delete
<1> HIDE DEF r, x
<1>4. WorkFlow'
  BY <1>1, <1>3, WorkMoves, WorkFlowMoves DEF FileFlow, Restoring
<1>5. TrashFlow'
  BY <1>2, <1>3, EntryMoves, TrashFlowMoves DEF FileFlow, TrashFlow
<1> QED
  BY <1>1, <1>2, <1>3, <1>4, <1>5, WorkMoves, EntryMoves DEF Delete, FileTypeOK, FileFlow, FileWork

LEMMA MoveToTrashTyped ==
  ASSUME FileTypeOK, FileFlow, NEW k \in Clients, MoveToTrash(k) PROVE FileTypeOK' /\ FileFlow'
<1>1. Working(k) /\ work[k].entry \in Entries /\ work[k].path \in Paths
      /\ work[k].path \in DOMAIN Recovered /\ tree[work[k].path] \in Holding
  BY WorkHas DEF MoveToTrash, Doing, Working
<1>2. UNCHANGED <<stored, discarded, fileUse>> /\ tree \in [Paths -> Holding]
  BY DEF MoveToTrash, FileTypeOK, Holding
<1>3. CASE Abandon(k) /\ UNCHANGED tree
  BY <1>1, <1>2, <1>3, AbandonTyped
<1>4. CASE /\ trash[work[k].entry].state = "there"
           /\ trash' = [trash EXCEPT ![work[k].entry].item = tree[work[k].path]]
           /\ tree' = [tree EXCEPT ![work[k].path] = Nothing]
           /\ Then(k, "meta")
  <2> DEFINE x == [trash[work[k].entry] EXCEPT !.item = tree[work[k].path]]
  <2>1. x \in Entry /\ x.state = "there" /\ x.meta = trash[work[k].entry].meta
    BY <1>1, <1>4 DEF FileTypeOK, Entry, Holding
  <2>2. trash' = [trash EXCEPT ![work[k].entry] = x]
    BY <1>4
  <2> HIDE DEF x
  <2>3. TrashFlow'
    BY <1>1, <2>1, <2>2, EntryMoves, TrashFlowMoves DEF FileFlow, TrashFlow
  <2>4. WorkFlow'
    BY <1>1, <1>4, ThenMoves, WorkFlowMoves DEF FileFlow, Restoring, Deleting
  <2>5. tree' \in [Paths -> Holding]
    BY <1>2, <1>4 DEF Holding
  <2> QED
    BY <1>1, <1>2, <1>4, <2>1, <2>2, <2>3, <2>4, <2>5, EntryMoves, ThenMoves
       DEF FileTypeOK, FileFlow, FileWork, Deleting, Holding
<1>5. CASE Then(k, "copy") /\ UNCHANGED <<tree, trash>>
  <2>1. WorkFlow'
    BY <1>1, <1>5, ThenMoves, WorkFlowMoves DEF FileFlow, Restoring, Deleting
  <2> QED
    BY <1>2, <1>5, <2>1, ThenMoves DEF FileTypeOK, FileFlow, TrashFlow, FileWork, Deleting
<1> QED
  BY <1>3, <1>4, <1>5 DEF MoveToTrash

LEMMA CopyToTrashTyped ==
  ASSUME FileTypeOK, FileFlow, NEW k \in Clients, CopyToTrash(k) PROVE FileTypeOK' /\ FileFlow'
<1>1. Working(k) /\ work[k].entry \in Entries /\ work[k].path \in Paths
      /\ work[k].path \in DOMAIN Recovered /\ tree[work[k].path] \in Holding
  BY WorkHas DEF CopyToTrash, Doing, Working
<1>2. UNCHANGED <<tree, stored, discarded, fileUse>> /\ tree \in [Paths -> Holding]
  BY DEF CopyToTrash, FileTypeOK, Holding
<1>3. CASE Abandon(k)
  BY <1>1, <1>2, <1>3, AbandonTyped
<1>4. CASE /\ trash' = [trash EXCEPT ![work[k].entry].state = "there",
                                     ![work[k].entry].item = tree[work[k].path]]
           /\ Then(k, "remove")
  <2> DEFINE x == [trash[work[k].entry] EXCEPT !.state = "there", !.item = tree[work[k].path]]
  <2>1. x \in Entry /\ x.state = "there" /\ x.meta = trash[work[k].entry].meta
    BY <1>1, <1>4 DEF FileTypeOK, Entry, Holding
  <2>2. trash' = [trash EXCEPT ![work[k].entry] = x]
    BY <1>1, <1>4 DEF FileTypeOK
  <2> HIDE DEF x
  <2>3. TrashFlow'
    BY <1>1, <2>1, <2>2, EntryMoves, TrashFlowMoves DEF FileFlow, TrashFlow
  <2>4. WorkFlow'
    BY <1>1, <1>4, ThenMoves, WorkFlowMoves DEF FileFlow, Restoring, Deleting
  <2> QED
    BY <1>1, <1>2, <1>4, <2>1, <2>2, <2>3, <2>4, EntryMoves, ThenMoves
       DEF FileTypeOK, FileFlow, FileWork, Deleting
<1> QED
  BY <1>3, <1>4 DEF CopyToTrash

LEMMA RemoveOriginalTyped ==
  ASSUME FileTypeOK, FileFlow, NEW k \in Clients, RemoveOriginal(k) PROVE FileTypeOK' /\ FileFlow'
<1>1. Working(k) /\ work[k].entry \in Entries /\ work[k].path \in Paths
      /\ work[k].path \in DOMAIN Recovered /\ tree[work[k].path] \in Holding
  BY WorkHas DEF RemoveOriginal, Doing, Working
<1>2. UNCHANGED <<stored, fileUse>> /\ tree \in [Paths -> Holding]
  BY DEF RemoveOriginal, FileTypeOK, Holding
<1>3. CASE /\ tree' = [tree EXCEPT ![work[k].path] = Nothing]
           /\ Then(k, "meta") /\ UNCHANGED trash /\ (Discard \/ UNCHANGED discarded)
  <2>1. WorkFlow'
    BY <1>1, <1>3, ThenMoves, WorkFlowMoves DEF FileFlow, Restoring, Deleting
  <2>2. tree' \in [Paths -> Holding]
    BY <1>2, <1>3 DEF Holding
  <2>3. discarded' \subseteq Contents
    BY <1>3, DiscardIsTyped DEF FileTypeOK
  <2> QED
    BY <1>2, <1>3, <2>1, <2>2, <2>3, ThenMoves DEF FileTypeOK, FileFlow, TrashFlow, FileWork, Deleting, Holding
<1>4. CASE /\ tree[work[k].path] # Nothing
           /\ \E left \in SUBSET tree[work[k].path].has : tree' = [tree EXCEPT ![work[k].path].has = left]
           /\ Abandon(k) /\ UNCHANGED discarded
  <2>1. PICK left \in SUBSET tree[work[k].path].has : tree' = [tree EXCEPT ![work[k].path].has = left]
    BY <1>4
  <2>2. tree[work[k].path] \in Item
    BY <1>1, <1>4 DEF Holding
  <2>3. [tree[work[k].path] EXCEPT !.has = left] \in Holding
    BY <2>2, PartIsItem DEF Holding
  <2>4. tree' \in [Paths -> Holding]
    BY <1>2, <2>1, <2>3
  <2> QED
    BY <1>1, <1>2, <1>4, <2>4, AbandonTyped
<1> QED
  BY <1>3, <1>4 DEF RemoveOriginal

LEMMA WriteMetaTyped ==
  ASSUME FileTypeOK, FileFlow, NEW k \in Clients, WriteMeta(k) PROVE FileTypeOK' /\ FileFlow'
<1>1. Working(k) /\ work[k].entry \in Entries /\ work[k].path \in Paths
      /\ work[k].path \in DOMAIN Recovered
  BY WorkHas DEF WriteMeta, Doing, Working
<1>2. WorkFlow'
  BY DoneMoves, WorkFlowMoves DEF WriteMeta, FileFlow
<1>3. TrashFlow' /\ trash' \in [Entries -> Entry]
  <2>1. CASE UNCHANGED trash
    BY <2>1 DEF FileFlow, TrashFlow, FileTypeOK
  <2>2. CASE /\ trash[work[k].entry].state = "there"
             /\ trash' = [trash EXCEPT ![work[k].entry].meta = work[k].path]
    <3> DEFINE x == [trash[work[k].entry] EXCEPT !.meta = work[k].path]
    <3>1. x \in Entry /\ x.state = "there" /\ x.meta = work[k].path
      BY <1>1, <2>2 DEF FileTypeOK, Entry
    <3>2. trash' = [trash EXCEPT ![work[k].entry] = x]
      BY <2>2
    <3> HIDE DEF x
    <3> QED
      BY <1>1, <3>1, <3>2, EntryMoves, TrashFlowMoves DEF FileFlow
  <2> QED
    BY <2>1, <2>2 DEF WriteMeta
<1> QED
  BY <1>2, <1>3, DoneMoves DEF WriteMeta, FileTypeOK, FileFlow, FileWork

LEMMA RestoreTyped ==
  ASSUME FileTypeOK, FileFlow, NEW k \in Clients, NEW e \in Entries, Restore(k, e)
  PROVE  FileTypeOK' /\ FileFlow'
<1> DEFINE p == trash[e].meta
           r == [at |-> "place", path |-> p, to |-> RestoredTo(p), entry |-> e]
<1>1. p \in DOMAIN Recovered
  BY DEF Restore, FileFlow, TrashFlow
<1>2. RestoredTo(p) \in {p, Recovered[p]} /\ p \in Paths /\ Recovered[p] \in Paths
  BY <1>1, FilePathsAreTyped DEF RestoredTo
<1>3. work' = [work EXCEPT ![k] = r]
  BY DEF Restore
<1> HIDE DEF p
<1>4. r \in FileWork /\ r.at = "place" /\ r.path = p /\ r.to = RestoredTo(p) /\ r.entry = e
  BY <1>2 DEF FileWork
<1> HIDE DEF r
<1>5. WorkFlow'
  BY <1>1, <1>2, <1>3, <1>4, WorkMoves, WorkFlowMoves DEF FileFlow
<1> QED
  BY <1>3, <1>4, <1>5, WorkMoves DEF Restore, FileTypeOK, FileFlow, TrashFlow, FileWork

LEMMA PlaceTyped ==
  ASSUME FileTypeOK, FileFlow, NEW k \in Clients, Place(k) PROVE FileTypeOK' /\ FileFlow'
<1> DEFINE to == work[k].to  e == work[k].entry  item == trash[work[k].entry].item
<1>1. /\ Working(k) /\ Doing(k, "place") /\ e \in Entries /\ to \in Paths
      /\ work[k].path \in DOMAIN Recovered /\ tree[to] \in Holding /\ item \in Holding
      /\ work[k].to \in {work[k].path, Recovered[work[k].path]}
  BY WorkHas DEF Place, Doing, Working, Restoring, FileFlow, WorkFlow, Entry, Holding
<1>2. UNCHANGED <<stored, discarded, fileUse>> /\ tree \in [Paths -> Holding]
  BY DEF Place, FileTypeOK, Holding
<1>3. ASSUME Then(k, "clean") PROVE WorkFlow' /\ work' \in [Clients -> FileWork]
  BY <1>1, <1>3, ThenMoves, WorkFlowMoves DEF FileFlow, Restoring
<1>4. ASSUME Done(k) PROVE WorkFlow' /\ work' \in [Clients -> FileWork]
  BY <1>4, DoneMoves, WorkFlowMoves DEF FileFlow
<1>5. CASE /\ item # Nothing /\ tree' = [tree EXCEPT ![to] = item]
           /\ trash' = [trash EXCEPT ![e].item = Nothing] /\ Then(k, "clean")
  <2> DEFINE x == [trash[e] EXCEPT !.item = Nothing]
  <2>1. x \in Entry /\ x.state = "there" /\ x.meta = trash[e].meta
    BY <1>1, <1>5 DEF FileTypeOK, Entry, FileFlow, TrashFlow
  <2>2. trash' = [trash EXCEPT ![e] = x]
    BY <1>5
  <2> HIDE DEF x
  <2>3. TrashFlow'
    BY <1>1, <2>1, <2>2, EntryMoves, TrashFlowMoves DEF FileFlow, TrashFlow
  <2>4. tree' \in [Paths -> Holding]
    BY <1>1, <1>2, <1>5
  <2> QED
    BY <1>1, <1>2, <1>3, <1>5, <2>1, <2>2, <2>3, <2>4, EntryMoves
       DEF FileTypeOK, FileFlow, FileWork, Holding
<1>6. CASE /\ item # Nothing /\ UNCHANGED trash /\ (Then(k, "clean") \/ Done(k))
           /\ \E some \in SUBSET item.has :
                tree' = [tree EXCEPT ![to] = Copied([item EXCEPT !.has = some], tree[to])]
  <2>1. PICK some \in SUBSET item.has :
          tree' = [tree EXCEPT ![to] = Copied([item EXCEPT !.has = some], tree[to])]
    BY <1>6
  <2>2. item \in Item
    BY <1>1, <1>6 DEF Holding
  <2>3. Copied([item EXCEPT !.has = some], tree[to]) \in Holding
    BY <1>1, <2>2, PartIsItem, CopiedIsItem DEF Holding
  <2>4. tree' \in [Paths -> Holding]
    BY <1>1, <1>2, <2>1, <2>3
  <2> QED
    BY <1>2, <1>3, <1>4, <1>6, <2>4 DEF FileTypeOK, FileFlow, TrashFlow, FileWork, Holding
<1>7. CASE Done(k) /\ UNCHANGED <<tree, trash>>
  BY <1>2, <1>4, <1>7 DEF FileTypeOK, FileFlow, TrashFlow, FileWork
<1>8. item # Nothing => item.has \in SUBSET item.has /\ [item EXCEPT !.has = item.has] = item
  BY <1>1 DEF Holding, Item
<1>9. CASE /\ item # Nothing /\ to \in Far /\ Copies(item, tree[to])
           /\ tree' = [tree EXCEPT ![to] = Copied(item, @)]
           /\ Then(k, "clean") /\ UNCHANGED trash
  <2>1. tree' = [tree EXCEPT ![to] = Copied([item EXCEPT !.has = item.has], tree[to])]
    BY <1>1, <1>2, <1>8, <1>9
  <2> QED
    BY <1>6, <1>8, <1>9, <2>1
<1>10. CASE /\ item # Nothing /\ to \in Far /\ Copies(item, tree[to]) /\ Fault("copy")
            /\ \E some \in SUBSET item.has :
                 tree' = [tree EXCEPT ![to] = Copied([item EXCEPT !.has = some], @)]
            /\ Done(k) /\ UNCHANGED trash
  BY <1>1, <1>2, <1>6, <1>10
<1> QED
  BY <1>5, <1>7, <1>9, <1>10 DEF Place

LEMMA RemoveEntryTyped ==
  ASSUME FileTypeOK, FileFlow, NEW k \in Clients, RemoveEntry(k) PROVE FileTypeOK' /\ FileFlow'
BY AbandonTyped DEF RemoveEntry, Doing, Working, FileTypeOK, Holding

LEMMA PurgeTyped ==
  ASSUME FileTypeOK, FileFlow, NEW es \in SUBSET Entries, Purge(es) PROVE FileTypeOK' /\ FileFlow'
<1>1. trash' \in [Entries -> Entry] /\ TrashFlow'
  BY RemovedIsTyped DEF Purge, FileTypeOK, FileFlow, TrashFlow
<1>2. WorkFlow'
  BY DEF Purge, FileFlow, WorkFlow, Working, Doing
<1> QED
  BY <1>1, <1>2, DiscardIsTyped DEF Purge, FileTypeOK, FileFlow

LEMMA DieTyped == ASSUME FileTypeOK, FileFlow, Die PROVE FileTypeOK' /\ FileFlow'
<1>1. work' \in [Clients -> FileWork] /\ WorkFlow'
  BY FreeIsTyped DEF Die, WorkFlow, Doing, Working, Restoring
<1> QED
  BY <1>1 DEF Die, FileTypeOK, FileFlow, TrashFlow, FileWork

LEMMA FilesTypingStart == FileInit => FileTypeOK /\ FileFlow
<1> SUFFICES ASSUME FileInit PROVE FileTypeOK /\ FileFlow
  OBVIOUS
<1> DEFINE x == [Removed EXCEPT !.state = "unused"]
<1>1. x \in Entry /\ x.item = Nothing /\ x.meta = NoPath
  BY DEF Removed, Entry
<1>2. trash = [e \in Entries |-> x]
  BY DEF FileInit
<1> HIDE DEF x
<1>3. trash \in [Entries -> Entry] /\ TrashFlow
  BY <1>1, <1>2 DEF TrashFlow
<1>4. work \in [Clients -> FileWork] /\ WorkFlow
  BY FreeIsTyped DEF FileInit, WorkFlow, Doing, Working, Restoring
<1>5. {tree[p] : p \in Paths} \in SUBSET Holding
  BY FilePathsAreTyped DEF FileInit, Holding
<1>6. stored \subseteq Contents
  BY <1>5, HeldIsContents DEF FileInit, InTree
<1> QED
  BY <1>3, <1>4, <1>6, FilePathsAreTyped DEF FileInit, FileTypeOK, FileFlow, FileWork

LEMMA FilesTypingStays ==
  FileTypeOK /\ FileFlow /\ [FileNext]_fileVars => FileTypeOK' /\ FileFlow'
<1> SUFFICES ASSUME FileTypeOK, FileFlow, [FileNext]_fileVars PROVE FileTypeOK' /\ FileFlow'
  OBVIOUS
<1>1. ASSUME NEW p \in Paths, NEW c \in Contents, Save(p, c) \/ Upload(p, c) PROVE FileTypeOK' /\ FileFlow'
  BY <1>1, PutTyped DEF Save, Upload
<1>2. ASSUME NEW p \in Paths, Touch(p) PROVE FileTypeOK' /\ FileFlow'
  BY <1>2, PutTyped DEF Touch
<1>3. ASSUME NEW e \in Entries, PermanentDelete(e) PROVE FileTypeOK' /\ FileFlow'
  BY <1>3, PurgeTyped DEF PermanentDelete
<1>4. ASSUME ClearTrash PROVE FileTypeOK' /\ FileFlow'
  BY <1>4, PurgeTyped DEF ClearTrash
<1>5. CASE UNCHANGED fileVars
  BY <1>5 DEF fileVars, FileTypeOK, FileFlow, TrashFlow, WorkFlow, Doing, Working
<1> QED
  BY <1>1, <1>2, <1>3, <1>4, <1>5, MkdirTyped, RenameTyped, CopyTyped, DeleteTyped, MoveToTrashTyped,
     CopyToTrashTyped, RemoveOriginalTyped, WriteMetaTyped, RestoreTyped, PlaceTyped, RemoveEntryTyped,
     DieTyped DEF FileNext, Move

\* Every state of the file manager is well typed, and what a request in flight is about exists.
THEOREM FilesTyping == FileSpec => [](FileTypeOK /\ FileFlow)
BY FilesTypingStart, FilesTypingStays, PTL DEF FileSpec

-----------------------------------------------------------------------------
(* No request in flight shares its entry or its paths with another.         *)
OwnInv ==
  \A j, k \in Clients :
    j # k /\ Working(j) /\ Working(k) =>
      /\ work[j].entry # work[k].entry
      /\ {work[j].path, work[j].to} \cap {work[k].path, work[k].to} \subseteq {NoPath}

(* What is in the entry of a request and at its paths, at each of its steps. *)
StepOf(k) ==
  /\ Working(k) => trash[work[k].entry].state # "unused"
  /\ work[k].at \in Deleting => trash[work[k].entry].meta = NoPath
  /\ work[k].at \in {"rename", "copy"} => trash[work[k].entry].item = Nothing
  /\ Doing(k, "remove") /\ trash[work[k].entry].state = "there" =>
       trash[work[k].entry].item = tree[work[k].path]
  /\ work[k].at \in Restoring /\ trash[work[k].entry].state = "there" =>
       trash[work[k].entry].meta = work[k].path
  /\ Doing(k, "place") => tree[work[k].to] = Nothing
  /\ Doing(k, "clean") => trash[work[k].entry].item \in {Nothing, tree[work[k].to]}

StepInv == \A k \in Clients : StepOf(k)

\* The trash shows what it holds, unless a request is about to say whose it is.
ShownInv ==
  ~ (Fault("crash") \/ Fault("meta")) =>
    \A e \in Entries : trash[e].item # Nothing =>
      trash[e].meta # NoPath \/ \E k \in Clients : work[k].entry = e

\* What a client stored is somewhere on the disk until a client gives it up.
OnDiskInv == stored \subseteq discarded \cup InTree \cup InTrash

(* Requests keep apart and every original that was copied can be removed.   *)
CarefulFiles == fileUse.careless = {} /\ ~ Fault("remove")

WholeInv == OwnInv /\ StepInv /\ ShownInv /\ OnDiskInv

LostInv == CarefulFiles => WholeInv

LEMMA TreeHolds ==
  \A c : c \in InTree <=> \E p \in Paths : tree[p] # Nothing /\ c \in tree[p].has
BY DEF InTree, HeldBy

LEMMA TreeHoldsNext ==
  \A c : c \in InTree' <=> \E p \in Paths : tree'[p] # Nothing /\ c \in tree'[p].has
BY DEF InTree, HeldBy

LEMMA TrashHolds ==
  \A c : c \in InTrash <=> \E e \in Entries : trash[e].item # Nothing /\ c \in trash[e].item.has
BY DEF InTrash, HeldBy

LEMMA TrashHoldsNext ==
  \A c : c \in InTrash' <=> \E e \in Entries : trash'[e].item # Nothing /\ c \in trash'[e].item.has
BY DEF InTrash, HeldBy

\* Contents that go are given up, or none goes.
LEMMA DiscardKeeps ==
  ASSUME OnDiskInv, Discard, stored' \subseteq stored \cup InTree' PROVE OnDiskInv'
BY DEF OnDiskInv, Discard

LEMMA HeldKeeps ==
  ASSUME OnDiskInv, UNCHANGED <<stored, discarded>>,
         \A c \in InTree \cup InTrash : c \in InTree' \cup InTrash'
  PROVE  OnDiskInv'
BY DEF OnDiskInv

\* A step of no request, which changes paths that no request has.
LEMMA QuietKeeps ==
  ASSUME FileTypeOK, FileFlow, CarefulFiles, OwnInv, StepInv, ShownInv,
         UNCHANGED <<trash, work, fileUse>>, NEW ps \in SUBSET Paths, Unclaimed(ps),
         \A p \in Paths \ ps : tree'[p] = tree[p]
  PROVE  OwnInv' /\ StepInv' /\ ShownInv'
<1>1. \A k \in Clients : work[k].path \notin ps /\ work[k].to \notin ps
  BY DEF Unclaimed, Claimed, CarefulFiles
<1>2. \A k \in Clients : Working(k) => tree'[work[k].path] = tree[work[k].path]
  BY <1>1, WorkHas
<1>3. \A k \in Clients : work[k].at \in Restoring => tree'[work[k].to] = tree[work[k].to]
  BY <1>1, WorkHas DEF Working, Doing, Restoring
<1>4. StepInv'
  BY <1>2, <1>3 DEF StepInv, StepOf, Working, Doing, Restoring
<1> QED
  BY <1>4 DEF OwnInv, ShownInv, Working, Doing, Fault

\* A request that ends takes nothing from the others.
LEMMA OwnKeeps ==
  ASSUME OwnInv, NEW k \in Clients, \A j \in Clients : j # k => work'[j] = work[j],
         \/ work'[k] = Free
         \/ /\ Working(k) /\ work'[k].entry = work[k].entry
            /\ work'[k].path = work[k].path /\ work'[k].to = work[k].to
  PROVE  OwnInv'
BY DEF OwnInv, Working, Doing, Free

\* A request that begins with paths and an entry that no other has.
LEMMA OwnBegins ==
  ASSUME FileTypeOK, FileFlow, CarefulFiles, OwnInv, NEW k \in Clients,
         \A j \in Clients : j # k => work'[j] = work[j],
         NEW ps \in SUBSET Paths, Unclaimed(ps), {work'[k].path, work'[k].to} \subseteq ps \cup {NoPath},
         \A j \in Clients : Working(j) => work[j].entry # work'[k].entry
  PROVE  OwnInv'
<1>1. \A j \in Clients : work[j].path \notin ps /\ work[j].to \notin ps
  BY DEF Unclaimed, Claimed, CarefulFiles
<1> QED
  BY <1>1 DEF OwnInv, Working, Doing

\* The steps of a request leave what the others rest on as it is.
LEMMA OthersKeep ==
  ASSUME FileTypeOK, FileFlow, OwnInv, StepInv, NEW k \in Clients,
         \A j \in Clients : j # k => work'[j] = work[j],
         Working(k), \A e \in Entries : e # work[k].entry => trash'[e] = trash[e],
         \A p \in Paths : p \notin {work[k].path, work[k].to} => tree'[p] = tree[p]
  PROVE  \A j \in Clients : j # k => StepOf(j)'
<1> SUFFICES ASSUME NEW j \in Clients, j # k PROVE StepOf(j)'
  OBVIOUS
<1>1. work'[j] = work[j] /\ StepOf(j)
  BY DEF StepInv
<1>2. CASE ~ Working(j)
  BY <1>1, <1>2 DEF StepOf, Working, Doing, Deleting, Restoring
<1>3. CASE Working(j)
  <2>1. work[j].entry # work[k].entry
        /\ {work[j].path, work[j].to} \cap {work[k].path, work[k].to} \subseteq {NoPath}
    BY <1>3 DEF OwnInv
  <2>2. trash'[work[j].entry] = trash[work[j].entry] /\ tree'[work[j].path] = tree[work[j].path]
    BY <1>3, <2>1, WorkHas
  <2>3. work[j].at \in Restoring => tree'[work[j].to] = tree[work[j].to]
    BY <1>3, <2>1, WorkHas
  <2> QED
    BY <1>1, <2>2, <2>3 DEF StepOf, Working, Doing, Deleting, Restoring
<1> QED
  BY <1>2, <1>3

LEMMA PutKeeps ==
  ASSUME FileTypeOK, FileFlow, CarefulFiles, WholeInv, NEW p \in Paths, NEW cs \in SUBSET Contents,
         Put(p, cs)
  PROVE  WholeInv'
<1>1. /\ tree'[p].has = cs /\ tree'[p] # Nothing
      /\ \A q \in Paths \ {p} : tree'[q] = tree[q]
  <2>1. [dir |-> FALSE, has |-> cs] \in Item
    BY DEF Item
  <2>2. [dir |-> FALSE, has |-> cs] # Nothing
    BY <2>1, FilePathsAreTyped
  <2> QED
    BY <2>2 DEF Put, FileTypeOK
<1>2. stored' \subseteq stored \cup InTree'
  BY <1>1, TreeHoldsNext DEF Put
<1>3. OnDiskInv'
  BY <1>2, DiscardKeeps DEF Put, WholeInv
<1>4. OwnInv' /\ StepInv' /\ ShownInv'
  BY <1>1, QuietKeeps DEF Put, WholeInv
<1> QED
  BY <1>3, <1>4 DEF WholeInv

LEMMA MkdirKeeps ==
  ASSUME FileTypeOK, FileFlow, CarefulFiles, WholeInv, NEW p \in Paths, Mkdir(p) PROVE WholeInv'
<1>1. \A q \in Paths \ {p} : tree'[q] = tree[q]
  BY DEF Mkdir, FileTypeOK
<1>2. \A c \in InTree \cup InTrash : c \in InTree' \cup InTrash'
  BY <1>1, TreeHolds, TreeHoldsNext, TrashHolds, TrashHoldsNext DEF Mkdir
<1>3. OnDiskInv'
  BY <1>2, HeldKeeps DEF Mkdir, WholeInv
<1>4. OwnInv' /\ StepInv' /\ ShownInv'
  BY <1>1, QuietKeeps DEF Mkdir, WholeInv
<1> QED
  BY <1>3, <1>4 DEF WholeInv

LEMMA RenameKeeps ==
  ASSUME FileTypeOK, FileFlow, CarefulFiles, WholeInv, NEW p \in Paths, NEW q \in Paths, Rename(p, q)
  PROVE  WholeInv'
<1>1. \A r \in Paths \ {p, q} : tree'[r] = tree[r]
  BY DEF Rename, FileTypeOK
<1>2. OnDiskInv'
  BY DiscardKeeps DEF Rename, WholeInv
<1>3. OwnInv' /\ StepInv' /\ ShownInv'
  BY <1>1, QuietKeeps DEF Rename, WholeInv
<1> QED
  BY <1>2, <1>3 DEF WholeInv

LEMMA CopyFileKeeps ==
  ASSUME FileTypeOK, FileFlow, CarefulFiles, WholeInv, NEW p \in Paths, NEW q \in Paths, Copy(p, q)
  PROVE  WholeInv'
<1>1. p # q
  BY DEF Copy, CarefulFiles
<1>2. Discard /\ \A r \in Paths \ {p, q} : tree'[r] = tree[r]
  BY <1>1 DEF Copy, FileTypeOK
<1>3. OnDiskInv'
  BY <1>2, DiscardKeeps DEF Copy, WholeInv
<1>4. OwnInv' /\ StepInv' /\ ShownInv'
  BY <1>1, <1>2, QuietKeeps DEF Copy, WholeInv
<1> QED
  BY <1>3, <1>4 DEF WholeInv

\* A request is given its entry and its path.
LEMMA TrashingKeeps ==
  ASSUME FileTypeOK, FileFlow, CarefulFiles, WholeInv, NEW k \in Clients, NEW p \in DOMAIN Recovered,
         NEW e \in Entries, Delete(k, p, e)
  PROVE  WholeInv'
<1>1. p \in Paths /\ p # NoPath /\ e # NoEntry
  BY FilePathsAreTyped
<1>2. /\ work'[k].at = "rename" /\ work'[k].path = p /\ work'[k].to = NoPath /\ work'[k].entry = e
      /\ \A j \in Clients : j # k => work'[j] = work[j]
  BY DEF Delete, FileTypeOK
<1>3. /\ trash[e].state = "unused" /\ trash[e].item = Nothing /\ trash[e].meta = NoPath
      /\ trash'[e].state = "there" /\ trash'[e].item = Nothing /\ trash'[e].meta = NoPath
      /\ \A x \in Entries : trash'[x].item = trash[x].item /\ trash'[x].meta = trash[x].meta
      /\ \A x \in Entries : x # e => trash'[x] = trash[x]
  BY DEF Delete, FileFlow, TrashFlow, FileTypeOK, Entry
<1>4. \A j \in Clients : Working(j) => work[j].entry # e
  BY <1>3 DEF WholeInv, StepInv, StepOf
<1>5. OwnInv'
  BY <1>1, <1>2, <1>4, OwnBegins DEF Delete, WholeInv
<1>6. \A j \in Clients : j # k => StepOf(j)'
  BY <1>2, <1>3, <1>4, WorkHas DEF Delete, WholeInv, StepInv, StepOf, Working, Doing, Deleting, Restoring
<1>7. StepOf(k)'
  BY <1>2, <1>3 DEF StepOf, Working, Doing, Deleting, Restoring
<1>8. ShownInv'
  <2>1. \A x \in Entries, j \in Clients : work[j].entry = x => work'[j].entry = x \/ trash[x].item = Nothing
    <3>1. Doing(k, "idle") => work[k].entry = NoEntry
      BY FreeIsTyped DEF FileFlow, WorkFlow
    <3> QED
      BY <1>2, <3>1, FilePathsAreTyped DEF Delete
  <2> QED
    BY <1>3, <2>1 DEF Delete, WholeInv, ShownInv, Fault
<1>9. OnDiskInv'
  BY <1>3, HeldKeeps, TreeHolds, TreeHoldsNext, TrashHolds, TrashHoldsNext DEF Delete, WholeInv
<1> QED
  BY <1>5, <1>6, <1>7, <1>8, <1>9 DEF WholeInv, StepInv

LEMMA RestoreKeeps ==
  ASSUME FileTypeOK, FileFlow, CarefulFiles, WholeInv, NEW k \in Clients, NEW e \in Entries, Restore(k, e)
  PROVE  WholeInv'
<1> DEFINE p == trash[e].meta
<1>1. p \in DOMAIN Recovered /\ p \in Paths /\ Recovered[p] \in Paths
  BY FilePathsAreTyped DEF Restore, FileFlow, TrashFlow
<1>2. /\ work'[k].at = "place" /\ work'[k].path = p /\ work'[k].to = RestoredTo(p) /\ work'[k].entry = e
      /\ \A j \in Clients : j # k => work'[j] = work[j]
  BY DEF Restore, FileTypeOK
<1>3. tree[RestoredTo(p)] = Nothing /\ RestoredTo(p) \in {p, Recovered[p]}
  BY DEF Restore, CarefulFiles, RestoredTo
<1>4. \A j \in Clients : work[j].path # p
  BY DEF Restore, Unclaimed, Claimed, CarefulFiles
<1>5. \A j \in Clients : Working(j) => work[j].entry # e
  <2> SUFFICES ASSUME NEW j \in Clients, Working(j), work[j].entry = e PROVE FALSE
    OBVIOUS
  <2>1. work[j].at \in Deleting \cup Restoring
    BY DEF Working, Doing, Deleting, Restoring, FileTypeOK
  <2> QED
    BY <1>1, <1>4, <2>1, FilePathsAreTyped DEF WholeInv, StepInv, StepOf, FileFlow, TrashFlow
<1>6. OwnInv'
  BY <1>1, <1>2, <1>3, <1>5, OwnBegins DEF Restore, WholeInv
<1>7. \A j \in Clients : j # k => StepOf(j)'
  BY <1>2 DEF Restore, WholeInv, StepInv, StepOf, Working, Doing, Deleting, Restoring
<1>8. trash[e].state = "there"
  BY <1>1, FilePathsAreTyped DEF FileFlow, TrashFlow
<1>9. StepOf(k)'
  BY <1>2, <1>3, <1>8 DEF Restore, StepOf, Working, Doing, Deleting, Restoring
<1>10. ShownInv'
  <2>1. \A x \in Entries, j \in Clients : work[j].entry = x => work'[j].entry = x
    <3>1. Doing(k, "idle") => work[k].entry = NoEntry
      BY FreeIsTyped DEF FileFlow, WorkFlow
    <3> QED
      BY <1>2, <3>1, FilePathsAreTyped DEF Restore
  <2> QED
    BY <2>1 DEF Restore, WholeInv, ShownInv, Fault
<1>11. OnDiskInv'
  BY HeldKeeps, TreeHolds, TreeHoldsNext, TrashHolds, TrashHoldsNext DEF Restore, WholeInv
<1> QED
  BY <1>6, <1>7, <1>9, <1>10, <1>11 DEF WholeInv, StepInv

\* A request that gives up its entry, which nothing but what stays elsewhere is in.
LEMMA AbandonKeeps ==
  ASSUME FileTypeOK, FileFlow, CarefulFiles, WholeInv, NEW k \in Clients, Working(k), Abandon(k),
         UNCHANGED <<tree, stored, discarded, fileUse>>,
         \/ trash[work[k].entry].item = Nothing
         \/ Doing(k, "clean") /\ trash[work[k].entry].item = tree[work[k].to]
  PROVE  WholeInv'
<1> DEFINE e == work[k].entry
<1>1. /\ e \in Entries /\ e # NoEntry /\ (Doing(k, "clean") => work[k].to \in Paths)
  BY WorkHas DEF Doing, Restoring
<1>2. /\ work'[k] = Free /\ \A j \in Clients : j # k => work'[j] = work[j]
      /\ trash'[e] = Removed /\ \A x \in Entries : x # e => trash'[x] = trash[x]
  BY <1>1, AbandonMoves
<1>3. OwnInv'
  BY <1>2, OwnKeeps DEF WholeInv
<1>4. \A j \in Clients : j # k => StepOf(j)'
  BY <1>2, OthersKeep DEF WholeInv
<1>5. StepOf(k)'
  BY <1>2, FreeIsTyped DEF StepOf, Working, Doing, Deleting, Restoring
<1>6. ShownInv'
  BY <1>1, <1>2, RemovedIsTyped DEF WholeInv, ShownInv, Fault
<1>7. OnDiskInv'
  <2>1. \A c \in InTree \cup InTrash : c \in InTree' \cup InTrash'
    BY <1>1, <1>2, TreeHolds, TreeHoldsNext, TrashHolds, TrashHoldsNext
  <2> QED
    BY <2>1, HeldKeeps DEF WholeInv
<1> QED
  BY <1>3, <1>4, <1>5, <1>6, <1>7 DEF WholeInv, StepInv

LEMMA MoveToTrashKeeps ==
  ASSUME FileTypeOK, FileFlow, CarefulFiles, WholeInv, NEW k \in Clients, MoveToTrash(k) PROVE WholeInv'
<1> DEFINE e == work[k].entry  p == work[k].path
<1>1. /\ Working(k) /\ e \in Entries /\ p \in Paths /\ p # NoPath
      /\ trash[e].item = Nothing /\ trash[e].meta = NoPath
  BY WorkHas DEF MoveToTrash, Doing, Working, WholeInv, StepInv, StepOf, Deleting
<1>2. UNCHANGED <<stored, discarded, fileUse>>
  BY DEF MoveToTrash
<1>3. CASE Abandon(k) /\ UNCHANGED tree
  BY <1>1, <1>2, <1>3, AbandonKeeps
<1>4. CASE /\ trash[e].state = "there" /\ tree[p] # Nothing
           /\ trash' = [trash EXCEPT ![e].item = tree[p]]
           /\ tree' = [tree EXCEPT ![p] = Nothing]
           /\ Then(k, "meta")
  <2>1. /\ trash'[e].item = tree[p] /\ trash'[e].state = "there" /\ trash'[e].meta = NoPath
        /\ \A x \in Entries : x # e => trash'[x] = trash[x]
        /\ \A q \in Paths : q # p => tree'[q] = tree[q]
    BY <1>1, <1>4 DEF FileTypeOK, Entry
  <2>2. /\ work'[k].at = "meta" /\ work'[k].path = p /\ work'[k].to = work[k].to /\ work'[k].entry = e
        /\ \A j \in Clients : j # k => work'[j] = work[j]
    BY <1>4, ThenMoves DEF Deleting
  <2>3. OwnInv'
    BY <1>1, <2>2, OwnKeeps DEF WholeInv
  <2>4. \A j \in Clients : j # k => StepOf(j)'
    BY <1>1, <2>1, <2>2, OthersKeep DEF WholeInv
  <2>5. StepOf(k)'
    BY <2>1, <2>2 DEF StepOf, Working, Doing, Deleting, Restoring
  <2>6. ShownInv'
    BY <1>2, <2>1, <2>2 DEF WholeInv, ShownInv, Fault
  <2>7. \A c \in InTree \cup InTrash : c \in InTree' \cup InTrash'
    BY <1>1, <1>4, <2>1, TreeHolds, TreeHoldsNext, TrashHolds, TrashHoldsNext
  <2> QED
    BY <1>2, <2>3, <2>4, <2>5, <2>6, <2>7, HeldKeeps DEF WholeInv, StepInv
<1>5. CASE Then(k, "copy") /\ UNCHANGED <<tree, trash>>
  <2>1. /\ work'[k].at = "copy" /\ work'[k].path = p /\ work'[k].to = work[k].to /\ work'[k].entry = e
        /\ \A j \in Clients : j # k => work'[j] = work[j]
    BY <1>5, ThenMoves DEF Deleting
  <2>2. OwnInv'
    BY <1>1, <2>1, OwnKeeps DEF WholeInv
  <2>3. \A j \in Clients : j # k => StepOf(j)'
    BY <1>1, <1>5, <2>1, OthersKeep DEF WholeInv
  <2>4. StepOf(k)'
    BY <1>1, <1>5, <2>1 DEF WholeInv, StepInv, StepOf, Working, Doing, Deleting, Restoring
  <2>5. ShownInv'
    BY <1>2, <1>5, <2>1 DEF WholeInv, ShownInv, Fault
  <2>6. OnDiskInv'
    BY <1>2, <1>5 DEF WholeInv, OnDiskInv, InTree, InTrash
  <2> QED
    BY <2>2, <2>3, <2>4, <2>5, <2>6 DEF WholeInv, StepInv
<1> QED
  BY <1>3, <1>4, <1>5 DEF MoveToTrash

LEMMA CopyToTrashKeeps ==
  ASSUME FileTypeOK, FileFlow, CarefulFiles, WholeInv, NEW k \in Clients, CopyToTrash(k) PROVE WholeInv'
<1> DEFINE e == work[k].entry  p == work[k].path
<1>1. /\ Working(k) /\ e \in Entries /\ p \in Paths /\ p # NoPath
      /\ trash[e].item = Nothing /\ trash[e].meta = NoPath
  BY WorkHas DEF CopyToTrash, Doing, Working, WholeInv, StepInv, StepOf, Deleting
<1>2. UNCHANGED <<tree, stored, discarded, fileUse>>
  BY DEF CopyToTrash
<1>3. CASE Abandon(k)
  BY <1>1, <1>2, <1>3, AbandonKeeps
<1>4. CASE /\ trash' = [trash EXCEPT ![e].state = "there", ![e].item = tree[p]]
           /\ Then(k, "remove")
  <2>1. /\ trash'[e].item = tree[p] /\ trash'[e].state = "there" /\ trash'[e].meta = NoPath
        /\ \A x \in Entries : x # e => trash'[x] = trash[x]
    BY <1>1, <1>4 DEF FileTypeOK, Entry
  <2>2. /\ work'[k].at = "remove" /\ work'[k].path = p /\ work'[k].to = work[k].to /\ work'[k].entry = e
        /\ \A j \in Clients : j # k => work'[j] = work[j]
    BY <1>4, ThenMoves DEF Deleting
  <2>3. OwnInv'
    BY <1>1, <2>2, OwnKeeps DEF WholeInv
  <2>4. \A j \in Clients : j # k => StepOf(j)'
    BY <1>1, <1>2, <2>1, <2>2, OthersKeep DEF WholeInv
  <2>5. StepOf(k)'
    BY <1>2, <2>1, <2>2 DEF StepOf, Working, Doing, Deleting, Restoring
  <2>6. ShownInv'
    BY <1>2, <2>1, <2>2 DEF WholeInv, ShownInv, Fault
  <2>7. \A c \in InTree \cup InTrash : c \in InTree' \cup InTrash'
    BY <1>1, <1>2, <1>4, <2>1, TreeHolds, TreeHoldsNext, TrashHolds, TrashHoldsNext
  <2> QED
    BY <1>2, <2>3, <2>4, <2>5, <2>6, <2>7, HeldKeeps DEF WholeInv, StepInv
<1> QED
  BY <1>3, <1>4 DEF CopyToTrash

LEMMA RemoveOriginalKeeps ==
  ASSUME FileTypeOK, FileFlow, CarefulFiles, WholeInv, NEW k \in Clients, RemoveOriginal(k)
  PROVE  WholeInv'
<1> DEFINE e == work[k].entry  p == work[k].path
<1>1. /\ Working(k) /\ e \in Entries /\ p \in Paths /\ p # NoPath /\ trash[e].meta = NoPath
      /\ trash[e].state # "unused" /\ (trash[e].state = "there" => trash[e].item = tree[p])
  BY WorkHas DEF RemoveOriginal, Doing, Working, WholeInv, StepInv, StepOf, Deleting
<1>2. /\ tree' = [tree EXCEPT ![p] = Nothing] /\ Then(k, "meta") /\ UNCHANGED <<trash, stored, fileUse>>
      /\ IF trash[e].state = "gone" THEN Discard ELSE UNCHANGED discarded
  BY DEF RemoveOriginal, CarefulFiles
<1>3. /\ work'[k].at = "meta" /\ work'[k].path = p /\ work'[k].to = work[k].to /\ work'[k].entry = e
      /\ \A j \in Clients : j # k => work'[j] = work[j]
  BY <1>2, ThenMoves DEF Deleting
<1>4. tree'[p] = Nothing /\ \A q \in Paths : q # p => tree'[q] = tree[q]
  BY <1>1, <1>2 DEF FileTypeOK
<1>5. OwnInv'
  BY <1>1, <1>3, OwnKeeps DEF WholeInv
<1>6. \A j \in Clients : j # k => StepOf(j)'
  BY <1>1, <1>2, <1>3, <1>4, OthersKeep DEF WholeInv
<1>7. StepOf(k)'
  BY <1>1, <1>2, <1>3 DEF StepOf, Working, Doing, Deleting, Restoring
<1>8. ShownInv'
  BY <1>2, <1>3 DEF WholeInv, ShownInv, Fault
<1>9. OnDiskInv'
  <2>1. CASE trash[e].state = "gone"
    BY <1>2, <2>1, DiscardKeeps DEF WholeInv
  <2>2. CASE trash[e].state = "there"
    <3>1. \A c \in InTree \cup InTrash : c \in InTree' \cup InTrash'
      BY <1>1, <1>2, <1>4, <2>2, TreeHolds, TreeHoldsNext, TrashHolds, TrashHoldsNext
    <3> QED
      BY <1>2, <2>2, <3>1, HeldKeeps DEF WholeInv
  <2>3. trash[e].state \in {"unused", "there", "gone"}
    BY <1>1 DEF FileTypeOK, Entry
  <2> QED
    BY <1>1, <2>1, <2>2, <2>3
<1> QED
  BY <1>5, <1>6, <1>7, <1>8, <1>9 DEF WholeInv, StepInv

LEMMA WriteMetaKeeps ==
  ASSUME FileTypeOK, FileFlow, CarefulFiles, WholeInv, NEW k \in Clients, WriteMeta(k) PROVE WholeInv'
<1> DEFINE e == work[k].entry
<1>1. /\ Working(k) /\ e \in Entries /\ work[k].path \in Paths /\ work[k].path # NoPath
  BY WorkHas DEF WriteMeta, Doing, Working
<1>2. UNCHANGED <<tree, stored, discarded, fileUse>>
  BY DEF WriteMeta
<1>3. work'[k] = Free /\ \A j \in Clients : j # k => work'[j] = work[j]
  BY DoneMoves DEF WriteMeta
<1>4. /\ \A x \in Entries : x # e => trash'[x] = trash[x]
      /\ trash'[e].item = trash[e].item /\ trash'[e].state = trash[e].state
      /\ trash'[e].meta # NoPath \/ trash[e].state = "gone" \/ Fault("meta")
  <2>1. CASE UNCHANGED trash /\ (trash[e].state = "gone" \/ Fault("meta"))
    BY <2>1
  <2>2. CASE trash' = [trash EXCEPT ![e].meta = work[k].path]
    BY <1>1, <2>2 DEF FileTypeOK, Entry
  <2> QED
    BY <2>1, <2>2 DEF WriteMeta
<1>5. OwnInv'
  BY <1>3, OwnKeeps DEF WholeInv
<1>6. \A j \in Clients : j # k => StepOf(j)'
  BY <1>1, <1>2, <1>3, <1>4, OthersKeep DEF WholeInv
<1>7. StepOf(k)'
  BY <1>3, FreeIsTyped DEF StepOf, Working, Doing, Deleting, Restoring
<1>8. ShownInv'
  BY <1>1, <1>2, <1>3, <1>4 DEF WholeInv, ShownInv, Fault, FileFlow, TrashFlow
<1>9. OnDiskInv'
  <2>1. \A x \in Entries : trash'[x].item = trash[x].item
    BY <1>4
  <2> QED
    BY <1>2, <2>1, HeldKeeps, TreeHolds, TreeHoldsNext, TrashHolds, TrashHoldsNext DEF WholeInv
<1> QED
  BY <1>5, <1>6, <1>7, <1>8, <1>9 DEF WholeInv, StepInv

LEMMA PlaceKeeps ==
  ASSUME FileTypeOK, FileFlow, CarefulFiles, WholeInv, NEW k \in Clients, Place(k) PROVE WholeInv'
<1> DEFINE e == work[k].entry  to == work[k].to  item == trash[work[k].entry].item
<1>1. /\ Working(k) /\ Doing(k, "place") /\ e \in Entries /\ to \in Paths /\ to # NoPath
      /\ tree[to] = Nothing /\ (trash[e].state = "there" => trash[e].meta = work[k].path)
      /\ trash[e].state # "unused" /\ item \in Holding /\ tree \in [Paths -> Holding]
  BY WorkHas DEF Place, Doing, Working, WholeInv, StepInv, StepOf, Restoring, Entry, FileTypeOK, Holding
<1>2. UNCHANGED <<stored, discarded, fileUse>>
  BY DEF Place
<1>3. ASSUME Done(k), UNCHANGED trash, \A q \in Paths : q # to => tree'[q] = tree[q] PROVE WholeInv'
  <2>1. work'[k] = Free /\ \A j \in Clients : j # k => work'[j] = work[j]
    BY <1>3, DoneMoves
  <2>2. OwnInv'
    BY <2>1, OwnKeeps DEF WholeInv
  <2>3. \A j \in Clients : j # k => StepOf(j)'
    BY <1>1, <1>3, <2>1, OthersKeep DEF WholeInv
  <2>4. StepOf(k)'
    BY <2>1, FreeIsTyped DEF StepOf, Working, Doing, Deleting, Restoring
  <2>5. ShownInv'
    <3>1. trash[e].item # Nothing => trash[e].meta # NoPath
      BY <1>1, WorkHas DEF FileFlow, TrashFlow
    <3> QED
      BY <1>1, <1>2, <1>3, <2>1, <3>1 DEF WholeInv, ShownInv, Fault
  <2>6. OnDiskInv'
    BY <1>1, <1>2, <1>3, HeldKeeps, TreeHolds, TreeHoldsNext, TrashHolds, TrashHoldsNext DEF WholeInv
  <2> QED
    BY <2>2, <2>3, <2>4, <2>5, <2>6 DEF WholeInv, StepInv
<1>4. ASSUME Then(k, "clean"), item # Nothing, tree'[to] = item, \A q \in Paths : q # to => tree'[q] = tree[q],
             \A x \in Entries : x # e => trash'[x] = trash[x],
             trash'[e].item \in {Nothing, item}, trash'[e].state = trash[e].state,
             trash'[e].meta = trash[e].meta
      PROVE  WholeInv'
  <2>1. /\ work'[k].at = "clean" /\ work'[k].path = work[k].path /\ work'[k].to = to /\ work'[k].entry = e
        /\ \A j \in Clients : j # k => work'[j] = work[j]
    BY <1>4, ThenMoves DEF Restoring
  <2>2. OwnInv'
    BY <1>1, <2>1, OwnKeeps DEF WholeInv
  <2>3. \A j \in Clients : j # k => StepOf(j)'
    BY <1>1, <1>4, <2>1, OthersKeep DEF WholeInv
  <2>4. StepOf(k)'
    BY <1>1, <1>4, <2>1 DEF StepOf, Working, Doing, Deleting, Restoring
  <2>5. ShownInv'
    BY <1>2, <1>4, <2>1 DEF WholeInv, ShownInv, Fault
  <2>6. \A c \in InTree \cup InTrash : c \in InTree' \cup InTrash'
    BY <1>1, <1>4, TreeHolds, TreeHoldsNext, TrashHolds, TrashHoldsNext
  <2> QED
    BY <1>2, <2>2, <2>3, <2>4, <2>5, <2>6, HeldKeeps DEF WholeInv, StepInv
<1>5. CASE /\ item # Nothing /\ tree' = [tree EXCEPT ![to] = item]
           /\ trash' = [trash EXCEPT ![e].item = Nothing] /\ Then(k, "clean")
  <2>1. tree'[to] = item /\ \A q \in Paths : q # to => tree'[q] = tree[q]
    BY <1>1, <1>5
  <2>2. /\ \A x \in Entries : x # e => trash'[x] = trash[x]
        /\ trash'[e].item = Nothing /\ trash'[e].state = trash[e].state /\ trash'[e].meta = trash[e].meta
    BY <1>1, <1>5 DEF FileTypeOK, Entry
  <2> QED
    BY <1>4, <1>5, <2>1, <2>2
<1>6. CASE /\ item # Nothing /\ tree' = [tree EXCEPT ![to] = Copied(item, @)]
           /\ Then(k, "clean") /\ UNCHANGED trash
  <2>1. Copied(item, tree[to]) = item
    BY <1>1, <1>6, CopiedIsItem DEF Holding
  <2>2. tree'[to] = item /\ \A q \in Paths : q # to => tree'[q] = tree[q]
    BY <1>1, <1>6, <2>1
  <2> QED
    BY <1>4, <1>6, <2>2
<1>7. CASE /\ \E some \in SUBSET item.has :
                tree' = [tree EXCEPT ![to] = Copied([item EXCEPT !.has = some], @)]
           /\ Done(k) /\ UNCHANGED trash
  <2>1. \A q \in Paths : q # to => tree'[q] = tree[q]
    BY <1>1, <1>7
  <2> QED
    BY <1>3, <1>7, <2>1
<1>8. CASE Done(k) /\ UNCHANGED <<tree, trash>>
  BY <1>3, <1>8
<1> QED
  BY <1>5, <1>6, <1>7, <1>8 DEF Place

LEMMA RemoveEntryKeeps ==
  ASSUME FileTypeOK, FileFlow, CarefulFiles, WholeInv, NEW k \in Clients, RemoveEntry(k) PROVE WholeInv'
<1>1. Working(k) /\ Doing(k, "clean") /\ trash[work[k].entry].item \in {Nothing, tree[work[k].to]}
  BY DEF RemoveEntry, Doing, Working, WholeInv, StepInv, StepOf
<1> QED
  BY <1>1, AbandonKeeps DEF RemoveEntry

LEMMA PurgeKeeps ==
  ASSUME FileTypeOK, FileFlow, CarefulFiles, WholeInv, NEW es \in SUBSET Entries, Purge(es) PROVE WholeInv'
<1>1. \A e \in Entries : trash'[e] = trash[e] \/ (trash[e].state = "there" /\ trash'[e] = Removed)
  BY DEF Purge
<1>2. UNCHANGED <<tree, work, stored, fileUse>>
  BY DEF Purge
<1>3. StepInv'
  <2> SUFFICES ASSUME NEW k \in Clients PROVE StepOf(k)'
    BY DEF StepInv
  <2>1. CASE Doing(k, "idle")
    BY <1>2, <2>1 DEF StepOf, Working, Doing, Deleting, Restoring
  <2>2. CASE Working(k)
    BY <1>1, <1>2, <2>2, WorkHas, RemovedIsTyped DEF WholeInv, StepInv, StepOf, Working, Doing, Deleting, Restoring
  <2> QED
    BY <2>1, <2>2 DEF Working
<1>4. OwnInv' /\ ShownInv'
  BY <1>1, <1>2, RemovedIsTyped DEF WholeInv, OwnInv, ShownInv, Working, Doing, Fault
<1>5. OnDiskInv'
  BY <1>2, DiscardKeeps DEF Purge, WholeInv
<1> QED
  BY <1>3, <1>4, <1>5 DEF WholeInv

LEMMA DieKeeps ==
  ASSUME FileTypeOK, FileFlow, CarefulFiles, WholeInv, Die PROVE WholeInv'
<1>1. \A k \in Clients : work'[k] = Free
  BY DEF Die
<1>2. UNCHANGED <<tree, trash, stored, discarded, fileUse>> /\ Fault("crash")
  BY DEF Die
<1>3. OwnInv' /\ StepInv'
  BY <1>1, FreeIsTyped DEF OwnInv, StepInv, StepOf, Working, Doing, Deleting, Restoring
<1>4. ShownInv' /\ OnDiskInv'
  BY <1>2 DEF WholeInv, ShownInv, OnDiskInv, InTree, InTrash, Fault
<1> QED
  BY <1>3, <1>4 DEF WholeInv

\* Nothing that a client stored gets lost between the steps of the trash.
THEOREM FilesStayKept == FileSpec => []NothingLost
<1>1. FileInit => LostInv
  <2> SUFFICES ASSUME FileInit PROVE WholeInv
    BY DEF LostInv
  <2>1. \A k \in Clients : work[k] = Free
    BY DEF FileInit
  <2>2. OwnInv /\ StepInv
    BY <2>1, FreeIsTyped DEF OwnInv, StepInv, StepOf, Working, Doing, Deleting, Restoring
  <2>3. ShownInv
    BY DEF FileInit, ShownInv, Removed
  <2>4. OnDiskInv
    BY DEF FileInit, OnDiskInv
  <2> QED
    BY <2>2, <2>3, <2>4 DEF WholeInv
<1>2. FileTypeOK /\ FileFlow /\ LostInv /\ [FileNext]_fileVars => LostInv'
  <2> SUFFICES ASSUME FileTypeOK, FileFlow, LostInv, [FileNext]_fileVars, CarefulFiles' PROVE WholeInv'
    BY DEF LostInv
  <2>1. fileUse' = fileUse
    BY DEF FileNext, Save, Upload, Touch, Put, Mkdir, Rename, Move, Copy, Delete, MoveToTrash, CopyToTrash,
           RemoveOriginal, WriteMeta, Restore, Place, RemoveEntry, PermanentDelete, ClearTrash, Purge, Die,
           fileVars
  <2>2. CarefulFiles /\ WholeInv
    BY <2>1 DEF CarefulFiles, Fault, LostInv
  <2>3. ASSUME NEW p \in Paths, NEW c \in Contents, Save(p, c) \/ Upload(p, c) PROVE WholeInv'
    BY <2>2, <2>3, PutKeeps DEF Save, Upload
  <2>4. ASSUME NEW p \in Paths, Touch(p) PROVE WholeInv'
    BY <2>2, <2>4, PutKeeps DEF Touch
  <2>5. ASSUME NEW e \in Entries, PermanentDelete(e) PROVE WholeInv'
    BY <2>2, <2>5, PurgeKeeps DEF PermanentDelete
  <2>6. ASSUME ClearTrash PROVE WholeInv'
    BY <2>2, <2>6, PurgeKeeps DEF ClearTrash
  <2>7. CASE UNCHANGED fileVars
    BY <2>2, <2>7 DEF fileVars, WholeInv, OwnInv, StepInv, StepOf, ShownInv, OnDiskInv, InTree, InTrash,
       Working, Doing, Fault
  <2> QED
    BY <2>2, <2>3, <2>4, <2>5, <2>6, <2>7, MkdirKeeps, RenameKeeps, CopyFileKeeps, TrashingKeeps,
       MoveToTrashKeeps, CopyToTrashKeeps, RemoveOriginalKeeps, WriteMetaKeeps, RestoreKeeps, PlaceKeeps,
       RemoveEntryKeeps, DieKeeps DEF FileNext, Move
<1>3. FileTypeOK /\ FileFlow /\ LostInv => NothingLost
  <2> SUFFICES ASSUME FileTypeOK, FileFlow, LostInv, CarefulFiles
               PROVE  stored \subseteq discarded \cup InTree
                        \cup (IF Fault("crash") \/ Fault("meta") THEN InTrash ELSE Restorable)
    BY DEF NothingLost, CarefulFiles
  <2>1. ~ (Fault("crash") \/ Fault("meta")) => InTrash \subseteq Restorable
    BY TrashHolds DEF LostInv, WholeInv, ShownInv, Restorable, HeldBy
  <2> QED
    BY <2>1 DEF LostInv, WholeInv, OnDiskInv
<1> QED
  BY <1>1, <1>2, <1>3, FilesTyping, PTL DEF FileSpec

-----------------------------------------------------------------------------
(***************************************************************************)
(* The panel with all its services.                                        *)
(***************************************************************************)

(* A step of the panel is a step of one service, which the others do not    *)
(* see: whatever a service promises alone it promises in the panel.         *)
THEOREM PanelIsItsServices ==
  Spec => FileSpec /\ ShareSpec /\ UploadSpec /\ ScriptSpec /\ LogSpec
<1>1. Init => FileInit /\ ShareInit /\ UploadInit /\ ScriptInit /\ LogInit
  BY DEF Init
<1>2. [Next]_<<fileVars, shareVars, uploadVars, scriptVars, logVars, part>> =>
        [FileNext]_fileVars /\ [ShareNext]_shareVars /\ [UploadNext]_uploadVars
          /\ [ScriptNext]_scriptVars /\ [LogNext]_logVars
  BY DEF Next
<1> QED
  BY <1>1, <1>2, PTL DEF Spec, FileSpec, ShareSpec, UploadSpec, ScriptSpec, LogSpec

\* Every state of the panel is well typed, in all its services.
THEOREM PanelStaysTyped == Spec => []TypeOK
<1>1. FileTypeOK /\ ShareTypeOK /\ UploadTypeOK /\ ScriptTypeOK /\ LogTypeOK => TypeOK
  BY DEF TypeOK
<1> QED
  BY <1>1, PanelIsItsServices, FilesTyping, ShareLinksTyping, UploadsTyping, ScriptsTyping, LogFilesTyping, PTL

\* The panel keeps what each of its services promises.
THEOREM PanelKeepsItsPromises ==
  Spec => [](NothingLost /\ SharesKept /\ MergedWhole /\ ScriptsAccounted /\ LinesWritten)
BY PanelIsItsServices, FilesStayKept, SharesStayKept, MergedStaysWhole, ScriptsStayAccounted, LinesAreWritten, PTL
=============================================================================
