----------------------------- MODULE BlobStore -----------------------------
(***************************************************************************)
(* The content-addressed files of a session store.  put_blob writes a      *)
(* temporary file that every writer of a digest shares and renames it; the *)
(* steps of several programs interleave, and any of them may end.  A file  *)
(* is known by the writer that created it.                                 *)
(***************************************************************************)
CONSTANTS
  Digest,     \* the digests of what is stored
  Writer,     \* the programs that store it, once each
  NoFile

ASSUME BlobAssumption == NoFile \notin Writer

VARIABLES
  temporary,  \* per digest, the file under the temporary name
  blob,       \* per digest, the file under its final name
  filled,     \* per digest, the files that hold all their bytes
  writing,    \* per writer, the digest, where it is and the file it has open
  referred,   \* digests that a stored commit refers to
  torn        \* history: files whose writer ended while it was writing

blobVars == <<temporary, blob, filled, writing, referred, torn>>

Outside == [pc |-> "new", digest |-> NoFile, file |-> NoFile]
IsAt(w, pc) == writing[w].pc = pc
DigestOf(w) == writing[w].digest
Moves(w, pc) == writing' = [writing EXCEPT ![w].pc = pc]

BlobTypeOK ==
  /\ temporary \in [Digest -> Writer \cup {NoFile}]
  /\ blob \in [Digest -> Writer \cup {NoFile}]
  /\ filled \in [Digest -> SUBSET Writer]
  /\ \A w \in Writer : writing[w].pc \in {"new", "open", "fill", "rename", "commit", "ended"}
  /\ referred \subseteq Digest
  /\ torn \subseteq Digest \X Writer

BlobInit ==
  /\ temporary = [d \in Digest |-> NoFile]
  /\ blob = [d \in Digest |-> NoFile]
  /\ filled = [d \in Digest |-> {}]
  /\ writing = [w \in Writer |-> Outside]
  /\ referred = {} /\ torn = {}

(* Mutant: a digest whose temporary file exists needs no writing.          *)
BlobExists_AnyName(d) == blob[d] # NoFile \/ temporary[d] # NoFile

BlobExists(d) == blob[d] # NoFile

ChecksBlob(w) ==
  /\ IsAt(w, "new")
  /\ \E d \in Digest :
       writing' = [writing EXCEPT ![w] =
         [pc |-> IF BlobExists(d) THEN "commit" ELSE "open", digest |-> d, file |-> NoFile]]
  /\ UNCHANGED <<temporary, blob, filled, referred, torn>>

(* fs::write opens the temporary file, creating or truncating it ...       *)
OpensTemporary(w) ==
  LET d == DigestOf(w)
      file == IF temporary[d] = NoFile THEN w ELSE temporary[d]
  IN
  /\ IsAt(w, "open")
  /\ temporary' = [temporary EXCEPT ![d] = file]
  /\ filled' = [filled EXCEPT ![d] = @ \ {file}]
  /\ writing' = [writing EXCEPT ![w].pc = "fill", ![w].file = file]
  /\ UNCHANGED <<blob, referred, torn>>

(* ... and writes to what it opened, whatever the name of that is now.     *)
FillsTemporary(w) ==
  LET d == DigestOf(w) IN
  /\ IsAt(w, "fill")
  /\ filled' = [filled EXCEPT ![d] = @ \cup {writing[w].file}]
  /\ torn' = torn \ {<<d, writing[w].file>>}
  /\ Moves(w, "rename")
  /\ UNCHANGED <<temporary, blob, referred>>

(* Renames what the temporary name stands for; an error if nothing does.   *)
RenamesTemporary(w) ==
  LET d == DigestOf(w) IN
  /\ IsAt(w, "rename")
  /\ IF temporary[d] # NoFile
     THEN /\ blob' = [blob EXCEPT ![d] = temporary[d]]
          /\ temporary' = [temporary EXCEPT ![d] = NoFile]
          /\ Moves(w, "commit")
     ELSE Moves(w, "ended") /\ UNCHANGED <<blob, temporary>>
  /\ UNCHANGED <<filled, referred, torn>>

(* put_commit, with the digest as the payload of the observed event.       *)
RefersToBlob(w) ==
  /\ IsAt(w, "commit")
  /\ referred' = referred \cup {DigestOf(w)}
  /\ Moves(w, "ended")
  /\ UNCHANGED <<temporary, blob, filled, torn>>

(* The program ends.                                                       *)
WriterEnds(w) ==
  /\ writing[w].pc \notin {"new", "ended"}
  /\ torn' = IF IsAt(w, "fill") THEN torn \cup {<<DigestOf(w), writing[w].file>>} ELSE torn
  /\ Moves(w, "ended")
  /\ UNCHANGED <<temporary, blob, filled, referred>>

BlobNext ==
  \E w \in Writer :
    \/ ChecksBlob(w) \/ OpensTemporary(w) \/ FillsTemporary(w)
    \/ RenamesTemporary(w) \/ RefersToBlob(w) \/ WriterEnds(w)

-----------------------------------------------------------------------------
(* Properties                                                              *)

(* What a commit refers to can be read: the file exists and, unless its    *)
(* last writer ended in the middle or is still at it, holds all its bytes. *)
(* Two writers of the same bytes do not spoil each other's file.           *)
PayloadsKept ==
  \A d \in referred :
    /\ blob[d] # NoFile
    /\ \/ blob[d] \in filled[d]
       \/ <<d, blob[d]>> \in torn
       \/ \E w \in Writer : IsAt(w, "fill") /\ DigestOf(w) = d /\ writing[w].file = blob[d]
=============================================================================
