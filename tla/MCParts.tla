------------------------------ MODULE MCParts ------------------------------
(* The parts that share no state, on small instances.  A behaviour follows *)
(* one of them.                                                            *)
EXTENDS SenderStart, NativeSender, WineWorker, CandidateBook, TextAssociations,
        BlobStore, Frames, Ingestion, Targets

VARIABLE part   \* the one this behaviour follows

vars == <<startVars, senderVars, workerVars, bookVars, assocVars, blobVars, frameVars,
          samplerVars, segmenterVars, targetVars, part>>

Init ==
  /\ part \in {"start", "sender", "worker", "book", "texts", "blobs", "frames",
               "sampler", "segmenter", "targets"}
  /\ StartInit /\ SenderInit /\ WorkerInit /\ BookInit /\ AssocInit
  /\ BlobInit /\ FramesInit /\ IngestionInit /\ TargetsInit
  /\ part # "targets" => menu = "wine"

Only(p) ==
  /\ part = p /\ UNCHANGED part
  /\ p # "start" => UNCHANGED startVars
  /\ p # "sender" => UNCHANGED senderVars
  /\ p # "worker" => UNCHANGED workerVars
  /\ p # "book" => UNCHANGED bookVars
  /\ p # "texts" => UNCHANGED assocVars
  /\ p # "blobs" => UNCHANGED blobVars
  /\ p # "frames" => UNCHANGED frameVars
  /\ p # "sampler" => UNCHANGED samplerVars
  /\ p # "segmenter" => UNCHANGED segmenterVars
  /\ p # "targets" => UNCHANGED targetVars

Next ==
  \/ Only("start") /\ StartNext
  \/ Only("sender") /\ SenderNext
  \/ Only("worker") /\ WorkerNext
  \/ Only("book") /\ BookNext
  \/ Only("texts") /\ AssocNext
  \/ Only("blobs") /\ BlobNext
  \/ Only("frames") /\ FramesNext
  \/ Only("sampler") /\ SamplerNext
  \/ Only("segmenter") /\ SegmenterNext
  \/ Only("targets") /\ TargetsNext

(* The sender thread runs, and time passes.                                *)
Spec ==
  /\ Init /\ [][Next]_vars
  /\ WF_senderVars(Loop) /\ WF_senderVars(Ticks)

TypeOK ==
  /\ StartTypeOK /\ SenderTypeOK /\ WorkerTypeOK /\ BookTypeOK /\ AssocTypeOK
  /\ BlobTypeOK /\ FramesTypeOK /\ IngestionTypeOK /\ TargetsTypeOK

Ranks == [s \in Callsite |-> IF s = "pango" THEN 3 ELSE IF s = "sdl_ttf" THEN 2 ELSE 1]
AlikePictures == {<<p, p>> : p \in Picture} \cup {<<"dusk", "dawn">>, <<"dawn", "dusk">>}
SimilarSamples == {<<s, s>> : s \in Sample} \cup {<<"A", "a">>, <<"a", "A">>}
Programs == {<<1, "x">>, <<1, "y">>, <<2, "x">>}
=============================================================================
