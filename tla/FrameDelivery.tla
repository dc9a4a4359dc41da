--------------------------- MODULE FrameDelivery ---------------------------
(***************************************************************************)
(* The stream decoder implements the queue of frames of FrameQueue.        *)
(***************************************************************************)
EXTENDS StreamDecoder

WellFormedFrame(f) == is_known_message_type(f.type) /\ f.size <= MaxPayload
FrameSize(f) == Len(encode_frame(f))

\* What a reader of the stream sees of the decoder: nothing within a push.
Queue == INSTANCE FrameQueue WITH WellFormed <- WellFormedFrame, Size <- FrameSize,
             arrived <- returned, got <- delivered, broken <- (pc = "broken")

\* The decoder delivers what FrameQueue promises, whatever the pieces the bytes come in:
\* push never loses, repeats or reorders a frame over its buffering and compaction.
DeliversFrames == Queue!QueueSpec
=============================================================================
