---------------------------- MODULE MCInterleave ----------------------------
(* Small instances of Interleave.                                           *)
EXTENDS Interleave

CONSTANTS VideoBase, AudioBase, Frame,
          LaterDts    \* dts of encoders that run already, or need no priming

BaseOf == [s \in Streams |-> IF s[1] = "video" THEN VideoBase ELSE AudioBase]
FirstOrLater == {-Priming} \cup LaterDts
AudioFrames == [a \in AudioTracks |-> Frame]
=============================================================================
