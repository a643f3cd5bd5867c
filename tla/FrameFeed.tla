------------------------------ MODULE FrameFeed ------------------------------
(***************************************************************************)
(* What the video output promises to the outputs and encoders fed from it, *)
(* with no cache, no threads and no locks: the composition clock advances  *)
(* the horizon by whole frame intervals, and every interval before the     *)
(* horizon is shown exactly once, in order.  Time is counted in frame      *)
(* intervals (video_output::frame_time).                                   *)
(***************************************************************************)
EXTENDS Integers

CONSTANT MaxCount   \* most intervals one rendered frame may stand for

VARIABLES
    horizon,   \* the first interval that has not been handed in yet
    shown,     \* the last interval shown to the inputs, -1 before the first
    closing    \* video_output_stop was called: what is queued may be dropped

feedVars == <<horizon, shown, closing>>

FeedInit ==
    /\ horizon = 0
    /\ shown = -1
    /\ closing = FALSE

\* The graphics thread hands in a frame that stands for n intervals.
HandIn(n) ==
    /\ horizon' = horizon + n
    /\ UNCHANGED <<shown, closing>>

\* The video thread shows the next interval.
Show ==
    /\ shown + 1 < horizon
    /\ shown' = shown + 1
    /\ UNCHANGED <<horizon, closing>>

Close ==
    /\ closing' = TRUE
    /\ UNCHANGED <<horizon, shown>>

FeedNext ==
    \/ \E n \in 1..MaxCount : HandIn(n)
    \/ Show
    \/ Close

FeedSafety == FeedInit /\ [][FeedNext]_feedVars

\* While the output is open every interval handed in is eventually shown.
FeedSpec == FeedSafety /\ WF_feedVars(~closing /\ Show)
=============================================================================
