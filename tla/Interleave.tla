----------------------------- MODULE Interleave -----------------------------
(* How an output that takes encoded video and audio orders their packets.     *)
(* Every call of interleave_packets runs under interleaved_mutex and is one   *)
(* action; which encoder's packet comes next is what the threads of the       *)
(* encoders decide.                                                           *)
(*                                                                            *)
(* output holds the fields of struct obs_output that the calls share; each    *)
(* operator below takes such a record and returns it changed, as the function *)
(* it is named for changes the output.  A time stamp counts the same unit in  *)
(* the time base of an encoder and in microseconds.  dts_usec is the time of  *)
(* the system until the packet's offset is applied, and that of the stream    *)
(* from then on; sys_dts_usec stays what it was.                              *)
EXTENDS Integers, Sequences, SequencesExt, FiniteSetsExt, Functions

CONSTANTS
    VideoTracks, AudioTracks,   \* numbers of the encoders that the output has
    VideoInterval,              \* distance of two packets of a video encoder
    AudioInterval,              \* the same, by audio encoder
    PtsDelay,                   \* pts - dts of a video packet
    Base,                       \* system time of the time stamp 0, by stream
    Priming,                    \* how far below 0 the dts of an audio encoder begin
    FirstDts,                   \* dts an encoder may be at when the output starts
    Horizon,                    \* bound: system time the model runs to
    MaxResets                   \* bound: how often capturing starts anew

Streams == ({"video"} \X VideoTracks) \cup ({"audio"} \X AudioTracks)

ASSUME InterleaveAssumption ==
    /\ VideoTracks \subseteq Nat /\ IsFiniteSet(VideoTracks) /\ 0 \in VideoTracks
    /\ AudioTracks \subseteq Nat /\ IsFiniteSet(AudioTracks) /\ AudioTracks # {}
    /\ VideoInterval \in Nat \ {0} /\ AudioInterval \in [AudioTracks -> Nat \ {0}]
    /\ {PtsDelay, Priming} \subseteq Nat
    /\ FirstDts \subseteq Int /\ \A d \in FirstDts : d >= -Priming
    /\ Base \in [Streams -> Nat]
    /\ \A a \in AudioTracks : Base[<<"audio", a>>] >= 2 * Priming
    /\ {Horizon, MaxResets} \subseteq Nat

VARIABLES
    output,
    interleaver_max_batch_size,
    dts,        \* of the next packet of each encoder
    resets,
    sent        \* history: packets given to the output's encoded_packet

vars == <<output, interleaver_max_batch_size, dts, resets, sent>>

Interval(s) == IF s[1] = "video" THEN VideoInterval ELSE AudioInterval[s[2]]

LongestInterval == Max({Interval(s) : s \in Streams})

\* calculate_batch_size: the packets of all encoders in twice the longest interval.
BatchSize == SumFunction([s \in Streams |-> (2 * LongestInterval) \div Interval(s)])

\* INT64_MIN, below every time stamp of the model.
Lowest == -(Horizon + PtsDelay + Priming + 1)

\* reset_packet_data.
ResetPacketData ==
    [interleaved_packets |-> <<>>,
     received_video      |-> [v \in VideoTracks |-> FALSE],
     received_audio      |-> FALSE,
     offsets             |-> [s \in Streams |-> 0],
     highest_video_ts    |-> [v \in VideoTracks |-> Lowest],
     highest_audio_ts    |-> 0]

Init ==
    /\ output = ResetPacketData
    /\ interleaver_max_batch_size = BatchSize
    /\ dts \in [Streams -> FirstDts]
    /\ \A v \in VideoTracks : dts[<<"video", v>>] >= 0
    /\ resets = 0
    /\ sent = <<>>

-----------------------------------------------------------------------------
(* The packets of an output.  Positions are counted from 1; 0 is none.       *)

Of(o, type, track) == {i \in DOMAIN o.interleaved_packets :
                        /\ o.interleaved_packets[i].type = type
                        /\ o.interleaved_packets[i].track_idx = track}

FirstOf(o, type, track) == IF Of(o, type, track) = {} THEN 0 ELSE Min(Of(o, type, track))
LastOf(o, type, track)  == IF Of(o, type, track) = {} THEN 0 ELSE Max(Of(o, type, track))

Distance(a, b) == IF a > b THEN a - b ELSE b - a

\* The first n packets are released.
DiscardTo(o, n) ==
    [o EXCEPT !.interleaved_packets = SubSeq(@, n + 1, Len(@))]

\* discard_unused_audio_packets, which goes by the time stamp alone.
DiscardUnusedAudio(o, dts_usec) ==
    LET kept == {i \in DOMAIN o.interleaved_packets :
                    o.interleaved_packets[i].dts_usec >= dts_usec}
    IN  DiscardTo(o, IF kept = {} THEN Len(o.interleaved_packets) ELSE Min(kept) - 1)

\* Mutant: nothing is cut off at the start.
StartIdxNone(o) == 0

\* get_interleaved_start_idx: how many packets lie before the audio packet
\* closest to the first video packet, or before that one.
StartIdx(o) ==
    LET p       == o.interleaved_packets
        video   == FirstOf(o, "video", 0)
        audio   == {i \in DOMAIN p : p[i].type = "audio"}
        diff(i) == Distance(p[i].dts_usec, p[video].dts_usec)
        closest == {i \in audio : \A j \in audio : diff(i) <= diff(j)}
        start   == Min({video, IF audio = {} THEN 1 ELSE Min(closest)})
        first   == Min({i \in audio : i >= start})
        priming == {FirstOf(o, "audio", a) : a \in AudioTracks} \ {0}
    IN  (IF p[first].dts <= 0 THEN Min({start} \cup priming) ELSE start) - 1

\* apply_interleaved_packet_offset.
ApplyOffset(o, p) ==
    LET shifted == p.dts - o.offsets[<<p.type, p.track_idx>>]
    IN  [p EXCEPT !.dts = shifted, !.dts_usec = shifted]

\* insert_interleaved_packet: before the first packet with a later time stamp;
\* a video packet also before those with its own, but for the lower tracks.
InsertPacket(o, out) ==
    LET p       == o.interleaved_packets
        before  == {i \in DOMAIN p :
                        \/ out.dts_usec < p[i].dts_usec
                        \/ /\ out.dts_usec = p[i].dts_usec
                           /\ out.type = "video"
                           /\ ~(p[i].type = "video" /\ out.track_idx > p[i].track_idx)}
        at      == IF before = {} THEN Len(p) + 1 ELSE Min(before)
    IN  [o EXCEPT !.interleaved_packets = InsertAt(p, at, out)]

\* set_higher_ts.
SetHigher(o, p) ==
    IF p.type = "video"
    THEN [o EXCEPT !.highest_video_ts[p.track_idx] = Max({@, p.dts_usec})]
    ELSE [o EXCEPT !.highest_audio_ts = Max({@, p.dts_usec})]

\* resort_interleaved_packets.
Resort(o) ==
    LET p == o.interleaved_packets
        sorted[n \in 0..Len(p)] ==
            IF n = 0 THEN [o EXCEPT !.interleaved_packets = <<>>]
                     ELSE InsertPacket(SetHigher(sorted[n - 1], p[n]), p[n])
    IN  sorted[Len(p)]

\* Mutant: a video packet does not wait for later audio.
HasHigherOpposingVideoOnly(o, p) ==
    \A v \in VideoTracks : (p.type = "video" /\ v = p.track_idx)
                           \/ o.highest_video_ts[v] > p.dts_usec

\* has_higher_opposing_ts.
HasHigherOpposing(o, p) ==
    /\ \A v \in VideoTracks : (p.type = "video" /\ v = p.track_idx)
                              \/ o.highest_video_ts[v] > p.dts_usec
    /\ p.type = "audio" \/ o.highest_audio_ts > p.dts_usec

\* count_streamable_frames.
Streamable(o) ==
    LET stuck == {i \in DOMAIN o.interleaved_packets :
                    ~HasHigherOpposing(o, o.interleaved_packets[i])}
    IN  IF stuck = {} THEN Len(o.interleaved_packets) ELSE Min(stuck) - 1

-----------------------------------------------------------------------------
(* The start: what is received first is cut to where audio and video meet.    *)

MissingVideo(o) == {v \in VideoTracks : FirstOf(o, "video", v) = 0}
MissingAudio(o) == {a \in AudioTracks : FirstOf(o, "audio", a) = 0}
HaveAll(o) == MissingVideo(o) = {} /\ MissingAudio(o) = {}

\* get_audio_and_video_packets, when it fails: the first encoder that has no
\* packet in the queue has to send one (again).
AwaitMissing(o) ==
    IF MissingVideo(o) # {}
    THEN [o EXCEPT !.received_video[Min(MissingVideo(o))] = FALSE]
    ELSE [o EXCEPT !.received_audio = FALSE]

\* prune_premature_packets: how many to discard.  The distance that counts is
\* that of the last audio encoder.
Premature(o) ==
    LET p        == o.interleaved_packets
        video    == FirstOf(o, "video", 0)
        last     == FirstOf(o, "audio", Max(AudioTracks))
        longest  == Max({AudioInterval[a] : a \in AudioTracks})
        duration == IF Cardinality(AudioTracks) > 1
                    THEN Max({VideoInterval, longest}) ELSE VideoInterval
    IN  IF p[last].dts_usec - p[video].dts_usec > duration
        THEN Max({video} \cup {FirstOf(o, "audio", a) : a \in AudioTracks})
        ELSE 0

\* prune_interleaved_packets; it cannot go on without a packet of the first
\* video and of every audio encoder.
CanPrune(o) == FirstOf(o, "video", 0) # 0 /\ MissingAudio(o) = {}
Prune(o) == DiscardTo(o, IF Premature(o) # 0 THEN Premature(o) ELSE StartIdx(o))
PruneFails(o) == IF FirstOf(o, "video", 0) = 0 THEN o
                 ELSE [o EXCEPT !.received_audio = FALSE]

\* There is audio past the first video packet.
AudioPast(o) ==
    \A a \in AudioTracks :
        o.interleaved_packets[LastOf(o, "audio", a)].dts_usec
            >= o.interleaved_packets[FirstOf(o, "video", Min(VideoTracks))].dts_usec

\* The offsets of initialize_interleaved_packets, and all packets moved by them.
SetOffsets(o) ==
    LET p        == o.interleaved_packets
        first(s) == p[FirstOf(o, s[1], s[2])]
        offset(s) == IF s[1] = "video" THEN first(s).dts + PtsDelay
                     ELSE IF first(s).dts > 0 THEN first(s).dts ELSE o.offsets[s]
        moved    == [o EXCEPT
            !.offsets = [s \in Streams |-> offset(s)],
            !.highest_audio_ts = @ - first(<<"audio", Min(AudioTracks)>>).dts_usec]
    IN  [moved EXCEPT !.interleaved_packets =
            [i \in DOMAIN p |-> ApplyOffset(moved, p[i])]]

\* The first call with all encoders received: prune, and if audio and video
\* meet, set the offsets, sort again and be ready to send.
Ready(o) ==
    /\ CanPrune(o)
    /\ HaveAll(Prune(o)) /\ AudioPast(Prune(o))
    /\ HaveAll(DiscardTo(Prune(o), StartIdx(Prune(o))))

Started(o) == Resort(SetOffsets(DiscardTo(Prune(o), StartIdx(Prune(o)))))

NotReady(o) ==
    LET pruned == Prune(o)
    IN  IF ~CanPrune(o) THEN PruneFails(o)
        ELSE IF ~HaveAll(pruned) THEN AwaitMissing(pruned)
        ELSE IF ~AudioPast(pruned) THEN [pruned EXCEPT !.received_audio = FALSE]
        ELSE AwaitMissing(DiscardTo(pruned, StartIdx(pruned)))

-----------------------------------------------------------------------------
(* interleave_packets.                                                       *)

Receives(o) == o.received_audio /\ \A v \in VideoTracks : o.received_video[v]

\* check_received.
CheckReceived(o, p) ==
    IF p.type = "video" THEN [o EXCEPT !.received_video[p.track_idx] = TRUE]
                        ELSE [o EXCEPT !.received_audio = TRUE]

\* send_interleaved, n times.
Send(o, n) ==
    /\ output' = DiscardTo(o, n)
    /\ sent' = sent \o SubSeq(o.interleaved_packets, 1, n)

\* How many packets a call sends: one if any may be sent, and one more while
\* more than a batch of them wait.
ToSend(o) ==
    CASE Streamable(o) = 0 -> 0
      [] Streamable(o) - 1 > interleaver_max_batch_size -> 2
      [] OTHER -> 1

\* Mutant: whether the track has started does not matter.
DiscardNonKeyAlways(p) ==
    /\ p.type = "video" /\ ~p.keyframe
    /\ output' = DiscardUnusedAudio(output, p.dts_usec)
    /\ UNCHANGED sent

\* A packet before the key frame that the track has to start with.
DiscardNonKey(p) ==
    /\ p.type = "video" /\ ~output.received_video[p.track_idx] /\ ~p.keyframe
    /\ output' = DiscardUnusedAudio(output, p.dts_usec)
    /\ UNCHANGED sent

\* Packets are collected until every encoder has sent one.
Collect(p) ==
    LET o == InsertPacket(CheckReceived(output, p), p)
    IN  /\ p.type = "video" => output.received_video[p.track_idx] \/ p.keyframe
        /\ ~Receives(output)
        /\ \/ /\ ~Receives(o)
              /\ output' = o /\ UNCHANGED sent
           \/ /\ Receives(o) /\ ~Ready(o)
              /\ output' = NotReady(o) /\ UNCHANGED sent
           \/ /\ Receives(o) /\ Ready(o)
              /\ Send(Started(o), 1)

\* From then on each packet is moved by the offset of its stream and queued.
Interleaved(p) ==
    LET out == ApplyOffset(output, p)
        o   == SetHigher(InsertPacket(output, out), out)
    IN  /\ Receives(output)
        /\ Send(o, ToSend(o))

\* A track for which it matters whether its next packet is a key frame.
Asked(s) == s[1] = "video" /\ ~output.received_video[s[2]]

\* The first packet of a video encoder is a key frame; a later one may be one,
\* but where nothing depends on it the model does not tell.
InterleavePackets(s, keyframe) ==
    LET p == [type |-> s[1], track_idx |-> s[2], dts |-> dts[s], keyframe |-> keyframe,
              dts_usec |-> Base[s] + dts[s], sys_dts_usec |-> Base[s] + dts[s]]
    IN  /\ p.sys_dts_usec <= Horizon
        /\ Asked(s) /\ p.dts = 0 => keyframe
        /\ keyframe => Asked(s)
        /\ DiscardNonKey(p) \/ Collect(p) \/ Interleaved(p)
        /\ dts' = [dts EXCEPT ![s] = @ + Interval(s)]
        /\ UNCHANGED <<interleaver_max_batch_size, resets>>

\* Capturing starts anew, with the encoders running on (another output uses
\* them): by begin_delayed_capture when the delay is over, or by
\* obs_output_begin_data_capture, which adds to the batch size of the last time.
BeginCapture(batch) ==
    /\ resets < MaxResets
    /\ resets' = resets + 1
    /\ output' = ResetPacketData
    /\ interleaver_max_batch_size' = interleaver_max_batch_size + batch
    /\ sent' = <<>>
    /\ UNCHANGED dts

BeginDelayedCapture == BeginCapture(0)
BeginDataCapture    == BeginCapture(BatchSize)

Next ==
    \/ BeginDelayedCapture \/ BeginDataCapture
    \/ \E s \in Streams, keyframe \in BOOLEAN : InterleavePackets(s, keyframe)

Spec == Init /\ [][Next]_vars

-----------------------------------------------------------------------------
\* Packets leave in the order of their time stamps.
Monotonic == \A i \in 1..Len(sent) - 1 : sent[i].dts_usec <= sent[i + 1].dts_usec

\* The packets of stream s that were sent, and those of them next to each other.
SentOf(s) == {i \in DOMAIN sent : <<sent[i].type, sent[i].track_idx>> = s}
InARow(s, i, j) == i < j /\ ~ \E k \in SentOf(s) : i < k /\ k < j

\* A stream has no gap once it has started.
NoGap ==
    \A s \in Streams : \A i, j \in SentOf(s) :
        InARow(s, i, j) => sent[j].sys_dts_usec - sent[i].sys_dts_usec = Interval(s)

\* When a packet is shown, in the time of the stream.
Shown(p) == p.dts_usec + (IF p.type = "video" THEN PtsDelay ELSE 0)

\* How far two packets that were sent have moved apart, against the system's clock.
Drift(i, j) == Distance(Shown(sent[i]) - Shown(sent[j]),
                        sent[i].sys_dts_usec - sent[j].sys_dts_usec)

\* The first video and the audio keep the distance they have on the system's
\* clock, up to one packet, the longest of the encoders, and the priming that
\* get_interleaved_start_idx does not cut off and no offset takes away.
KeepsDistance ==
    \A i, j \in {k \in DOMAIN sent : sent[k].track_idx = 0} :
        Drift(i, j) <= LongestInterval + Priming

\* The comment on the offsets: audio of an encoder that runs already "will always
\* at least be within a 23ish millisecond threshold (at least for AAC)" of the
\* video in terms of system time, which is one packet of audio.
WithinAudioPacket ==
    \A i, j \in {k \in DOMAIN sent : sent[k].track_idx = 0} :
        Drift(i, j) <= AudioInterval[0]

\* Every track of video starts on a key frame.
StartsOnKeyframe ==
    \A v \in VideoTracks :
        LET first == SentOf(<<"video", v>>)
        IN  first # {} => sent[Min(first)].keyframe
=============================================================================
