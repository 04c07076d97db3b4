------------------------------- MODULE Sounds -------------------------------
(***************************************************************************)
(* audio::sound and the backend that plays it.  Two threads share its      *)
(* state without a lock: the game plays, fades and halts sounds; the mixer *)
(* of SDL reports from its own thread that a channel has stopped.  Sounds  *)
(* that ended on their own raise an audio_event when the game calls        *)
(* audio::update.                                                          *)
(*                                                                         *)
(* The mixer is external: a free channel plays a sample until it ends, is  *)
(* faded out or halted (all channels, for channel -1), which is reported   *)
(* once, or until its sample is freed, which is not reported.              *)
(***************************************************************************)
EXTENDS Integers, Sequences, FiniteSets, SequencesExt

CONSTANTS
    Sounds,         \* sound objects
    Files,          \* sound files
    Channels,       \* the channels of the mixer, 0 .. audio_mixchannels - 1
    Brief,          \* files that may be over before handle_channel_create
    None,           \* no sample, no sound
    Gone,           \* the sample of a sound that does not exist
    MaxPlays        \* bound on the samples started

SoundsAssumption ==
    /\ IsFiniteSet(Sounds) /\ Channels \subseteq Nat /\ Brief \subseteq Files
    /\ None \notin Sounds \cup Files /\ Gone \notin Sounds \cup Files
    /\ MaxPlays \in Nat

VARIABLES
    st,             \* m_channel, m_forcedhalt, m_channels and completed_sounds
    m_sample,       \* sound -> the file its sample was read from
    refcount,       \* the cache: file -> users of its sample, 0 if not loaded
    mixer,          \* channel -> what it plays
    call,           \* the call of the game in progress
    plays,          \* samples started so far
    own,            \* history: sound -> how often it ended on its own
    events          \* history: sound -> audio events raised

soundVars == <<st, m_sample, refcount, mixer, call, plays, own, events>>

Silence == [sound |-> None, file |-> None, asked |-> FALSE]
Idle == [op |-> "none", sound |-> None, at |-> "idle"]

Init ==
    /\ st = [channel |-> [s \in Sounds |-> -1], forcedhalt |-> [s \in Sounds |-> FALSE],
             channels |-> [c \in Channels |-> None], completed |-> <<>>]
    /\ m_sample = [s \in Sounds |-> Gone]
    /\ refcount = [f \in Files |-> 0]
    /\ mixer = [c \in Channels |-> Silence]
    /\ call = Idle
    /\ plays = 0
    /\ own = [s \in Sounds |-> 0] /\ events = [s \in Sounds |-> 0]

Playing(c) == mixer[c] # Silence

-----------------------------------------------------------------------------
(* The mixer's report: channel c has stopped. *)
handle_channel_stop(state, c) ==
    LET s == state.channels[c]
    IN  IF s = None THEN state
        ELSE [channel    |-> [state.channel EXCEPT ![s] = -1],
              forcedhalt |-> [state.forcedhalt EXCEPT ![s] = FALSE],
              channels   |-> [state.channels EXCEPT ![c] = None],
              completed  |-> IF state.forcedhalt[s] THEN state.completed
                             ELSE Append(state.completed, s)]

(* In the thread of the mixer: a sample is over, or faded out.             *)
ChannelDone(c) ==
    /\ Playing(c)
    /\ call.at = "create" /\ st.channel[call.sound] = c => mixer[c].file \in Brief
    /\ own' = IF mixer[c].asked THEN own ELSE [own EXCEPT ![mixer[c].sound] = @ + 1]
    /\ st' = handle_channel_stop(st, c)
    /\ mixer' = [mixer EXCEPT ![c] = Silence]
    /\ UNCHANGED <<m_sample, refcount, call, plays, events>>

(* Mix_HaltChannel stops a channel and reports it, Mix_FadeOutChannel lets  *)
(* one, or all for -1, end on their own.                                   *)
Halted(c) ==
    /\ st' = IF Playing(c) THEN handle_channel_stop(st, c) ELSE st
    /\ mixer' = [mixer EXCEPT ![c] = Silence]
Meant(c) == {d \in Channels : Playing(d) /\ c \in {d, -1}}
FadedOut(c) ==
    /\ mixer' = [d \in Channels |-> IF d \in Meant(c) THEN [mixer[d] EXCEPT !.asked = TRUE] ELSE mixer[d]]
    /\ UNCHANGED st

-----------------------------------------------------------------------------
(* sound::sound, get_state and open_file: the sample is shared with the    *)
(* other sounds of the same file; the file may be missing.                 *)
audio_open(f) == refcount' = [refcount EXCEPT ![f] = @ + 1]
New(s, f, found) ==
    /\ call = Idle
    /\ m_sample[s] = Gone
    /\ m_sample' = [m_sample EXCEPT ![s] = IF found THEN f ELSE None]
    /\ IF found THEN audio_open(f) ELSE UNCHANGED refcount
    /\ st' = [st EXCEPT !.channel[s] = -1, !.forcedhalt[s] = FALSE]
    /\ UNCHANGED <<mixer, call, plays, own, events>>

(* sound::~sound and audio_close.  Games delete a sound when it is silent  *)
(* and its event was raised: nothing else would keep the channels and the  *)
(* completed sounds from leading to it.                                    *)
Delete(s) ==
    /\ call = Idle
    /\ m_sample[s] # Gone
    /\ st.channel[s] = -1 /\ s \notin ToSet(st.completed)
    /\ m_sample' = [m_sample EXCEPT ![s] = Gone]
    /\ LET f == m_sample[s]
       IN  IF f = None THEN UNCHANGED <<refcount, mixer>>
           ELSE /\ refcount' = [refcount EXCEPT ![f] = @ - 1]
                /\ mixer' = [c \in Channels |-> IF mixer[c].file = f /\ refcount[f] = 1
                                                THEN Silence ELSE mixer[c]]
    /\ UNCHANGED <<st, call, plays, own, events>>

(* play (and fadein), halt and fadeout: m_channel is looked at, ...        *)
OnChannel(s) == st.channel[s] # -1
(* Mutation: what plays already is started over without a stop. *)
NeverStopped(s) == FALSE
MustStop(s) == OnChannel(s)
Call(op, s) ==
    /\ call = Idle
    /\ m_sample[s] # Gone
    /\ op = "play" \/ OnChannel(s)
    /\ call' = [op |-> op, sound |-> s, at |-> IF MustStop(s) THEN "force" ELSE "start"]
    /\ UNCHANGED <<st, m_sample, refcount, mixer, plays, own, events>>

(* ... m_forcedhalt is set, ... *)
Force ==
    /\ call.at = "force"
    /\ st' = [st EXCEPT !.forcedhalt[call.sound] = TRUE]
    /\ call' = [call EXCEPT !.at = "stop"]
    /\ UNCHANGED <<m_sample, refcount, mixer, plays, own, events>>

(* ... and m_channel is read again to stop the channel; meanwhile it may be -1. *)
Stopped == IF call.op = "play" THEN [call EXCEPT !.at = "start"] ELSE Idle
Stop ==
    /\ call.at = "stop"
    /\ LET c == st.channel[call.sound]
       IN  \/ call.op = "fadeout" /\ FadedOut(c) /\ call' = Idle
           \/ call.op # "fadeout" /\ c # -1 /\ Halted(c) /\ call' = Stopped
           \/ /\ call.op # "fadeout" /\ c = -1
              /\ call' = [call EXCEPT !.at = "halt"]
              /\ UNCHANGED <<st, mixer>>
    /\ UNCHANGED <<m_sample, refcount, plays, own, events>>

(* For -1 the mixer halts its channels one by one. *)
HaltEach ==
    /\ call.at = "halt"
    /\ LET playing == {c \in Channels : Playing(c)}
       IN  \/ /\ playing # {}
              /\ Halted(CHOOSE c \in playing : \A d \in playing : c <= d)
              /\ UNCHANGED call
           \/ /\ playing = {}
              /\ call' = Stopped
              /\ UNCHANGED <<st, mixer>>
    /\ UNCHANGED <<m_sample, refcount, plays, own, events>>

(* audio_play: on the first free channel, if there is a sample and one.    *)
Start ==
    /\ call.at = "start"
    /\ plays < MaxPlays
    /\ LET s == call.sound
           free == {c \in Channels : ~Playing(c)}
           c == CHOOSE c \in free : \A d \in free : c <= d
       IN  CASE m_sample[s] = None -> UNCHANGED <<st, mixer, plays>>
             [] m_sample[s] # None /\ free = {} ->
                  st' = [st EXCEPT !.channel[s] = -1] /\ UNCHANGED <<mixer, plays>>
             [] OTHER ->
                  /\ st' = [st EXCEPT !.channel[s] = c]
                  /\ mixer' = [mixer EXCEPT ![c] = [sound |-> s, file |-> m_sample[s], asked |-> FALSE]]
                  /\ plays' = plays + 1
    /\ call' = [call EXCEPT !.at = "create"]
    /\ UNCHANGED <<m_sample, refcount, own, events>>

handle_channel_create ==
    /\ call.at = "create"
    /\ LET c == st.channel[call.sound]
       IN  st' = IF c >= 0 THEN [st EXCEPT !.channels[c] = call.sound] ELSE st
    /\ call' = Idle
    /\ UNCHANGED <<m_sample, refcount, mixer, plays, own, events>>

(* audio::update raises the events of the completed sounds. *)
update ==
    /\ call = Idle
    /\ st.completed # <<>>
    /\ events' = [events EXCEPT ![Head(st.completed)] = @ + 1]
    /\ st' = [st EXCEPT !.completed = Tail(@)]
    /\ UNCHANGED <<m_sample, refcount, mixer, call, plays, own>>

Next ==
    \/ \E c \in Channels : ChannelDone(c)
    \/ \E s \in Sounds, f \in Files, found \in BOOLEAN : New(s, f, found)
    \/ \E s \in Sounds : Delete(s)
    \/ \E s \in Sounds, op \in {"play", "halt", "fadeout"} : Call(op, s)
    \/ Force
    \/ Stop
    \/ HaltEach
    \/ Start
    \/ handle_channel_create
    \/ update

Spec == Init /\ [][Next]_soundVars

-----------------------------------------------------------------------------
(* Whatever the two threads do, between the calls of the game a channel    *)
(* that plays leads to the sound it was started for and the sound to the   *)
(* channel, and no channel leads to a sound that is not playing on it.     *)
ChannelsAgree ==
    call.at # "create" =>
        /\ \A c \in Channels : st.channels[c] = mixer[c].sound
        /\ \A s \in Sounds : st.channel[s] # -1 => st.channels[st.channel[s]] = s

(* The cache knows how many sounds use a sample, and no channel plays a    *)
(* sample that has been freed.                                             *)
SamplesHeld ==
    /\ \A f \in Files : refcount[f] = Cardinality({s \in Sounds : m_sample[s] = f})
    /\ \A c \in Channels : Playing(c) => refcount[mixer[c].file] > 0

(* "Only issue callbacks for sounds that end on their own." (sound.cc)     *)
OwnEndOnly == \A s \in Sounds : events[s] <= own[s]
=============================================================================
