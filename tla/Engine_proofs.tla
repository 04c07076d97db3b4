--------------------------- MODULE Engine_proofs ---------------------------
(***************************************************************************)
(* Proofs about Engine, for any number of sounds, files, channels, saved   *)
(* games, modules and devices. What Engine's sprites and configuration     *)
(* keep is proved in Resources_proofs.                                     *)
(***************************************************************************)
EXTENDS Engine, ListLemmas, FiniteSetTheorems

-----------------------------------------------------------------------------
(***************************************************************************)
(* Sounds. A sound and the channel of the mixer that plays it lead to each *)
(* other in whatever state a call of the game is; only the entry for the   *)
(* channel in m_channels comes later, when the call that has started the   *)
(* sound is done.                                                          *)
(***************************************************************************)

\* A sample has been started, and m_channels does not know it yet.
Starting (c) == call.at = "create" /\ st.channel[call.sound] = c

SoundState == [channel : [Sounds -> Channels \cup {-1}], forcedhalt : [Sounds -> BOOLEAN],
               channels : [Channels -> Sounds \cup {None}], completed : Seq (Sounds)]

Played == [sound : Sounds, file : SoundFiles, asked : BOOLEAN]

\* The sounds that use the sample of file f, by the samples m.
UsersOf (m, f) == {s \in Sounds : m[s] = f}

SoundCall == [op : {"play", "halt", "fadeout"}, sound : Sounds,
              at : {"force", "stop", "halt", "start", "create"}]

SoundsType ==
  /\ st \in SoundState /\ mixer \in [Channels -> Played \cup {M!Silence}]
  /\ m_sample \in [Sounds -> SoundFiles \cup {None, Gone}] /\ refcount \in [SoundFiles -> Int]
  /\ call \in SoundCall \cup {M!Idle}

\* The mixer plays samples that are loaded, for sounds that know of it.
Led ==
  /\ \A c \in Channels : M!Playing (c) =>
       st.channel[mixer[c].sound] = c /\ m_sample[mixer[c].sound] = mixer[c].file
  /\ \A s \in Sounds : st.channel[s] # -1 => mixer[st.channel[s]].sound = s
  /\ \A c \in Channels : st.channels[c] = IF Starting (c) THEN None ELSE mixer[c].sound

\* A sound in use exists, and is silent before it is started.
Called ==
  call # M!Idle =>
    /\ m_sample[call.sound] # Gone
    /\ call.at \in {"start", "halt"} => st.channel[call.sound] = -1

\* The cache counts the sounds of a file.
Counted == \A f \in SoundFiles : refcount[f] = Cardinality (UsersOf (m_sample, f))

SoundsInv == SoundsType /\ Led /\ Called /\ Counted

\* What Sounds says of finite sets is what FiniteSets says of them.
LEMMA SameFinite ==
  ASSUME NEW T
  PROVE  M!IsFiniteSet (T) <=> IsFiniteSet (T)
BY DEF M!IsFiniteSet, IsFiniteSet

LEMMA SameCardinality ==
  ASSUME NEW T
  PROVE  M!Cardinality (T) = Cardinality (T)
BY DEF M!Cardinality, Cardinality

\* What is known of the constants.
LEMMA SoundsConstants ==
  ASSUME M!SoundsAssumption
  PROVE  /\ IsFiniteSet (Sounds) /\ Channels \subseteq Nat /\ -1 \notin Channels
         /\ None \notin Sounds /\ None \notin SoundFiles /\ Gone \notin SoundFiles
<1>1. IsFiniteSet (Sounds) /\ Channels \subseteq Nat
  BY SameFinite DEF M!SoundsAssumption
<1>2. None \notin Sounds /\ None \notin SoundFiles /\ Gone \notin SoundFiles
  BY Zenon DEF M!SoundsAssumption
<1>3. -1 \notin Channels
  BY <1>1
<1>4. QED
  BY <1>1, <1>2, <1>3

\* A channel plays a sample of a sound, or nothing.
LEMMA PlayingSound ==
  ASSUME M!SoundsAssumption, SoundsType, NEW c \in Channels
  PROVE  /\ M!Playing (c) => mixer[c] \in Played /\ mixer[c].sound \in Sounds /\ mixer[c].file \in SoundFiles
         /\ M!Playing (c) <=> mixer[c].sound # None
         /\ ~ M!Playing (c) => mixer[c] = M!Silence /\ mixer[c].sound = None
BY SoundsConstants DEF SoundsType, M!Playing, M!Silence, Played

\* What calls are in progress.
LEMMA CallSound ==
  ASSUME SoundsType
  PROVE  /\ call # M!Idle => call \in SoundCall /\ call.sound \in Sounds
         /\ call = M!Idle <=> call.at = "idle"
BY DEF SoundsType, SoundCall, M!Idle

\* handle_channel_stop for a channel that plays: the sound is on no channel any more.
LEMMA StopReported ==
  ASSUME M!SoundsAssumption, SoundsType, Led, NEW c \in Channels, M!Playing (c), ~ Starting (c)
  PROVE  LET t == M!handle_channel_stop (st, c)
             s == mixer[c].sound
         IN /\ t \in SoundState /\ s \in Sounds /\ st.channel[s] = c
            /\ t.channel = [st.channel EXCEPT ![s] = -1]
            /\ t.channels = [st.channels EXCEPT ![c] = None]
<1> DEFINE t == M!handle_channel_stop (st, c)
           s == mixer[c].sound
<1>1. s \in Sounds /\ s # None
  BY PlayingSound
<1>2. st.channel[s] = c /\ st.channels[c] = s
  BY <1>1 DEF Led
<1>3. t = [channel    |-> [st.channel EXCEPT ![s] = -1],
           forcedhalt |-> [st.forcedhalt EXCEPT ![s] = FALSE],
           channels   |-> [st.channels EXCEPT ![c] = None],
           completed  |-> IF st.forcedhalt[s] THEN st.completed ELSE Append (st.completed, s)]
  BY <1>1, <1>2 DEF M!handle_channel_stop
<1> HIDE DEF t, s
<1>4. /\ st.channel \in [Sounds -> Channels \cup {-1}] /\ st.forcedhalt \in [Sounds -> BOOLEAN]
      /\ st.channels \in [Channels -> Sounds \cup {None}] /\ st.completed \in Seq (Sounds)
  BY DEF SoundsType, SoundState
<1>5. /\ [st.channel EXCEPT ![s] = -1] \in [Sounds -> Channels \cup {-1}]
      /\ [st.forcedhalt EXCEPT ![s] = FALSE] \in [Sounds -> BOOLEAN]
      /\ [st.channels EXCEPT ![c] = None] \in [Channels -> Sounds \cup {None}]
  BY <1>4
<1>6. Append (st.completed, s) \in Seq (Sounds)
  BY <1>1, <1>4
<1>7. t \in SoundState
  BY <1>3, <1>4, <1>5, <1>6 DEF SoundState
<1>8. QED
  BY <1>1, <1>2, <1>3, <1>7 DEF t, s

\* One channel is silenced and reported, and no call gets further.
LEMMA SilencedKeeps ==
  ASSUME M!SoundsAssumption, SoundsType, Led, NEW c \in Channels, M!Playing (c), ~ Starting (c),
         st' = M!handle_channel_stop (st, c), mixer' = [mixer EXCEPT ![c] = M!Silence],
         UNCHANGED <<m_sample, refcount>>,
         call' = call \/ (call'.at # "create" /\ call.at # "create")
  PROVE  /\ st' \in SoundState /\ mixer' \in [Channels -> Played \cup {M!Silence}]
         /\ Led'
         /\ \A s \in Sounds : st'.channel[s] = IF s = mixer[c].sound THEN -1 ELSE st.channel[s]
<1> DEFINE s == mixer[c].sound
<1>1. /\ st' \in SoundState /\ s \in Sounds /\ st.channel[s] = c
      /\ st'.channel = [st.channel EXCEPT ![s] = -1]
      /\ st'.channels = [st.channels EXCEPT ![c] = None]
  BY StopReported
<1>2. /\ st.channel \in [Sounds -> Channels \cup {-1}] /\ st.channels \in [Channels -> Sounds \cup {None}]
      /\ mixer \in [Channels -> Played \cup {M!Silence}]
  BY DEF SoundsType, SoundState
<1>3. \A r \in Sounds : st'.channel[r] = IF r = s THEN -1 ELSE st.channel[r]
  BY <1>1, <1>2
<1>4. \A d \in Channels : st'.channels[d] = IF d = c THEN None ELSE st.channels[d]
  BY <1>1, <1>2
<1>5. \A d \in Channels : mixer'[d] = IF d = c THEN M!Silence ELSE mixer[d]
  BY <1>2
<1>6. mixer' \in [Channels -> Played \cup {M!Silence}]
  BY <1>2
<1>7. \A d \in Channels : M!Playing (d) => mixer[d].sound \in Sounds
  BY PlayingSound
<1>8. M!Silence.sound = None /\ None \notin Sounds /\ -1 \notin Channels
  BY SoundsConstants DEF M!Silence
<1> HIDE DEF s
<1>9. ASSUME NEW d \in Channels, mixer'[d] # M!Silence
      PROVE  st'.channel[mixer'[d].sound] = d /\ m_sample'[mixer'[d].sound] = mixer'[d].file
  <2>1. d # c /\ mixer'[d] = mixer[d] /\ M!Playing (d)
    BY <1>5, <1>9 DEF M!Playing
  <2>2. mixer[d].sound \in Sounds /\ st.channel[mixer[d].sound] = d /\ m_sample[mixer[d].sound] = mixer[d].file
    BY <1>7, <2>1 DEF Led
  <2>3. mixer[d].sound # s
    BY <1>1, <2>1, <2>2
  <2>4. QED
    BY <1>3, <2>1, <2>2, <2>3
<1>10. ASSUME NEW r \in Sounds, st'.channel[r] # -1
       PROVE  mixer'[st'.channel[r]].sound = r
  <2>1. r # s /\ st'.channel[r] = st.channel[r] /\ st.channel[r] \in Channels
    BY <1>2, <1>3, <1>10
  <2>2. mixer[st.channel[r]].sound = r
    BY <1>10, <2>1 DEF Led
  <2>3. st.channel[r] # c
    BY <2>1, <2>2 DEF s
  <2>4. QED
    BY <1>5, <2>1, <2>2, <2>3
<1>11. ASSUME NEW d \in Channels
       PROVE  st'.channels[d] = IF Starting (d)' THEN None ELSE mixer'[d].sound
  <2>1. CASE d = c
    BY <1>4, <1>5, <1>8, <2>1
  <2>2. CASE d # c
    <3>1. st'.channels[d] = st.channels[d] /\ mixer'[d] = mixer[d]
      BY <1>4, <1>5, <2>2
    <3>2. Starting (d)' <=> Starting (d)
      <4>1. CASE call' = call /\ call.at = "create"
        <5>1. call.sound \in Sounds
          BY <4>1, CallSound DEF M!Idle
        <5>2. call.sound # s
          BY <1>1, <4>1 DEF Starting
        <5>3. QED
          BY <1>3, <4>1, <5>1, <5>2 DEF Starting
      <4>2. CASE call'.at # "create" /\ call.at # "create"
        BY <4>2 DEF Starting
      <4>3. QED
        BY <4>1, <4>2
    <3>3. QED
      BY <3>1, <3>2 DEF Led
  <2>3. QED
    BY <2>1, <2>2
<1>12. Led'
  BY <1>9, <1>10, <1>11 DEF Led, M!Playing
<1>13. QED
  BY <1>1, <1>3, <1>6, <1>12 DEF s

\* In the thread of the mixer; no sample is over before it is known.
LEMMA SoundsDone ==
  ASSUME M!SoundsAssumption, Brief = {}, SoundsInv, NEW c \in Channels, M!ChannelDone (c)
  PROVE  SoundsInv'
<1>1. M!Playing (c) /\ ~ Starting (c) /\ UNCHANGED <<m_sample, refcount, call>>
      /\ st' = M!handle_channel_stop (st, c) /\ mixer' = [mixer EXCEPT ![c] = M!Silence]
  BY DEF M!ChannelDone, Starting
<1>2. /\ st' \in SoundState /\ mixer' \in [Channels -> Played \cup {M!Silence}] /\ Led'
      /\ \A s \in Sounds : st'.channel[s] = IF s = mixer[c].sound THEN -1 ELSE st.channel[s]
  BY <1>1, SilencedKeeps DEF SoundsInv
<1>3. SoundsType'
  BY <1>1, <1>2 DEF SoundsInv, SoundsType
<1>4. Called'
  BY <1>1, <1>2, CallSound DEF SoundsInv, Called
<1>5. QED
  BY <1>1, <1>2, <1>3, <1>4 DEF SoundsInv, Counted

\* Mix_HaltChannel in the thread of the game.
LEMMA HaltedKeeps ==
  ASSUME M!SoundsAssumption, SoundsInv, NEW c \in Channels, M!Halted (c), call.at # "create",
         UNCHANGED <<m_sample, refcount>>, call'.at # "create"
  PROVE  /\ st' \in SoundState /\ mixer' \in [Channels -> Played \cup {M!Silence}] /\ Led'
         /\ \A s \in Sounds : st'.channel[s] = IF M!Playing (c) /\ s = mixer[c].sound THEN -1 ELSE st.channel[s]
<1>1. CASE M!Playing (c)
  BY <1>1, SilencedKeeps DEF M!Halted, Starting, SoundsInv
<1>2. CASE ~ M!Playing (c)
  <2>1. st' = st /\ mixer' = mixer
    BY <1>2, PlayingSound DEF M!Halted, SoundsInv, SoundsType
  <2>2. Led'
    BY <2>1 DEF SoundsInv, Led, Starting, M!Playing
  <2>3. QED
    BY <1>2, <2>1, <2>2 DEF SoundsInv, SoundsType
<1>3. QED
  BY <1>1, <1>2

\* What follows a stop.
LEMMA StoppedCall ==
  ASSUME SoundsType, call # M!Idle
  PROVE  /\ M!Stopped \in SoundCall \cup {M!Idle} /\ M!Stopped.at \in {"start", "idle"}
         /\ M!Stopped # M!Idle => M!Stopped.sound = call.sound /\ M!Stopped.at = "start"
<1>1. call \in SoundCall
  BY DEF SoundsType
<1>2. QED
  BY <1>1 DEF M!Stopped, M!Idle, SoundCall

LEMMA SoundsStop ==
  ASSUME M!SoundsAssumption, SoundsInv, M!Stop
  PROVE  SoundsInv'
<1> DEFINE c == st.channel[call.sound]
<1>1. call.at = "stop" /\ call # M!Idle /\ UNCHANGED <<m_sample, refcount>>
  BY DEF M!Stop, M!Idle
<1>2. call \in SoundCall /\ call.sound \in Sounds /\ m_sample[call.sound] # Gone
  BY <1>1, CallSound DEF SoundsInv, Called
<1>3. c \in Channels \cup {-1}
  BY <1>2 DEF SoundsInv, SoundsType, SoundState
<1>4. /\ M!Stopped \in SoundCall \cup {M!Idle} /\ M!Stopped.at \in {"start", "idle"}
      /\ M!Stopped # M!Idle => M!Stopped.sound = call.sound /\ M!Stopped.at = "start"
  BY <1>1, StoppedCall DEF SoundsInv
<1>5. CASE call.op = "fadeout" /\ M!FadedOut (c) /\ call' = M!Idle
  <2>1. st' = st /\ \A d \in Channels : mixer'[d] = IF d \in M!Meant (c) THEN [mixer[d] EXCEPT !.asked = TRUE] ELSE mixer[d]
    BY <1>5 DEF M!FadedOut
  <2>2. ASSUME NEW d \in Channels
        PROVE  /\ mixer'[d] \in Played \cup {M!Silence} /\ (mixer'[d] # M!Silence <=> M!Playing (d))
               /\ mixer'[d].sound = mixer[d].sound /\ mixer'[d].file = mixer[d].file
    <3>1. CASE d \in M!Meant (c)
      <4>1. mixer[d] \in Played
        BY <3>1, PlayingSound DEF M!Meant, SoundsInv
      <4>2. mixer'[d] = [mixer[d] EXCEPT !.asked = TRUE]
        BY <2>1, <3>1
      <4>3. mixer'[d] \in Played /\ mixer'[d].sound = mixer[d].sound /\ mixer'[d].file = mixer[d].file
        BY <4>1, <4>2 DEF Played
      <4>4. mixer[d].sound # None /\ M!Playing (d) /\ M!Silence.sound = None
        BY <3>1, PlayingSound DEF M!Meant, SoundsInv, M!Silence
      <4>5. QED
        BY <4>3, <4>4
    <3>2. CASE d \notin M!Meant (c)
      BY <2>1, <3>2 DEF SoundsInv, SoundsType, M!Playing
    <3>3. QED
      BY <3>1, <3>2
  <2>3. mixer' \in [Channels -> Played \cup {M!Silence}]
    BY <1>5, <2>2 DEF M!FadedOut
  <2>4. SoundsType'
    BY <1>1, <1>5, <2>1, <2>3 DEF SoundsInv, SoundsType
  <2>5. \A d \in Channels : (M!Playing (d))' <=> M!Playing (d)
    BY <2>2 DEF M!Playing
  <2>6. \A d \in Channels : ~ Starting (d) /\ ~ Starting (d)'
    BY <1>1, <1>5 DEF Starting, M!Idle
  <2>7. st.channel \in [Sounds -> Channels \cup {-1}]
    BY DEF SoundsInv, SoundsType, SoundState
  <2>8. Led'
    BY <1>1, <2>1, <2>2, <2>5, <2>6, <2>7 DEF SoundsInv, Led
  <2>9. Called'
    BY <1>5 DEF Called
  <2>10. QED
    BY <1>1, <2>4, <2>8, <2>9 DEF SoundsInv, Counted
<1>6. CASE call.op # "fadeout" /\ c # -1 /\ M!Halted (c) /\ call' = M!Stopped
  <2>1. c \in Channels /\ mixer[c].sound = call.sound /\ M!Playing (c)
    <3>1. c \in Channels /\ mixer[c].sound = call.sound
      BY <1>2, <1>3, <1>6 DEF SoundsInv, Led
    <3>2. QED
      BY <1>2, <3>1, PlayingSound, SoundsConstants DEF SoundsInv
  <2>2. call'.at # "create"
    BY <1>4, <1>6
  <2>3. /\ st' \in SoundState /\ mixer' \in [Channels -> Played \cup {M!Silence}] /\ Led'
        /\ st'.channel[call.sound] = -1
    BY <1>1, <1>2, <1>6, <2>1, <2>2, HaltedKeeps
  <2>4. SoundsType'
    BY <1>1, <1>4, <1>6, <2>3 DEF SoundsInv, SoundsType
  <2>5. Called'
    BY <1>1, <1>2, <1>4, <1>6, <2>3 DEF Called
  <2>6. QED
    BY <1>1, <2>3, <2>4, <2>5 DEF SoundsInv, Counted
<1>7. CASE c = -1 /\ call' = [call EXCEPT !.at = "halt"] /\ UNCHANGED <<st, mixer>>
  <2>1. call' \in SoundCall /\ call'.sound = call.sound /\ call'.at = "halt"
    BY <1>2, <1>7 DEF SoundCall
  <2>2. SoundsType'
    BY <1>1, <1>7, <2>1 DEF SoundsInv, SoundsType
  <2>3. \A d \in Channels : ~ Starting (d) /\ ~ Starting (d)'
    BY <1>1, <2>1 DEF Starting
  <2>4. Led'
    BY <1>1, <1>7, <2>3 DEF SoundsInv, Led, M!Playing
  <2>5. Called'
    BY <1>1, <1>2, <1>7, <2>1 DEF Called
  <2>6. QED
    BY <1>1, <2>2, <2>4, <2>5 DEF SoundsInv, Counted
<1>8. QED
  BY <1>5, <1>6, <1>7 DEF M!Stop

LEMMA SoundsHaltEach ==
  ASSUME M!SoundsAssumption, SoundsInv, M!HaltEach
  PROVE  SoundsInv'
<1> DEFINE playing == {c \in Channels : M!Playing (c)}
           c == CHOOSE c \in playing : \A d \in playing : c <= d
<1>1. call.at = "halt" /\ call # M!Idle /\ UNCHANGED <<m_sample, refcount>>
  BY DEF M!HaltEach, M!Idle
<1>2. call \in SoundCall /\ call.sound \in Sounds /\ m_sample[call.sound] # Gone /\ st.channel[call.sound] = -1
  BY <1>1, CallSound DEF SoundsInv, Called
<1>3. /\ M!Stopped \in SoundCall \cup {M!Idle} /\ M!Stopped.at \in {"start", "idle"}
      /\ M!Stopped # M!Idle => M!Stopped.sound = call.sound /\ M!Stopped.at = "start"
  BY <1>1, StoppedCall DEF SoundsInv
<1>4. CASE playing # {} /\ M!Halted (c) /\ UNCHANGED call
  <2>1. playing \subseteq Nat
    BY SoundsConstants
  <2>2. PICK d \in playing : \A e \in playing : d <= e
    BY <1>4, <2>1, LeastNatural
  <2>3. c \in playing
    BY <2>2
  <2> HIDE DEF c
  <2>4. c \in Channels
    BY <2>3
  <2>5. /\ st' \in SoundState /\ mixer' \in [Channels -> Played \cup {M!Silence}] /\ Led'
        /\ \A s \in Sounds : st'.channel[s] = -1 \/ st'.channel[s] = st.channel[s]
    BY <1>1, <1>4, <2>4, HaltedKeeps
  <2>6. SoundsType'
    BY <1>1, <1>4, <2>5 DEF SoundsInv, SoundsType
  <2>7. Called'
    BY <1>1, <1>2, <1>4, <2>5 DEF Called
  <2>8. QED
    BY <1>1, <2>5, <2>6, <2>7 DEF SoundsInv, Counted
<1>5. CASE playing = {} /\ call' = M!Stopped /\ UNCHANGED <<st, mixer>>
  <2>1. SoundsType'
    BY <1>1, <1>3, <1>5 DEF SoundsInv, SoundsType
  <2>2. \A d \in Channels : ~ Starting (d) /\ ~ Starting (d)'
    BY <1>1, <1>3, <1>5 DEF Starting
  <2>3. Led'
    BY <1>1, <1>5, <2>2 DEF SoundsInv, Led, M!Playing
  <2>4. Called'
    BY <1>1, <1>2, <1>3, <1>5 DEF Called
  <2>5. QED
    BY <1>1, <2>1, <2>3, <2>4 DEF SoundsInv, Counted
<1>6. QED
  BY <1>4, <1>5 DEF M!HaltEach

\* How many sounds use the sample of a file.
LEMMA Users ==
  ASSUME M!SoundsAssumption, NEW m, NEW f
  PROVE  /\ IsFiniteSet (UsersOf (m, f)) /\ Cardinality (UsersOf (m, f)) \in Nat
         /\ Cardinality (UsersOf (m, f)) = 0 <=> UsersOf (m, f) = {}
<1>1. IsFiniteSet (Sounds) /\ UsersOf (m, f) \in SUBSET Sounds
  BY SoundsConstants DEF UsersOf
<1>2. IsFiniteSet (UsersOf (m, f))
  BY <1>1, FS_Subset
<1>3. QED
  BY <1>2, FS_CardinalityType, FS_EmptySet

\* The cache counts a new sound of a file and one that is deleted.
LEMMA UserAdded ==
  ASSUME M!SoundsAssumption, NEW m, NEW n, NEW f, NEW s \in Sounds, m[s] # f, n[s] = f,
         \A r \in Sounds : r # s => n[r] = m[r]
  PROVE  Cardinality (UsersOf (n, f)) = Cardinality (UsersOf (m, f)) + 1
<1>1. UsersOf (n, f) = UsersOf (m, f) \cup {s} /\ s \notin UsersOf (m, f)
  BY DEF UsersOf
<1>2. IsFiniteSet (UsersOf (m, f))
  BY Users
<1>3. QED
  BY <1>1, <1>2, FS_AddElement

LEMMA UserRemoved ==
  ASSUME M!SoundsAssumption, NEW m, NEW n, NEW f, NEW s \in Sounds, m[s] = f, n[s] # f,
         \A r \in Sounds : r # s => n[r] = m[r]
  PROVE  Cardinality (UsersOf (n, f)) = Cardinality (UsersOf (m, f)) - 1
<1>1. UsersOf (n, f) = UsersOf (m, f) \ {s} /\ s \in UsersOf (m, f)
  BY DEF UsersOf
<1>2. IsFiniteSet (UsersOf (m, f))
  BY Users
<1>3. QED
  BY <1>1, <1>2, FS_RemoveElement

LEMMA OnlyUser ==
  ASSUME M!SoundsAssumption, NEW m, NEW f, NEW s \in Sounds, m[s] = f, Cardinality (UsersOf (m, f)) = 1
  PROVE  \A r \in Sounds : m[r] = f => r = s
<1>1. IsFiniteSet (UsersOf (m, f))
  BY Users
<1>2. s \in UsersOf (m, f)
  BY DEF UsersOf
<1>3. IsFiniteSet (UsersOf (m, f) \ {s}) /\ Cardinality (UsersOf (m, f) \ {s}) = 0
  BY <1>1, <1>2, FS_RemoveElement
<1>4. UsersOf (m, f) \ {s} = {}
  BY <1>3, FS_EmptySet
<1>5. QED
  BY <1>4 DEF UsersOf

\* A sound that is on no channel is played by none.
LEMMA SilentSound ==
  ASSUME M!SoundsAssumption, SoundsInv, NEW s \in Sounds
  PROVE  /\ m_sample[s] = Gone => st.channel[s] = -1
         /\ \A c \in Channels : mixer[c].sound = s => st.channel[s] = c
<1>1. \A c \in Channels : mixer[c].sound = s => st.channel[s] = c /\ m_sample[s] \in SoundFiles
  BY PlayingSound, SoundsConstants DEF SoundsInv, Led
<1>2. st.channel[s] \in Channels \cup {-1}
  BY DEF SoundsInv, SoundsType, SoundState
<1>3. QED
  BY <1>1, <1>2, SoundsConstants DEF SoundsInv, Led

LEMMA SoundsNew ==
  ASSUME M!SoundsAssumption, SoundsInv, NEW s \in Sounds, NEW f \in SoundFiles, NEW found \in BOOLEAN,
         M!New (s, f, found)
  PROVE  SoundsInv'
<1> DEFINE v == IF found THEN f ELSE None
<1>1. /\ call = M!Idle /\ m_sample[s] = Gone /\ UNCHANGED <<mixer, call>>
      /\ m_sample' = [m_sample EXCEPT ![s] = v]
      /\ st' = [st EXCEPT !.channel[s] = -1, !.forcedhalt[s] = FALSE]
      /\ IF found THEN refcount' = [refcount EXCEPT ![f] = @ + 1] ELSE refcount' = refcount
  BY DEF M!New, M!audio_open
<1>2. /\ st \in SoundState /\ m_sample \in [Sounds -> SoundFiles \cup {None, Gone}]
      /\ refcount \in [SoundFiles -> Int] /\ st.channel \in [Sounds -> Channels \cup {-1}]
      /\ st.forcedhalt \in [Sounds -> BOOLEAN]
  BY DEF SoundsInv, SoundsType, SoundState
<1>3. st.channel[s] = -1
  BY <1>1, SilentSound
<1>4. /\ st'.channel = [st.channel EXCEPT ![s] = -1] /\ st'.forcedhalt = [st.forcedhalt EXCEPT ![s] = FALSE]
      /\ st'.channels = st.channels /\ st'.completed = st.completed
      /\ DOMAIN st' = DOMAIN st
  BY <1>1, <1>2 DEF SoundState
<1>5. st'.channel = st.channel
  BY <1>2, <1>3, <1>4
<1>6. st' \in SoundState
  BY <1>1, <1>2 DEF SoundState
<1>7. m_sample' \in [Sounds -> SoundFiles \cup {None, Gone}]
  BY <1>1, <1>2
<1>8. refcount' \in [SoundFiles -> Int]
  BY <1>1, <1>2
<1>9. SoundsType'
  BY <1>1, <1>6, <1>7, <1>8 DEF SoundsInv, SoundsType
<1>10. \A r \in Sounds : m_sample'[r] = IF r = s THEN v ELSE m_sample[r]
  BY <1>1, <1>2
<1>11. \A c \in Channels : M!Playing (c) => mixer[c].sound \in Sounds /\ mixer[c].sound # s
  <2>1. \A c \in Channels : M!Playing (c) => mixer[c].sound \in Sounds
    BY PlayingSound DEF SoundsInv
  <2>2. QED
    BY <1>3, <2>1, SoundsConstants DEF SoundsInv, Led
<1>12. \A c \in Channels : (M!Playing (c))' <=> M!Playing (c)
  BY <1>1 DEF M!Playing
<1>13. \A c \in Channels : Starting (c)' <=> Starting (c)
  BY <1>1, <1>5 DEF Starting
<1>14. Led'
  BY <1>1, <1>4, <1>5, <1>10, <1>11, <1>12, <1>13 DEF SoundsInv, Led
<1>15. Called'
  BY <1>1 DEF Called
<1>16. Counted'
  <2>1. SUFFICES ASSUME NEW g \in SoundFiles
                 PROVE  refcount'[g] = Cardinality (UsersOf (m_sample', g))
    BY DEF Counted
  <2>2. refcount[g] = Cardinality (UsersOf (m_sample, g))
    BY DEF SoundsInv, Counted
  <2>3. CASE found /\ g = f
    <3>1. m_sample[s] # f /\ m_sample'[s] = f
      BY <1>1, <1>10, <2>3, SoundsConstants
    <3>2. Cardinality (UsersOf (m_sample', f)) = Cardinality (UsersOf (m_sample, f)) + 1
      BY <1>10, <3>1, UserAdded
    <3>3. refcount'[f] = refcount[f] + 1
      BY <1>1, <1>2, <2>3
    <3>4. QED
      BY <2>2, <2>3, <3>2, <3>3
  <2>4. CASE ~ (found /\ g = f)
    <3>1. refcount'[g] = refcount[g]
      BY <1>1, <1>2, <2>4
    <3>2. UsersOf (m_sample', g) = UsersOf (m_sample, g)
      BY <1>1, <1>10, <2>4, SoundsConstants DEF UsersOf
    <3>3. QED
      BY <2>2, <3>1, <3>2
  <2>5. QED
    BY <2>3, <2>4
<1>17. QED
  BY <1>9, <1>14, <1>15, <1>16 DEF SoundsInv

LEMMA SoundsDelete ==
  ASSUME M!SoundsAssumption, SoundsInv, NEW s \in Sounds, M!Delete (s)
  PROVE  SoundsInv'
<1> DEFINE f == m_sample[s]
<1>1. /\ call = M!Idle /\ f # Gone /\ st.channel[s] = -1 /\ UNCHANGED <<st, call>>
      /\ m_sample' = [m_sample EXCEPT ![s] = Gone]
      /\ IF f = None THEN refcount' = refcount /\ mixer' = mixer
         ELSE /\ refcount' = [refcount EXCEPT ![f] = @ - 1]
              /\ mixer' = [c \in Channels |-> IF mixer[c].file = f /\ refcount[f] = 1
                                              THEN M!Silence ELSE mixer[c]]
  BY DEF M!Delete
<1>2. /\ m_sample \in [Sounds -> SoundFiles \cup {None, Gone}] /\ f \in SoundFiles \cup {None}
      /\ refcount \in [SoundFiles -> Int] /\ mixer \in [Channels -> Played \cup {M!Silence}]
  BY <1>1 DEF SoundsInv, SoundsType
<1>3. m_sample' \in [Sounds -> SoundFiles \cup {None, Gone}]
  BY <1>1, <1>2
<1>4. \A r \in Sounds : m_sample'[r] = IF r = s THEN Gone ELSE m_sample[r]
  BY <1>1, <1>2
<1>5. \A c \in Channels : M!Playing (c) =>
         mixer[c].sound \in Sounds /\ mixer[c].sound # s /\ m_sample[mixer[c].sound] = mixer[c].file
  <2>1. \A c \in Channels : M!Playing (c) => mixer[c].sound \in Sounds
    BY PlayingSound DEF SoundsInv
  <2>2. QED
    BY <1>1, <2>1, SoundsConstants DEF SoundsInv, Led
<1>6. f # None =>
        /\ Cardinality (UsersOf (m_sample', f)) = Cardinality (UsersOf (m_sample, f)) - 1
        /\ Cardinality (UsersOf (m_sample, f)) = 1 => \A r \in Sounds : m_sample[r] = f => r = s
  <2>1. m_sample[s] = f /\ m_sample'[s] # f /\ \A r \in Sounds : r # s => m_sample'[r] = m_sample[r]
    BY <1>1, <1>4
  <2> HIDE DEF f
  <2>2. Cardinality (UsersOf (m_sample', f)) = Cardinality (UsersOf (m_sample, f)) - 1
    BY <2>1, UserRemoved
  <2>3. Cardinality (UsersOf (m_sample, f)) = 1 => \A r \in Sounds : m_sample[r] = f => r = s
    BY <2>1, OnlyUser
  <2>4. QED
    BY <2>2, <2>3
<1> HIDE DEF f
<1>7. mixer' = mixer
  <2>1. CASE f = None
    BY <1>1, <2>1
  <2>2. CASE f # None
    <3>1. \A c \in Channels : mixer[c].file = f => M!Playing (c)
      BY <2>2, PlayingSound DEF SoundsInv, M!Silence
    <3>2. refcount[f] = 1 => \A c \in Channels : mixer[c].file # f
      BY <1>2, <1>5, <1>6, <2>2, <3>1 DEF SoundsInv, Counted
    <3>3. QED
      BY <1>1, <1>2, <2>2, <3>2
  <2>3. QED
    BY <2>1, <2>2
<1>8. refcount' \in [SoundFiles -> Int]
  BY <1>1, <1>2
<1>9. SoundsType'
  BY <1>1, <1>3, <1>7, <1>8 DEF SoundsInv, SoundsType
<1>10. \A c \in Channels : ((M!Playing (c))' <=> M!Playing (c)) /\ (Starting (c)' <=> Starting (c))
  BY <1>1, <1>7 DEF M!Playing, Starting
<1>11. Led'
  BY <1>1, <1>4, <1>5, <1>7, <1>10 DEF SoundsInv, Led
<1>12. Called'
  BY <1>1 DEF Called
<1>13. Counted'
  <2>1. SUFFICES ASSUME NEW g \in SoundFiles
                 PROVE  refcount'[g] = Cardinality (UsersOf (m_sample', g))
    BY DEF Counted
  <2>2. refcount[g] = Cardinality (UsersOf (m_sample, g))
    BY DEF SoundsInv, Counted
  <2>3. CASE g = f
    <3>1. f # None
      BY <2>3, SoundsConstants
    <3>2. refcount'[f] = refcount[f] - 1
      BY <1>1, <1>2, <2>3, <3>1
    <3>3. QED
      BY <1>6, <2>2, <2>3, <3>1, <3>2
  <2>4. CASE g # f
    <3>1. refcount'[g] = refcount[g]
      BY <1>1, <1>2, <2>4
    <3>2. UsersOf (m_sample', g) = UsersOf (m_sample, g)
      BY <1>4, <2>4, SoundsConstants DEF f, UsersOf
    <3>3. QED
      BY <2>2, <3>1, <3>2
  <2>5. QED
    BY <2>3, <2>4
<1>14. QED
  BY <1>9, <1>11, <1>12, <1>13 DEF SoundsInv

LEMMA SoundsCall ==
  ASSUME M!SoundsAssumption, SoundsInv, NEW s \in Sounds, NEW op \in {"play", "halt", "fadeout"},
         M!Call (op, s)
  PROVE  SoundsInv'
<1>1. /\ call = M!Idle /\ m_sample[s] # Gone /\ UNCHANGED <<st, mixer, m_sample, refcount>>
      /\ call' = [op |-> op, sound |-> s, at |-> IF st.channel[s] # -1 THEN "force" ELSE "start"]
  BY DEF M!Call, M!MustStop, M!OnChannel
<1>2. call' \in SoundCall /\ call'.at \in {"force", "start"} /\ call'.sound = s
      /\ (call'.at = "start" => st.channel[s] = -1)
  BY <1>1 DEF SoundCall
<1>3. SoundsType'
  BY <1>1, <1>2 DEF SoundsInv, SoundsType
<1>4. \A c \in Channels : ~ Starting (c) /\ ~ Starting (c)'
  BY <1>1, <1>2 DEF Starting, M!Idle
<1>5. Led'
  BY <1>1, <1>4 DEF SoundsInv, Led, M!Playing
<1>6. Called'
  BY <1>1, <1>2 DEF Called
<1>7. QED
  BY <1>1, <1>3, <1>5, <1>6 DEF SoundsInv, Counted

LEMMA SoundsForce ==
  ASSUME M!SoundsAssumption, SoundsInv, M!Force
  PROVE  SoundsInv'
<1>1. /\ call.at = "force" /\ call # M!Idle /\ UNCHANGED <<mixer, m_sample, refcount>>
      /\ st' = [st EXCEPT !.forcedhalt[call.sound] = TRUE]
      /\ call' = [call EXCEPT !.at = "stop"]
  BY DEF M!Force, M!Idle
<1>2. call \in SoundCall /\ call.sound \in Sounds /\ m_sample[call.sound] # Gone
  BY <1>1, CallSound DEF SoundsInv, Called
<1>3. call' \in SoundCall /\ call'.at = "stop" /\ call'.sound = call.sound
  BY <1>1, <1>2 DEF SoundCall
<1>4. st' \in SoundState /\ st'.channel = st.channel /\ st'.channels = st.channels
  BY <1>1, <1>2 DEF SoundsInv, SoundsType, SoundState
<1>5. SoundsType'
  BY <1>1, <1>3, <1>4 DEF SoundsInv, SoundsType
<1>6. \A c \in Channels : ~ Starting (c) /\ ~ Starting (c)'
  BY <1>1, <1>3 DEF Starting
<1>7. Led'
  BY <1>1, <1>4, <1>6 DEF SoundsInv, Led, M!Playing
<1>8. Called'
  BY <1>1, <1>2, <1>3 DEF Called
<1>9. QED
  BY <1>1, <1>5, <1>7, <1>8 DEF SoundsInv, Counted

LEMMA SoundsStart ==
  ASSUME M!SoundsAssumption, SoundsInv, M!Start
  PROVE  SoundsInv'
<1> DEFINE s == call.sound
           free == {c \in Channels : ~ M!Playing (c)}
           c == CHOOSE c \in free : \A d \in free : c <= d
           p == [sound |-> s, file |-> m_sample[s], asked |-> FALSE]
<1>1. /\ call.at = "start" /\ call # M!Idle /\ UNCHANGED <<m_sample, refcount>>
      /\ call' = [call EXCEPT !.at = "create"]
  BY DEF M!Start, M!Idle
<1>2. call \in SoundCall /\ s \in Sounds /\ m_sample[s] # Gone /\ st.channel[s] = -1
  BY <1>1, CallSound DEF SoundsInv, Called
<1>3. call' \in SoundCall /\ call'.sound = s /\ call'.at = "create"
  BY <1>1, <1>2 DEF SoundCall
<1>4. Called'
  BY <1>1, <1>2, <1>3 DEF Called
<1>5. /\ st \in SoundState /\ st.channel \in [Sounds -> Channels \cup {-1}]
      /\ mixer \in [Channels -> Played \cup {M!Silence}]
      /\ m_sample[s] \in SoundFiles \cup {None}
  BY <1>2 DEF SoundsInv, SoundsType, SoundState
<1>6. \A d \in Channels : ~ Starting (d)
  BY <1>1 DEF Starting
<1>7. CASE UNCHANGED mixer /\ (st' = st \/ st' = [st EXCEPT !.channel[s] = -1])
  <2>1. st' = st
    BY <1>2, <1>5, <1>7 DEF SoundState
  <2>2. SoundsType'
    BY <1>1, <1>3, <1>7, <2>1 DEF SoundsInv, SoundsType
  <2>3. \A d \in Channels : ~ Starting (d)'
    BY <1>2, <1>3, <2>1, SoundsConstants DEF Starting
  <2>4. Led'
    BY <1>1, <1>6, <1>7, <2>1, <2>3 DEF SoundsInv, Led, M!Playing
  <2>5. QED
    BY <1>1, <1>4, <2>2, <2>4 DEF SoundsInv, Counted
<1>8. CASE /\ m_sample[s] # None /\ free # {}
           /\ st' = [st EXCEPT !.channel[s] = c] /\ mixer' = [mixer EXCEPT ![c] = p]
  <2>1. free \subseteq Nat
    BY SoundsConstants
  <2>2. PICK k \in free : \A e \in free : k <= e
    BY <1>8, <2>1, LeastNatural
  <2>3. c \in free
    BY <2>2
  <2> HIDE DEF c
  <2>4. c \in Channels /\ ~ M!Playing (c) /\ mixer[c].sound = None
    BY <2>3, PlayingSound DEF SoundsInv
  <2>5. p \in Played /\ p.sound = s /\ p.file = m_sample[s]
    BY <1>2, <1>5, <1>8 DEF Played
  <2> HIDE DEF p, free
  <2>6. mixer' \in [Channels -> Played \cup {M!Silence}]
    BY <1>5, <1>8, <2>4, <2>5
  <2>7. \A d \in Channels : mixer'[d] = IF d = c THEN p ELSE mixer[d]
    BY <1>5, <1>8, <2>4
  <2>8. st' \in SoundState /\ st'.channel = [st.channel EXCEPT ![s] = c] /\ st'.channels = st.channels
    BY <1>2, <1>5, <1>8, <2>4 DEF SoundState
  <2>9. \A r \in Sounds : st'.channel[r] = IF r = s THEN c ELSE st.channel[r]
    BY <1>2, <1>5, <2>8
  <2>10. SoundsType'
    BY <1>1, <1>3, <2>6, <2>8 DEF SoundsInv, SoundsType
  <2>11. ASSUME NEW d \in Channels, (M!Playing (d))'
         PROVE  st'.channel[mixer'[d].sound] = d /\ m_sample'[mixer'[d].sound] = mixer'[d].file
    <3>1. CASE d = c
      BY <1>1, <1>2, <2>5, <2>7, <2>9, <3>1
    <3>2. CASE d # c
      <4>1. mixer'[d] = mixer[d] /\ M!Playing (d)
        BY <2>7, <2>11, <3>2 DEF M!Playing
      <4>2. mixer[d].sound \in Sounds /\ st.channel[mixer[d].sound] = d /\ m_sample[mixer[d].sound] = mixer[d].file
        BY <4>1, PlayingSound DEF SoundsInv, Led
      <4>3. mixer[d].sound # s
        BY <1>2, <4>2, SoundsConstants
      <4>4. QED
        BY <1>1, <2>9, <4>1, <4>2, <4>3
    <3>3. QED
      BY <3>1, <3>2
  <2>12. ASSUME NEW r \in Sounds, st'.channel[r] # -1
         PROVE  mixer'[st'.channel[r]].sound = r
    <3>1. CASE r = s
      BY <2>4, <2>5, <2>7, <2>9, <3>1
    <3>2. CASE r # s
      <4>1. st'.channel[r] = st.channel[r] /\ st.channel[r] \in Channels /\ mixer[st.channel[r]].sound = r
        BY <1>5, <2>9, <2>12, <3>2 DEF SoundsInv, Led
      <4>2. st.channel[r] # c
        BY <2>4, <4>1, SoundsConstants
      <4>3. QED
        BY <2>7, <4>1, <4>2
    <3>3. QED
      BY <3>1, <3>2
  <2>13. ASSUME NEW d \in Channels
         PROVE  st'.channels[d] = IF Starting (d)' THEN None ELSE mixer'[d].sound
    <3>1. st'.channels[d] = mixer[d].sound
      BY <1>6, <2>8 DEF SoundsInv, Led
    <3>2. Starting (d)' <=> d = c
      BY <1>2, <1>3, <2>9 DEF Starting
    <3>3. QED
      BY <2>4, <2>7, <3>1, <3>2
  <2>14. Led'
    BY <2>11, <2>12, <2>13 DEF Led
  <2>15. QED
    BY <1>1, <1>4, <2>10, <2>14 DEF SoundsInv, Counted
<1>9. QED
  BY <1>7, <1>8 DEF M!Start

LEMMA SoundsCreate ==
  ASSUME M!SoundsAssumption, SoundsInv, M!handle_channel_create
  PROVE  SoundsInv'
<1> DEFINE s == call.sound
           c == st.channel[s]
<1>1. /\ call.at = "create" /\ call # M!Idle /\ UNCHANGED <<m_sample, refcount, mixer>> /\ call' = M!Idle
      /\ st' = IF c >= 0 THEN [st EXCEPT !.channels[c] = s] ELSE st
  BY DEF M!handle_channel_create, M!Idle
<1>2. s \in Sounds
  BY <1>1, CallSound DEF SoundsInv
<1>3. /\ st \in SoundState /\ st.channels \in [Channels -> Sounds \cup {None}] /\ c \in Channels \cup {-1}
  BY <1>2 DEF SoundsInv, SoundsType, SoundState
<1>4. \A d \in Channels : (Starting (d) <=> d = c) /\ ~ Starting (d)' /\ ((M!Playing (d))' <=> M!Playing (d))
  BY <1>1 DEF Starting, M!Idle, M!Playing
<1>5. Called'
  BY <1>1 DEF Called
<1> HIDE DEF c
<1>6. st' \in SoundState /\ st'.channel = st.channel
      /\ \A d \in Channels : st'.channels[d] = IF d = c THEN s ELSE st.channels[d]
  <2>1. CASE c \in Channels
    <3>1. c >= 0
      BY <2>1, SoundsConstants
    <3>2. st' = [st EXCEPT !.channels[c] = s]
      BY <1>1, <3>1
    <3>3. QED
      BY <1>2, <1>3, <2>1, <3>2 DEF SoundState
  <2>2. CASE c = -1
    BY <1>1, <1>3, <2>2, SoundsConstants
  <2>3. QED
    BY <1>3, <2>1, <2>2
<1>7. SoundsType'
  BY <1>1, <1>6 DEF SoundsInv, SoundsType
<1>8. c # -1 => mixer[c].sound = s
  BY <1>2 DEF SoundsInv, Led, c
<1>9. \A d \in Channels : st'.channels[d] = mixer[d].sound
  BY <1>4, <1>6, <1>8, SoundsConstants DEF SoundsInv, Led
<1>10. Led'
  BY <1>1, <1>4, <1>6, <1>9 DEF SoundsInv, Led
<1>11. QED
  BY <1>1, <1>5, <1>7, <1>10 DEF SoundsInv, Counted

LEMMA SoundsUpdate ==
  ASSUME M!SoundsAssumption, SoundsInv, M!update
  PROVE  SoundsInv'
<1>1. /\ call = M!Idle /\ UNCHANGED <<m_sample, refcount, mixer, call>> /\ st.completed # <<>>
      /\ st' = [st EXCEPT !.completed = Tail (@)]
  BY DEF M!update
<1>2. st \in SoundState /\ Tail (st.completed) \in Seq (Sounds)
  BY <1>1 DEF SoundsInv, SoundsType, SoundState
<1>3. st' \in SoundState /\ st'.channel = st.channel /\ st'.channels = st.channels
  BY <1>1, <1>2 DEF SoundState
<1>4. SoundsType'
  BY <1>1, <1>3 DEF SoundsInv, SoundsType
<1>5. Led'
  BY <1>1, <1>3 DEF SoundsInv, Led, Starting, M!Playing
<1>6. Called'
  BY <1>1 DEF Called
<1>7. QED
  BY <1>1, <1>4, <1>5, <1>6 DEF SoundsInv, Counted

LEMMA SoundsInit ==
  ASSUME M!SoundsAssumption, M!Init
  PROVE  SoundsInv
<1>1. /\ st = [channel |-> [s \in Sounds |-> -1], forcedhalt |-> [s \in Sounds |-> FALSE],
               channels |-> [c \in Channels |-> None], completed |-> <<>>]
      /\ m_sample = [s \in Sounds |-> Gone] /\ refcount = [f \in SoundFiles |-> 0]
      /\ mixer = [c \in Channels |-> M!Silence] /\ call = M!Idle
  BY DEF M!Init
<1>2. st \in SoundState
  BY <1>1 DEF SoundState
<1>3. SoundsType
  BY <1>1, <1>2 DEF SoundsType
<1>4. \A c \in Channels : ~ M!Playing (c) /\ ~ Starting (c) /\ mixer[c].sound = None
  BY <1>1 DEF M!Playing, M!Silence, M!Idle, Starting
<1>5. Led
  BY <1>1, <1>4 DEF Led
<1>6. \A f \in SoundFiles : UsersOf (m_sample, f) = {}
  BY <1>1, SoundsConstants DEF UsersOf
<1>7. Counted
  BY <1>1, <1>6, FS_EmptySet DEF Counted
<1>8. QED
  BY <1>1, <1>3, <1>5, <1>7 DEF SoundsInv, Called

LEMMA SoundsNext ==
  ASSUME M!SoundsAssumption, Brief = {}, SoundsInv, M!Next
  PROVE  SoundsInv'
BY SoundsDone, SoundsNew, SoundsDelete, SoundsCall, SoundsForce, SoundsStop, SoundsHaltEach, SoundsStart,
   SoundsCreate, SoundsUpdate DEF M!Next

\* Sounds and channels lead to each other, and what is played is counted.
LEMMA SoundsAgree ==
  ASSUME M!SoundsAssumption, SoundsInv
  PROVE  M!ChannelsAgree /\ M!SamplesHeld
<1>1. M!ChannelsAgree
  <2>1. SUFFICES ASSUME call.at # "create"
                 PROVE  /\ \A c \in Channels : st.channels[c] = mixer[c].sound
                        /\ \A s \in Sounds : st.channel[s] # -1 => st.channels[st.channel[s]] = s
    BY DEF M!ChannelsAgree
  <2>2. \A c \in Channels : st.channels[c] = mixer[c].sound
    BY <2>1 DEF SoundsInv, Led, Starting
  <2>3. st.channel \in [Sounds -> Channels \cup {-1}]
    BY DEF SoundsInv, SoundsType, SoundState
  <2>4. QED
    BY <2>2, <2>3 DEF SoundsInv, Led
<1>2. ASSUME NEW f \in SoundFiles
      PROVE  refcount[f] = M!Cardinality ({s \in Sounds : m_sample[s] = f})
  BY SameCardinality DEF SoundsInv, Counted, UsersOf
<1>3. ASSUME NEW c \in Channels, M!Playing (c)
      PROVE  refcount[mixer[c].file] > 0
  <2>1. mixer[c].sound \in UsersOf (m_sample, mixer[c].file) /\ mixer[c].file \in SoundFiles
    BY <1>3, PlayingSound DEF SoundsInv, Led, UsersOf
  <2>2. /\ Cardinality (UsersOf (m_sample, mixer[c].file)) \in Nat
        /\ Cardinality (UsersOf (m_sample, mixer[c].file)) = 0 <=> UsersOf (m_sample, mixer[c].file) = {}
    BY Users
  <2>3. refcount[mixer[c].file] = Cardinality (UsersOf (m_sample, mixer[c].file))
    BY <2>1 DEF SoundsInv, Counted
  <2>4. QED
    BY <2>1, <2>2, <2>3
<1>4. QED
  BY <1>1, <1>2, <1>3 DEF M!SamplesHeld

\* However the ends of samples in the mixer's thread fall between the steps of
\* the game (sound.cc, audio.cc, sdl/audio_sdl.cc), sounds and channels agree
\* on who plays where, and a sample stays loaded just as long as a sound uses
\* it: if no sample is so short that it is over before the call that has
\* started it is done.
THEOREM SoundsAlwaysAgree == Brief = {} => (Spec => []ChannelsAgree)
<1> DEFINE Inv == scene = "sounds" => SoundsInv
<1> SUFFICES ASSUME Brief = {}
             PROVE  Spec => []ChannelsAgree
  OBVIOUS
<1>1. Init => Inv
  BY SoundsAssumption, SoundsInit DEF Init
<1>2. Inv /\ [Next]_vars => Inv'
  <2>1. CASE SoundsStep
    BY <2>1, SoundsAssumption, SoundsNext DEF SoundsStep
  <2>2. CASE UNCHANGED <<scene, soundsVars>> \/ scene' # "sounds"
    BY <2>2 DEF soundsVars, SoundsInv, SoundsType, Led, Called, Counted, Starting, M!Playing
  <2>3. QED
    BY <2>1, <2>2 DEF Next, vars, SavedGamesStep, ConfigurationStep, ApplicationStep, InputDevicesStep, SpritesStep
<1>3. Inv => ChannelsAgree
  BY SoundsAssumption, SoundsAgree DEF ChannelsAgree
<1>4. QED
  BY <1>1, <1>2, <1>3, PTL DEF Spec

-----------------------------------------------------------------------------
(***************************************************************************)
(* The application. Modules are cleaned up in an order that puts those     *)
(* others are built on last, and a manager that is gone had its place in   *)
(* event_type::Types by its name.                                          *)
(***************************************************************************)

ApplicationType ==
  /\ state \in {"off", "game", "init", "cleanup", "over"}
  /\ Modules \subseteq A!Module /\ todo \subseteq Modules /\ up \subseteq A!Module
  /\ starts \in [A!Module -> Nat] /\ managers \in [A!Managed -> Nat]
  /\ Types \in Seq ((A!Managed \X Nat) \cup {None})
  /\ NamedTypes \in [A!Managed -> Nat] /\ \A m \in A!Managed : NamedTypes[m] <= Len (Types)

Ending == state \in {"cleanup", "over"}

\* What runs was asked for, and while the program ends what still runs is
\* still to be cleaned up, with all it is built on.
Running ==
  /\ up \subseteq (IF Ending THEN todo ELSE Modules) \cup {"PYTHON"}
  /\ \A m \in A!Module : starts[m] > 0 /\ (Ending => m \in todo) => m \in up
  /\ Ending => \A m \in todo : \A f \in A!Foundations[m] : f \in Modules => f \in todo
  /\ state = "over" => todo = {}
  /\ state = "off" => (Modules = {} /\ \A m \in A!Module : starts[m] = 0)

\* A name leads to a manager of its module, and each manager that is known by
\* an id exists and is known by its name.
Registered ==
  /\ \A m \in A!Managed : NamedTypes[m] # 0 => \E n \in Nat : Types[NamedTypes[m]] = <<m, n>>
  /\ \A i \in 1 .. Len (Types) : Types[i] # None =>
       Types[i] \in alive /\ \E m \in A!Managed : NamedTypes[m] = i

ApplicationInv == ApplicationType /\ Running /\ Registered

LEMMA ModuleNames ==
  /\ A!Module = {"PYTHON", "EVENT", "GFX", "INPUT", "AUDIO", "RPG", "WORLD", "GUI"}
  /\ DOMAIN A!InitOrder = 1 .. 8 /\ \A i \in 1 .. 8 : A!InitOrder[i] \in A!Module
  /\ DOMAIN A!CleanupOrder = 1 .. 8 /\ \A i \in 1 .. 8 : A!CleanupOrder[i] \in A!Module
  /\ A!Managed \subseteq A!Module
<1>1. A!InitOrder = <<"PYTHON", "EVENT", "GFX", "INPUT", "AUDIO", "RPG", "WORLD", "GUI">>
  BY DEF A!InitOrder
<1>2. DOMAIN A!InitOrder = 1 .. 8 /\ Len (A!InitOrder) = 8
  BY <1>1
<1>3. A!Module = {"PYTHON", "EVENT", "GFX", "INPUT", "AUDIO", "RPG", "WORLD", "GUI"}
  <2>1. A!Module = {A!InitOrder[i] : i \in 1 .. 8}
    BY <1>2 DEF A!Module
  <2>2. 1 .. 8 = {1, 2, 3, 4, 5, 6, 7, 8}
    OBVIOUS
  <2>3. QED
    BY <1>1, <2>1, <2>2
<1>4. DOMAIN A!CleanupOrder = 1 .. 8 /\ \A i \in 1 .. 8 : A!CleanupOrder[i] \in A!Module
  BY <1>3 DEF A!CleanupOrder
<1>5. A!Managed \subseteq A!Module
  BY <1>3 DEF A!Managed
<1>6. QED
  BY <1>1, <1>2, <1>3, <1>4, <1>5

\* What a module is built on is cleaned up after it.
LEMMA FoundationsLast ==
  ASSUME NEW i \in DOMAIN A!CleanupOrder, A!Due (A!CleanupOrder, i), NEW m \in todo, m \in A!Module
  PROVE  A!CleanupOrder[i] \notin A!Foundations[m]
<1>1. A!CleanupOrder = <<"WORLD", "RPG", "AUDIO", "INPUT", "GUI", "GFX", "EVENT", "PYTHON">>
  BY DEF A!CleanupOrder
<1>2. i \in 1 .. 8 /\ \A j \in 1 .. (i - 1) : A!CleanupOrder[j] \notin todo
  BY ModuleNames DEF A!Due
<1>3. A!Foundations[m] = IF m \in {"GUI", "WORLD"} THEN {"GFX"} ELSE IF m = "EVENT" THEN {"PYTHON"} ELSE {}
  BY DEF A!Foundations
<1>4. CASE A!CleanupOrder[i] = "GFX"
  <2>1. i = 6
    BY <1>1, <1>2, <1>4
  <2>2. "GUI" \notin todo /\ "WORLD" \notin todo
    BY <1>1, <1>2, <2>1
  <2>3. QED
    BY <1>3, <1>4, <2>2
<1>5. CASE A!CleanupOrder[i] = "PYTHON"
  <2>1. i = 8
    BY <1>1, <1>2, <1>5
  <2>2. "EVENT" \notin todo
    BY <1>1, <1>2, <2>1
  <2>3. QED
    BY <1>3, <1>5, <2>2
<1>6. QED
  BY <1>3, <1>4, <1>5

\* Modules are built on modules.
LEMMA FoundationModules ==
  ASSUME NEW m \in A!Module
  PROVE  A!Foundations[m] \subseteq A!Module
BY ModuleNames DEF A!Foundations

LEMMA ApplicationInit ==
  ASSUME A!Init
  PROVE  ApplicationInv
<1>1. /\ state = "off" /\ Modules = {} /\ todo = {} /\ up \subseteq {"PYTHON"}
      /\ managers = [m \in A!Managed |-> 0] /\ Types = <<>> /\ NamedTypes = [m \in A!Managed |-> 0]
      /\ starts = [m \in A!Module |-> 0]
  BY DEF A!Init
<1>2. Types \in Seq ((A!Managed \X Nat) \cup {None}) /\ Len (Types) = 0
  BY <1>1
<1>3. ApplicationType
  BY <1>1, <1>2, ModuleNames DEF ApplicationType
<1>4. Running
  BY <1>1 DEF Running, Ending
<1>5. Registered
  BY <1>1, <1>2 DEF Registered
<1>6. QED
  BY <1>3, <1>4, <1>5 DEF ApplicationInv

\* register_type, for a manager that exists.
LEMMA TypeRegistered ==
  ASSUME ApplicationType, Registered, NEW m \in A!Managed, NEW n \in Nat,
         A!register_type (m, <<m, n>>), alive' = alive \cup {<<m, n>>}
  PROVE  /\ Types' \in Seq ((A!Managed \X Nat) \cup {None})
         /\ NamedTypes' \in [A!Managed -> Nat] /\ \A k \in A!Managed : NamedTypes'[k] <= Len (Types')
         /\ Registered'
<1>1. /\ Types \in Seq ((A!Managed \X Nat) \cup {None}) /\ NamedTypes \in [A!Managed -> Nat]
      /\ \A k \in A!Managed : NamedTypes[k] <= Len (Types)
  BY DEF ApplicationType
<1>2. CASE NamedTypes[m] # 0
  <2>1. UNCHANGED <<Types, NamedTypes>>
    BY <1>2 DEF A!register_type
  <2>2. QED
    BY <1>1, <2>1 DEF Registered
<1>3. CASE NamedTypes[m] = 0
  <2>1. Types' = Append (Types, <<m, n>>) /\ NamedTypes' = [NamedTypes EXCEPT ![m] = Len (Types) + 1]
    BY <1>3 DEF A!register_type
  <2>2. /\ Types' \in Seq ((A!Managed \X Nat) \cup {None}) /\ Len (Types') = Len (Types) + 1 /\ Len (Types) \in Nat
        /\ Types'[Len (Types) + 1] = <<m, n>> /\ \A i \in 1 .. Len (Types) : Types'[i] = Types[i]
    BY <1>1, <2>1
  <2>3. \A k \in A!Managed : NamedTypes'[k] = IF k = m THEN Len (Types) + 1 ELSE NamedTypes[k]
    BY <1>1, <2>1
  <2>4. NamedTypes' \in [A!Managed -> Nat] /\ \A k \in A!Managed : NamedTypes'[k] <= Len (Types')
    BY <1>1, <2>1, <2>2, <2>3
  <2>5. ASSUME NEW k \in A!Managed, NamedTypes'[k] # 0
        PROVE  \E x \in Nat : Types'[NamedTypes'[k]] = <<k, x>>
    <3>1. CASE k = m
      BY <2>2, <2>3, <3>1
    <3>2. CASE k # m
      <4>1. NamedTypes'[k] = NamedTypes[k] /\ NamedTypes[k] \in 1 .. Len (Types)
        BY <1>1, <2>2, <2>3, <2>5, <3>2
      <4>2. QED
        BY <2>2, <2>5, <4>1 DEF Registered
    <3>3. QED
      BY <3>1, <3>2
  <2>6. ASSUME NEW i \in 1 .. Len (Types'), Types'[i] # None
        PROVE  Types'[i] \in alive' /\ \E k \in A!Managed : NamedTypes'[k] = i
    <3>1. CASE i = Len (Types) + 1
      BY <2>2, <2>3, <3>1
    <3>2. CASE i # Len (Types) + 1
      <4>1. i \in 1 .. Len (Types) /\ Types'[i] = Types[i]
        BY <2>2, <3>2
      <4>2. Types[i] \in alive
        BY <2>6, <4>1 DEF Registered
      <4>3. PICK k \in A!Managed : NamedTypes[k] = i
        BY <2>6, <4>1 DEF Registered
      <4>4. NamedTypes'[k] = i
        BY <1>3, <2>3, <4>1, <4>3
      <4>5. QED
        BY <4>1, <4>2, <4>4
    <3>3. QED
      BY <3>1, <3>2
  <2>7. QED
    BY <2>2, <2>4, <2>5, <2>6 DEF Registered
<1>4. QED
  BY <1>2, <1>3

\* The init function of a module that was asked for.
LEMMA ModuleStarted ==
  ASSUME ApplicationInv, NEW m \in todo, state = "init", A!InitModule (m),
         UNCHANGED Modules, todo' \subseteq todo, state' \in {"init", "game"}
  PROVE  ApplicationInv'
<1>1. m \in A!Module /\ m \in Modules
  BY DEF ApplicationInv, ApplicationType
<1>2. starts' = [starts EXCEPT ![m] = @ + 1] /\ up' = up \cup {m}
  BY DEF A!InitModule
<1>3. starts \in [A!Module -> Nat] /\ managers \in [A!Managed -> Nat] /\ up \subseteq A!Module
  BY DEF ApplicationInv, ApplicationType
<1>4. starts' \in [A!Module -> Nat] /\ \A k \in A!Module : starts'[k] > 0 => starts[k] > 0 \/ k = m
  BY <1>1, <1>2, <1>3
<1>5. /\ managers' \in [A!Managed -> Nat] /\ Types' \in Seq ((A!Managed \X Nat) \cup {None})
      /\ NamedTypes' \in [A!Managed -> Nat] /\ \A k \in A!Managed : NamedTypes'[k] <= Len (Types')
      /\ Registered'
  <2>1. CASE m \in A!Managed
    <3>1. /\ alive' = alive \cup {<<m, starts[m] + 1>>} /\ managers' = [managers EXCEPT ![m] = starts[m] + 1]
          /\ A!register_type (m, <<m, starts[m] + 1>>)
      BY <2>1 DEF A!InitModule
    <3>2. starts[m] + 1 \in Nat
      BY <1>1, <1>3
    <3>3. managers' \in [A!Managed -> Nat]
      BY <1>3, <2>1, <3>1, <3>2
    <3>4. QED
      BY <2>1, <3>1, <3>2, <3>3, TypeRegistered DEF ApplicationInv
  <2>2. CASE m \notin A!Managed
    <3>1. UNCHANGED <<alive, managers, Types, NamedTypes>>
      BY <2>2 DEF A!InitModule
    <3>2. QED
      BY <3>1 DEF ApplicationInv, ApplicationType, Registered
  <2>3. QED
    BY <2>1, <2>2
<1>6. ApplicationType'
  BY <1>1, <1>2, <1>3, <1>4, <1>5 DEF ApplicationInv, ApplicationType
<1>7. Running'
  BY <1>1, <1>2, <1>4 DEF ApplicationInv, ApplicationType, Running, Ending
<1>8. QED
  BY <1>5, <1>6, <1>7 DEF ApplicationInv

LEMMA ApplicationInitStep ==
  ASSUME ApplicationInv, A!InitStep
  PROVE  ApplicationInv'
<1>1. PICK i \in DOMAIN A!InitOrder :
        /\ A!Due (A!InitOrder, i)
        /\ IF A!InitOrder[i] = "PYTHON" THEN A!InitPython
           ELSE A!InitModule (A!InitOrder[i]) /\ UNCHANGED Modules
        /\ todo' = todo \ {A!InitOrder[i]}
  BY DEF A!InitStep
<1> DEFINE m == A!InitOrder[i]
<1>2. m \in todo /\ state = "init" /\ UNCHANGED state
  BY <1>1 DEF A!Due, A!InitStep
<1>3. CASE m = "PYTHON" /\ "PYTHON" \in up
  <2>1. Modules' = Modules \ {"PYTHON"} /\ UNCHANGED <<up, managers, alive, Types, NamedTypes, starts>>
    BY <1>1, <1>3 DEF A!InitPython, A!registry
  <2>2. ApplicationType' /\ Registered'
    BY <1>1, <1>2, <1>3, <2>1 DEF ApplicationInv, ApplicationType, Registered
  <2>3. Running'
    BY <1>1, <1>2, <1>3, <2>1 DEF ApplicationInv, ApplicationType, Running, Ending
  <2>4. QED
    BY <2>2, <2>3 DEF ApplicationInv
<1>4. CASE ~ (m = "PYTHON" /\ "PYTHON" \in up)
  <2>1. A!InitModule (m) /\ UNCHANGED Modules
    BY <1>1, <1>4 DEF A!InitPython
  <2>2. QED
    BY <1>1, <1>2, <2>1, ModuleStarted
<1>5. QED
  BY <1>3, <1>4

LEMMA ApplicationInitFails ==
  ASSUME ApplicationInv, A!InitFails
  PROVE  ApplicationInv'
<1>1. PICK i \in DOMAIN A!InitOrder :
        /\ A!Due (A!InitOrder, i)
        /\ \/ UNCHANGED <<up, managers, alive, Types, NamedTypes, starts>>
           \/ A!InitOrder[i] = "AUDIO" /\ A!InitModule ("AUDIO")
  BY DEF A!InitFails, A!registry
<1>2. state = "init" /\ state' = "game" /\ todo' = {} /\ UNCHANGED Modules /\ A!InitOrder[i] \in todo
  BY <1>1 DEF A!InitFails, A!Due
<1>3. CASE UNCHANGED <<up, managers, alive, Types, NamedTypes, starts>>
  <2>1. ApplicationType' /\ Registered'
    BY <1>2, <1>3 DEF ApplicationInv, ApplicationType, Registered
  <2>2. Running'
    BY <1>2, <1>3 DEF ApplicationInv, Running, Ending
  <2>3. QED
    BY <2>1, <2>2 DEF ApplicationInv
<1>4. CASE A!InitOrder[i] = "AUDIO" /\ A!InitModule ("AUDIO")
  BY <1>2, <1>4, ModuleStarted
<1>5. QED
  BY <1>1, <1>3, <1>4

LEMMA ApplicationCleanupStep ==
  ASSUME ApplicationInv, A!CleanupStep
  PROVE  ApplicationInv'
<1>1. PICK i \in DOMAIN A!CleanupOrder :
        LET m == A!CleanupOrder[i]
        IN  /\ A!Due (A!CleanupOrder, i) /\ up' = up \ {m} /\ todo' = todo \ {m}
            /\ IF m \in A!Managed /\ managers[m] # 0
               THEN /\ alive' = alive \ {<<m, managers[m]>>}
                    /\ managers' = [managers EXCEPT ![m] = 0]
                    /\ A!remove_type (m)
               ELSE UNCHANGED <<alive, managers, Types, NamedTypes>>
  BY DEF A!CleanupStep
<1> DEFINE m == A!CleanupOrder[i]
<1>2. m \in todo /\ m \in A!Module /\ state = "cleanup" /\ UNCHANGED <<state, Modules, starts>>
  BY <1>1 DEF A!CleanupStep, A!Due, ApplicationInv, ApplicationType
<1>3. \A k \in todo : k \in A!Module /\ m \notin A!Foundations[k]
  <2>1. \A k \in todo : k \in A!Module
    BY DEF ApplicationInv, ApplicationType
  <2>2. QED
    BY <1>1, <2>1, FoundationsLast
<1>4. up' = up \ {m} /\ todo' = todo \ {m}
  BY <1>1
<1> HIDE DEF m
<1>5. Running'
  BY <1>2, <1>3, <1>4 DEF ApplicationInv, Running, Ending
<1>6. /\ Types \in Seq ((A!Managed \X Nat) \cup {None}) /\ NamedTypes \in [A!Managed -> Nat]
      /\ managers \in [A!Managed -> Nat] /\ \A k \in A!Managed : NamedTypes[k] <= Len (Types)
  BY DEF ApplicationInv, ApplicationType
<1>7. CASE ~ (m \in A!Managed /\ managers[m] # 0)
  <2>1. UNCHANGED <<alive, managers, Types, NamedTypes>>
    BY <1>1, <1>7 DEF m
  <2>2. ApplicationType' /\ Registered'
    BY <1>2, <1>4, <2>1 DEF ApplicationInv, ApplicationType, Registered
  <2>3. QED
    BY <1>5, <2>2 DEF ApplicationInv
<1>8. CASE m \in A!Managed /\ managers[m] # 0
  <2>1. alive' = alive \ {<<m, managers[m]>>} /\ managers' = [managers EXCEPT ![m] = 0] /\ A!remove_type (m)
    BY <1>1, <1>8 DEF m
  <2>2. managers' \in [A!Managed -> Nat]
    BY <1>6, <1>8, <2>1
  <2>3. \A k \in A!Managed : NamedTypes[k] # 0 =>
           NamedTypes[k] \in 1 .. Len (Types) /\ \E n \in Nat : Types[NamedTypes[k]] = <<k, n>>
    BY <1>6 DEF ApplicationInv, Registered
  <2>4. \A j \in 1 .. Len (Types) : Types[j] # None =>
           Types[j] \in alive /\ \E k \in A!Managed : NamedTypes[k] = j /\ \E n \in Nat : Types[j] = <<k, n>>
    <3>1. SUFFICES ASSUME NEW j \in 1 .. Len (Types), Types[j] # None
                   PROVE  Types[j] \in alive /\ \E k \in A!Managed : NamedTypes[k] = j /\ \E n \in Nat : Types[j] = <<k, n>>
      OBVIOUS
    <3>2. Types[j] \in alive
      BY <3>1 DEF ApplicationInv, Registered
    <3>3. PICK k \in A!Managed : NamedTypes[k] = j
      BY <3>1 DEF ApplicationInv, Registered
    <3>4. \E n \in Nat : Types[j] = <<k, n>>
      BY <2>3, <3>3
    <3>5. QED
      BY <3>2, <3>3, <3>4
  <2>5. CASE NamedTypes[m] = 0
    <3>1. UNCHANGED <<Types, NamedTypes>>
      BY <2>1, <2>5 DEF A!remove_type
    <3>2. ASSUME NEW j \in 1 .. Len (Types), Types[j] # None
          PROVE  Types[j] \in alive' /\ \E k \in A!Managed : NamedTypes[k] = j
      <4>1. PICK k \in A!Managed : NamedTypes[k] = j /\ \E n \in Nat : Types[j] = <<k, n>>
        BY <2>4, <3>2
      <4>2. Types[j] \in alive
        BY <2>4, <3>2
      <4>3. k # m
        BY <2>5, <4>1
      <4>4. Types[j] # <<m, managers[m]>>
        BY <4>1, <4>3
      <4>5. QED
        BY <2>1, <4>1, <4>2, <4>4
    <3>3. Registered'
      BY <2>3, <3>1, <3>2 DEF Registered
    <3>4. ApplicationType'
      BY <1>2, <1>4, <2>2, <3>1 DEF ApplicationInv, ApplicationType
    <3>5. QED
      BY <1>5, <3>3, <3>4 DEF ApplicationInv
  <2>6. CASE NamedTypes[m] # 0
    <3>1. Types' = [Types EXCEPT ![NamedTypes[m]] = None] /\ NamedTypes' = [NamedTypes EXCEPT ![m] = 0]
      BY <2>1, <2>6 DEF A!remove_type, A!EmptyPlace, A!Vacated
    <3>2. NamedTypes[m] \in 1 .. Len (Types)
      BY <1>8, <2>3, <2>6
    <3>3. Types' \in Seq ((A!Managed \X Nat) \cup {None}) /\ Len (Types') = Len (Types)
          /\ \A j \in 1 .. Len (Types) : Types'[j] = IF j = NamedTypes[m] THEN None ELSE Types[j]
      BY <1>6, <3>1, <3>2
    <3>4. NamedTypes' \in [A!Managed -> Nat] /\ \A k \in A!Managed : NamedTypes'[k] = IF k = m THEN 0 ELSE NamedTypes[k]
      BY <1>6, <1>8, <3>1
    <3>5. ASSUME NEW k \in A!Managed, NamedTypes'[k] # 0
          PROVE  \E n \in Nat : Types'[NamedTypes'[k]] = <<k, n>>
      <4>1. k # m /\ NamedTypes'[k] = NamedTypes[k] /\ NamedTypes[k] # 0
        BY <3>4, <3>5
      <4>2. NamedTypes[k] \in 1 .. Len (Types) /\ \E n \in Nat : Types[NamedTypes[k]] = <<k, n>>
        BY <2>3, <4>1
      <4>3. NamedTypes[k] # NamedTypes[m]
        <5>1. PICK n \in Nat : Types[NamedTypes[m]] = <<m, n>>
          BY <1>8, <2>3, <2>6
        <5>2. PICK n2 \in Nat : Types[NamedTypes[k]] = <<k, n2>>
          BY <4>2
        <5>3. QED
          BY <4>1, <5>1, <5>2
      <4>4. QED
        BY <3>3, <4>1, <4>2, <4>3
    <3>6. ASSUME NEW j \in 1 .. Len (Types), Types'[j] # None
          PROVE  Types'[j] \in alive' /\ \E k \in A!Managed : NamedTypes'[k] = j
      <4>1. j # NamedTypes[m] /\ Types'[j] = Types[j] /\ Types[j] # None
        BY <3>3, <3>6
      <4>2. PICK k \in A!Managed : NamedTypes[k] = j /\ \E n \in Nat : Types[j] = <<k, n>>
        BY <2>4, <4>1
      <4>3. Types[j] \in alive
        BY <2>4, <4>1
      <4>4. k # m
        BY <4>1, <4>2
      <4>5. Types[j] # <<m, managers[m]>>
        BY <4>2, <4>4
      <4>6. Types'[j] \in alive'
        BY <2>1, <4>1, <4>3, <4>5
      <4>7. NamedTypes'[k] = j
        BY <3>4, <4>2, <4>4
      <4>8. QED
        BY <4>2, <4>6, <4>7
    <3>7. Registered'
      BY <3>3, <3>5, <3>6 DEF Registered
    <3>8. \A k \in A!Managed : NamedTypes'[k] <= Len (Types')
      <4>1. Len (Types) \in Nat /\ Len (Types') = Len (Types)
        BY <1>6, <3>3
      <4>2. TAKE k \in A!Managed
      <4>3. NamedTypes'[k] \in {0, NamedTypes[k]} /\ NamedTypes[k] <= Len (Types)
        BY <1>6, <3>4
      <4>4. QED
        BY <4>1, <4>3
    <3>9. ApplicationType'
      BY <1>2, <1>4, <2>2, <3>3, <3>4, <3>8 DEF ApplicationInv, ApplicationType
    <3>10. QED
      BY <1>5, <3>7, <3>9 DEF ApplicationInv
  <2>7. QED
    BY <2>5, <2>6
<1>9. QED
  BY <1>7, <1>8

LEMMA ApplicationNext ==
  ASSUME A!ApplicationAssumption, ApplicationInv, A!Next
  PROVE  ApplicationInv'
<1>1. ASSUME NEW ok \in BOOLEAN, A!Started (ok)
      PROVE  ApplicationInv'
  <2>1. state = "off" /\ state' \in {"game", "cleanup"}
        /\ UNCHANGED <<Modules, todo, up, managers, alive, Types, NamedTypes, starts>>
    BY <1>1 DEF A!Started, A!registry
  <2>2. ApplicationType' /\ Registered'
    BY <2>1 DEF ApplicationInv, ApplicationType, Registered
  <2>3. Modules = {} /\ todo = {} /\ up \subseteq {"PYTHON"} /\ \A m \in A!Module : starts[m] = 0
    BY <2>1 DEF ApplicationInv, ApplicationType, Running, Ending
  <2>4. Running'
    BY <2>1, <2>3 DEF Running, Ending
  <2>5. QED
    BY <2>2, <2>4 DEF ApplicationInv
<1>2. ASSUME NEW r \in Requests, A!init_modules (r)
      PROVE  ApplicationInv'
  <2>1. /\ state = "game" /\ state' = "init" /\ Modules' = Modules \cup (Modules \ r) \cup (r \ Modules)
        /\ todo' = (Modules \ r) \cup (r \ Modules)
        /\ UNCHANGED <<up, managers, alive, Types, NamedTypes, starts>>
    BY <1>2 DEF A!init_modules, A!registry
  <2>2. r \subseteq A!Module
    BY DEF A!ApplicationAssumption
  <2>3. ApplicationType' /\ Registered'
    BY <2>1, <2>2 DEF ApplicationInv, ApplicationType, Registered
  <2>4. Running'
    BY <2>1 DEF ApplicationInv, Running, Ending
  <2>5. QED
    BY <2>3, <2>4 DEF ApplicationInv
<1>3. ASSUME A!InitDone
      PROVE  ApplicationInv'
  <2>1. state = "init" /\ state' = "game" /\ UNCHANGED <<Modules, todo, up, managers, alive, Types, NamedTypes, starts>>
    BY <1>3 DEF A!InitDone, A!registry
  <2>2. QED
    BY <2>1 DEF ApplicationInv, ApplicationType, Registered, Running, Ending
<1>4. ASSUME A!stop
      PROVE  ApplicationInv'
  <2>1. /\ state = "game" /\ state' = "cleanup" /\ todo' = Modules
        /\ UNCHANGED <<Modules, up, managers, alive, Types, NamedTypes, starts>>
    BY <1>4 DEF A!stop, A!registry
  <2>2. ApplicationType' /\ Registered'
    BY <2>1 DEF ApplicationInv, ApplicationType, Registered
  <2>3. Running'
    BY <2>1 DEF ApplicationInv, ApplicationType, Running, Ending
  <2>4. QED
    BY <2>2, <2>3 DEF ApplicationInv
<1>5. ASSUME A!Over
      PROVE  ApplicationInv'
  <2>1. state = "cleanup" /\ state' = "over" /\ todo = {}
        /\ UNCHANGED <<Modules, todo, up, managers, alive, Types, NamedTypes, starts>>
    BY <1>5 DEF A!Over, A!registry
  <2>2. QED
    BY <2>1 DEF ApplicationInv, ApplicationType, Registered, Running, Ending
<1>6. QED
  BY <1>1, <1>2, <1>3, <1>4, <1>5, ApplicationInitStep, ApplicationInitFails, ApplicationCleanupStep DEF A!Next

LEMMA ApplicationKeepsTypes ==
  ASSUME ApplicationInv
  PROVE  A!BuiltOnFoundations /\ A!TypesAlive
<1>1. ASSUME NEW m \in up, NEW f \in A!Foundations[m], f \in Modules, starts[f] > 0
      PROVE  f \in up
  <2>1. m \in A!Module /\ f \in A!Module
    BY <1>1, FoundationModules DEF ApplicationInv, ApplicationType
  <2>2. Ending => f \in todo
    <3>1. m # "PYTHON"
      BY <1>1, ModuleNames DEF A!Foundations
    <3>2. QED
      BY <1>1, <3>1 DEF ApplicationInv, Running
  <2>3. QED
    BY <1>1, <2>1, <2>2 DEF ApplicationInv, Running
<1>2. state = "over" => up \subseteq {"PYTHON"}
  BY DEF ApplicationInv, Running, Ending
<1>3. A!TypesAlive
  BY DEF ApplicationInv, ApplicationType, Registered, A!TypesAlive
<1>4. QED
  BY <1>1, <1>2, <1>3 DEF A!BuiltOnFoundations

\* Whichever modules are asked for, fail to start and are cleaned up
\* (adonthell.cc), a module runs only on those it is built on, and an id of an
\* event type (event/types.cc) leads to a manager that exists.
THEOREM TypesStayAlive == Spec => []TypesAlive
<1> DEFINE Inv == scene = "application" => ApplicationInv
<1>1. Init => Inv
  BY ApplicationInit DEF Init
<1>2. Inv /\ [Next]_vars => Inv'
  <2>1. CASE ApplicationStep
    BY <2>1, ApplicationAssumption, ApplicationNext DEF ApplicationStep
  <2>2. CASE UNCHANGED <<scene, applicationVars>> \/ scene' # "application"
    BY <2>2 DEF applicationVars, ApplicationInv, ApplicationType, Running, Registered, Ending
  <2>3. QED
    BY <2>1, <2>2 DEF Next, vars, SavedGamesStep, ConfigurationStep, SoundsStep, InputDevicesStep, SpritesStep
<1>3. Inv => TypesAlive
  BY ApplicationKeepsTypes DEF TypesAlive
<1>4. QED
  BY <1>1, <1>2, <1>3, PTL DEF Spec

-----------------------------------------------------------------------------
(***************************************************************************)
(* Saved games. While a game is being saved nothing plays on, its directory *)
(* has no meta.data, and it holds what the serializers have written so far. *)
(* A record for one of the user's directories leads to a game or to nothing *)
(* whenever that directory is not the one that is written to.               *)
(***************************************************************************)

PlainFile == S!Range (Plain)

\* A directory can hold these files with this in them.
FolderOK (x) ==
  /\ DOMAIN x \subseteq S!File /\ x \in S!Folder (DOMAIN x)
  /\ \A f \in DOMAIN x : IF f = "world.data" THEN x[f] \in S!WorldFile ELSE x[f] \in -1 .. MaxVersion

\* A directory holds the whole of a game.
Holds (x, w) ==
  /\ \A p \in PlainFile : p \in DOMAIN x /\ x[p] = w.data[p]
  /\ "world.data" \in DOMAIN x /\ x["world.data"] = [area |-> w.area, tainted |-> w.tainted]
  /\ w.area \in DOMAIN x /\ x[w.area] = w.content

\* A directory holds what has been written of a game, all but what is left.
HoldsSome (x, w, left) ==
  /\ left \in Seq (PlainFile)
  /\ \A p \in PlainFile : (\E i \in DOMAIN left : left[i] = p) \/ (p \in DOMAIN x /\ x[p] = w.data[p])

Filed == disk = [d \in S!Dirs |-> disk[d]] /\ DOMAIN disk = S!Dirs /\ \A d \in S!Dirs : disk[d] # None => FolderOK (disk[d])

\* A game that was saved is still there.
Kept ==
  /\ DOMAIN saved = S!Dirs
  /\ \A d \in S!Dirs : saved[d] # None =>
       /\ saved[d] \in S!World /\ saved[d].loaded = d /\ saved[d].area \in Map
       /\ disk[d] # None /\ Holds (disk[d], saved[d])

\* meta.data vouches for a game.
Vouched == \A d \in S!Dirs : S!Valid (d) /\ d \notin torn => saved[d] # None

\* Where save is.
Written (x) ==
  /\ saving.step = "files" => HoldsSome (x, world, saving.todo)
  /\ saving.step = "world" => HoldsSome (x, world, <<>>) /\ world.area \in Map
                              /\ world.area \in DOMAIN x /\ x[world.area] = world.content
  /\ saving.step = "meta" => Holds (x, world) /\ world.area \in Map

Writing ==
  saving.step # "idle" =>
    /\ saving.dir \in S!Dirs /\ saved[saving.dir] = None /\ world.loaded # saving.dir
    /\ disk[saving.dir] # None /\ "meta.data" \notin DOMAIN disk[saving.dir]
    /\ Written (disk[saving.dir])

\* The records of the games; only the first is not of a directory.
Recorded (g) ==
  /\ g \in Seq ([dir : S!Dirs \cup {S!NoDirectory}, at : 0 .. Len (UserDirs)])
  /\ Len (g) >= 3 /\ \A i \in 2 .. Len (g) : g[i].dir \in S!Dirs

\* A directory in which there is a game or nothing, if it is one of the user's.
NoFiles (d) == \A f \in S!File : ~ S!Has (d, f)
Sound (d) ==
  d \in S!Range (UserDirs) /\ d \notin torn /\ (saving.step = "idle" \/ saving.dir # d) =>
    saved[d] # None \/ NoFiles (d)
RecordsOf (D) == [dir : D, at : 0 .. Len (UserDirs)]
SoundDirs == {d \in S!Dirs \cup {S!NoDirectory} : Sound (d)}
Offered == games \in Seq (RecordsOf (SoundDirs))

\* The game that was loaded and has not been played since.
Loaded ==
  world.loaded # None =>
    /\ saved[world.loaded] # None => world = saved[world.loaded]
    /\ world.loaded \in S!Range (UserDirs) /\ world.loaded \notin torn => S!IsAGame (world)

ProgramOK == world \in S!World /\ saving \in S!Saving /\ search \in S!Dirs \cup {None}

SavedGamesInv ==
  ProgramOK /\ Recorded (games) /\ Offered /\ Filed /\ Kept /\ Vouched /\ Writing /\ Loaded

LEMMA SavedGamesConstants ==
  ASSUME S!SavedGamesAssumption
  PROVE  /\ Plain \in Seq (STRING) /\ Len (Plain) \in Nat /\ DOMAIN Plain = 1 .. Len (Plain)
         /\ PlainFile = {Plain[i] : i \in 1 .. Len (Plain)} /\ Plain \in Seq (PlainFile)
         /\ PlainFile \subseteq STRING
         /\ \A p \in PlainFile : p \notin Map /\ p # "world.data" /\ p # "meta.data"
         /\ StartMap \in Map /\ "world.data" \notin Map /\ "meta.data" \notin Map
         /\ UserDirs \in Seq (STRING) /\ Len (UserDirs) \in Nat /\ MaxVersion \in Nat /\ SaveSlots \subseteq Int
         /\ None \notin Map /\ None \notin S!Dirs /\ None \notin S!World
         /\ {"auto", "quick"} \subseteq S!Dirs /\ \A i \in 1 .. Len (UserDirs) : UserDirs[i] \in S!Dirs
         /\ S!File = PlainFile \cup Map \cup {"world.data", "meta.data"}
         /\ {"auto", "quick", S!NoDirectory} \cap S!Range (UserDirs) = {}
<1>1. /\ Plain \in Seq (STRING) /\ PlainFile \cap (Map \cup {"world.data", "meta.data"}) = {}
      /\ StartMap \in Map /\ "world.data" \notin Map /\ "meta.data" \notin Map
      /\ UserDirs \in Seq (STRING) /\ MaxVersion \in Nat /\ SaveSlots \subseteq Int
      /\ None \notin Map /\ None \notin S!Dirs /\ None \notin S!World
      /\ {"auto", "quick", S!NoDirectory} \cap S!Range (UserDirs) = {}
  BY DEF S!SavedGamesAssumption, PlainFile
<1>2. Len (Plain) \in Nat /\ DOMAIN Plain = 1 .. Len (Plain) /\ Len (UserDirs) \in Nat
  BY <1>1
<1>3. PlainFile = {Plain[i] : i \in 1 .. Len (Plain)}
  BY <1>2 DEF PlainFile, S!Range
<1>4. Plain \in Seq (PlainFile) /\ PlainFile \subseteq STRING
  <2>1. Plain = [i \in 1 .. Len (Plain) |-> Plain[i]] /\ \A i \in 1 .. Len (Plain) : Plain[i] \in PlainFile
    BY <1>1, <1>3
  <2>2. Plain \in [1 .. Len (Plain) -> PlainFile]
    BY <2>1
  <2>3. \A i \in 1 .. Len (Plain) : Plain[i] \in STRING
    BY <1>1
  <2>4. QED
    BY <1>2, <1>3, <2>2, <2>3, SeqDef
<1>5. {"auto", "quick"} \subseteq S!Dirs /\ \A i \in 1 .. Len (UserDirs) : UserDirs[i] \in S!Dirs
  <2>1. S!Range (UserDirs) = {UserDirs[i] : i \in 1 .. Len (UserDirs)}
    BY <1>1 DEF S!Range
  <2>2. QED
    BY <2>1 DEF S!Dirs
<1>6. S!File = PlainFile \cup Map \cup {"world.data", "meta.data"}
  BY DEF S!File, PlainFile
<1>7. QED
  BY <1>1, <1>2, <1>3, <1>4, <1>5, <1>6

LEMMA FolderIsSome ==
  ASSUME S!SavedGamesAssumption, NEW x, FolderOK (x)
  PROVE  x # None
<1>1. DOMAIN x \in SUBSET S!File /\ x \in S!Folder (DOMAIN x)
  BY DEF FolderOK
<1>2. \A files \in SUBSET S!File : None \notin S!Folder (files)
  BY DEF S!SavedGamesAssumption
<1>3. QED
  BY <1>1, <1>2

LEMMA EmptyFolder == FolderOK (<<>>) /\ DOMAIN <<>> = {}
<1>1. DOMAIN <<>> = {}
  OBVIOUS
<1>2. <<>> \in Seq ((-1 .. MaxVersion) \cup S!WorldFile)
  OBVIOUS
<1>3. <<>> \in [1 .. Len (<<>>) -> (-1 .. MaxVersion) \cup S!WorldFile]
  BY <1>2, LenProperties
<1>4. <<>> \in [{} -> (-1 .. MaxVersion) \cup S!WorldFile]
  BY <1>3
<1>5. QED
  BY <1>1, <1>4 DEF FolderOK, S!Folder

\* A folder with one file changed or one more.
WithFile (x, f, v) == [g \in DOMAIN x \cup {f} |-> IF g = f THEN v ELSE x[g]]

LEMMA FolderWith ==
  ASSUME NEW x, FolderOK (x), NEW f \in S!File, NEW v,
         IF f = "world.data" THEN v \in S!WorldFile ELSE v \in -1 .. MaxVersion
  PROVE  /\ FolderOK (WithFile (x, f, v)) /\ DOMAIN WithFile (x, f, v) = DOMAIN x \cup {f}
         /\ WithFile (x, f, v)[f] = v
         /\ \A g \in DOMAIN x : g # f => WithFile (x, f, v)[g] = x[g]
<1> DEFINE y == WithFile (x, f, v)
<1>1. /\ y = [g \in DOMAIN x \cup {f} |-> IF g = f THEN v ELSE x[g]] /\ DOMAIN y = DOMAIN x \cup {f}
      /\ \A g \in DOMAIN y : y[g] = IF g = f THEN v ELSE x[g]
  BY DEF WithFile
<1> HIDE DEF y
<1>2. \A g \in DOMAIN y : IF g = "world.data" THEN y[g] \in S!WorldFile ELSE y[g] \in -1 .. MaxVersion
  BY <1>1 DEF FolderOK
<1>3. y \in [DOMAIN y -> (-1 .. MaxVersion) \cup S!WorldFile]
  BY <1>1, <1>2
<1>4. FolderOK (y)
  BY <1>1, <1>2, <1>3 DEF FolderOK, S!Folder
<1>5. QED
  BY <1>1, <1>4 DEF y

\* The contents of one directory change, in which there is no game.
LEMMA FolderChanges ==
  ASSUME S!SavedGamesAssumption, Filed, Kept, Vouched, NEW d \in S!Dirs, NEW y, FolderOK (y),
         disk' = [disk EXCEPT ![d] = y],
         DOMAIN saved' = S!Dirs, saved'[d] = None, \A e \in S!Dirs : e # d => saved'[e] = saved[e],
         torn' \cup {d} = torn \cup {d},
         "meta.data" \in DOMAIN y /\ y["meta.data"] # S!Torn => d \in torn'
  PROVE  Filed' /\ Kept' /\ Vouched' /\ disk'[d] = y /\ disk'[d] # None /\ saved'[d] = None
<1>1. y # None
  BY FolderIsSome
<1>2. /\ DOMAIN disk' = S!Dirs /\ disk'[d] = y /\ \A e \in S!Dirs : e # d => disk'[e] = disk[e]
      /\ DOMAIN saved' = S!Dirs /\ saved'[d] = None /\ \A e \in S!Dirs : e # d => saved'[e] = saved[e]
  BY DEF Filed, Kept
<1>3. Filed'
  BY <1>2 DEF Filed
<1>4. Kept'
  BY <1>2 DEF Kept
<1>5. Vouched'
  <2>1. ASSUME NEW e \in S!Dirs, S!Valid (e)', e \notin torn'
        PROVE  saved'[e] # None
    <3>1. e # d
      BY <1>2, <2>1 DEF S!Valid, S!Has, S!Exists
    <3>2. S!Valid (e) /\ e \notin torn
      BY <1>2, <2>1, <3>1 DEF S!Valid, S!Has, S!Exists
    <3>3. QED
      BY <1>2, <3>1, <3>2 DEF Vouched
  <2>2. QED
    BY <2>1 DEF Vouched
<1>6. QED
  BY <1>1, <1>2, <1>3, <1>4, <1>5

LEMMA SeqOfMore ==
  ASSUME NEW T, NEW B, T \subseteq B, NEW s \in Seq (T)
  PROVE  s \in Seq (B)
<1>1. Len (s) \in Nat /\ s \in [1 .. Len (s) -> T]
  BY LenProperties
<1>2. s \in [1 .. Len (s) -> B]
  BY <1>1
<1>3. QED
  BY <1>1, <1>2, SeqDef

LEMMA SoundIn ==
  ASSUME NEW d \in S!Dirs \cup {S!NoDirectory}
  PROVE  (Sound (d) <=> d \in SoundDirs) /\ (Sound (d)' <=> d \in SoundDirs')
BY DEF SoundDirs, S!Dirs

LEMMA MoreSound ==
  ASSUME \A d \in S!Dirs \cup {S!NoDirectory} : Sound (d) => Sound (d)'
  PROVE  SoundDirs \subseteq SoundDirs'
BY DEF SoundDirs, S!Dirs

\* The list of games is the same, and so is what its records lead to.
LEMMA OfferedSame ==
  ASSUME Offered, games' = games,
         \A d \in S!Dirs \cup {S!NoDirectory} : Sound (d) => Sound (d)'
  PROVE  Offered'
<1>1. SoundDirs \subseteq SoundDirs'
  BY DEF SoundDirs, S!Dirs
<1>2. RecordsOf (SoundDirs) \subseteq RecordsOf (SoundDirs')
  BY <1>1 DEF RecordsOf
<1>3. games' \in Seq (RecordsOf (SoundDirs'))
  BY <1>2, SeqOfMore DEF Offered
<1>4. QED
  BY <1>3 DEF Offered, RecordsOf

\* More records that lead to a game or to nothing.
LEMMA OfferedAfter ==
  ASSUME S!SavedGamesAssumption, NEW D, NEW g \in Seq (RecordsOf (D)), NEW R, R \subseteq RecordsOf (D),
         NEW u \in S!Ordered (R)
  PROVE  g \o u \in Seq (RecordsOf (D))
<1>1. PICK n \in 0 .. Len (UserDirs) : u \in [1 .. n -> R]
  BY DEF S!Ordered
<1>2. n \in Nat
  BY <1>1, SavedGamesConstants
<1>3. u \in [1 .. n -> RecordsOf (D)]
  BY <1>1
<1>4. u \in Seq (RecordsOf (D))
  BY <1>2, <1>3, SeqDef
<1>5. QED
  BY <1>4

LEMMA SpecialOffered ==
  ASSUME S!SavedGamesAssumption, NEW D, {"auto", "quick", S!NoDirectory} \subseteq D
  PROVE  S!SpecialGames \in Seq (RecordsOf (D))
<1>1. 0 \in 0 .. Len (UserDirs)
  BY SavedGamesConstants
<1>2. /\ [dir |-> S!NoDirectory, at |-> 0] \in RecordsOf (D)
      /\ [dir |-> "auto", at |-> 0] \in RecordsOf (D) /\ [dir |-> "quick", at |-> 0] \in RecordsOf (D)
  BY <1>1 DEF RecordsOf
<1>3. QED
  BY <1>2 DEF S!SpecialGames

\* The special records are not for the user's directories.
LEMMA SpecialSound ==
  ASSUME S!SavedGamesAssumption
  PROVE  /\ {"auto", "quick", S!NoDirectory} \subseteq S!Dirs \cup {S!NoDirectory}
         /\ \A d \in {"auto", "quick", S!NoDirectory} : d \notin S!Range (UserDirs)
BY SavedGamesConstants

LEMMA SpecialRecords == S!SavedGamesAssumption => Recorded (S!SpecialGames)
<1> SUFFICES ASSUME S!SavedGamesAssumption
             PROVE  Recorded (S!SpecialGames)
  OBVIOUS
<1> DEFINE R == [dir : S!Dirs \cup {S!NoDirectory}, at : 0 .. Len (UserDirs)]
<1>1. [dir |-> S!NoDirectory, at |-> 0] \in R /\ [dir |-> "auto", at |-> 0] \in R /\ [dir |-> "quick", at |-> 0] \in R
  <2>1. 0 \in 0 .. Len (UserDirs) /\ "auto" \in S!Dirs /\ "quick" \in S!Dirs
    BY SavedGamesConstants
  <2>2. QED
    BY <2>1
<1>2. S!SpecialGames \in Seq (R) /\ Len (S!SpecialGames) = 3
  BY <1>1 DEF S!SpecialGames
<1>3. S!SpecialGames[2].dir = "auto" /\ S!SpecialGames[3].dir = "quick"
  BY DEF S!SpecialGames
<1>4. \A i \in 2 .. 3 : S!SpecialGames[i].dir \in S!Dirs
  <2>1. "auto" \in S!Dirs /\ "quick" \in S!Dirs
    BY SavedGamesConstants
  <2>2. \A i \in 2 .. 3 : i = 2 \/ i = 3
    OBVIOUS
  <2>3. QED
    BY <1>3, <2>1, <2>2
<1>5. QED
  BY <1>2, <1>4 DEF Recorded

\* Records for directories go after others.
LEMMA RecordsAfter ==
  ASSUME S!SavedGamesAssumption, NEW g, Recorded (g), NEW R, R \subseteq [dir : S!Dirs, at : 0 .. Len (UserDirs)],
         NEW u \in S!Ordered (R)
  PROVE  Recorded (g \o u)
<1> DEFINE T == [dir : S!Dirs \cup {S!NoDirectory}, at : 0 .. Len (UserDirs)]
<1>1. PICK n \in 0 .. Len (UserDirs) : u \in [1 .. n -> R]
  BY DEF S!Ordered
<1>2. n \in Nat
  BY <1>1, SavedGamesConstants
<1>3. R \subseteq T /\ \A r \in R : r.dir \in S!Dirs
  OBVIOUS
<1>4. g \in Seq (T) /\ Len (g) >= 3 /\ Len (g) \in Nat /\ \A i \in 2 .. Len (g) : g[i].dir \in S!Dirs
  BY DEF Recorded
<1> HIDE DEF T
<1>5. u \in [1 .. n -> T] /\ \A i \in 1 .. n : u[i].dir \in S!Dirs
  BY <1>1, <1>3
<1>6. u \in Seq (T) /\ Len (u) = n
  BY <1>2, <1>5, SeqDef
<1>7. /\ g \o u \in Seq (T) /\ Len (g \o u) = Len (g) + n
      /\ \A i \in 1 .. Len (g) + n : (g \o u)[i] = IF i <= Len (g) THEN g[i] ELSE u[i - Len (g)]
  BY <1>4, <1>6
<1>8. \A i \in 2 .. Len (g \o u) : (g \o u)[i].dir \in S!Dirs
  BY <1>2, <1>4, <1>5, <1>7
<1>9. Len (g \o u) >= 3
  BY <1>2, <1>4, <1>7
<1>10. QED
  BY <1>7, <1>8, <1>9 DEF Recorded, T

LEMMA NothingYet ==
  ASSUME S!SavedGamesAssumption
  PROVE  /\ S!NoGame \in S!World /\ S!NoGame.loaded = None
         /\ S!Idle \in S!Saving /\ S!Idle.step = "idle"
<1>1. 0 \in 0 .. MaxVersion /\ None \notin S!Dirs
  BY SavedGamesConstants
<1>2. [s \in S!Range (Plain) |-> 0] \in [S!Range (Plain) -> 0 .. MaxVersion]
  BY <1>1
<1>3. S!NoGame \in S!World /\ S!NoGame.loaded = None
  BY <1>1, <1>2 DEF S!NoGame, S!World
<1>4. S!Idle \in S!Saving /\ S!Idle.step = "idle"
  BY DEF S!Idle, S!Saving
<1>5. QED
  BY <1>3, <1>4

\* The program starts, whatever is in the directories.
LEMMA GamesRestarted ==
  ASSUME S!SavedGamesAssumption, S!Restarted, Filed', Kept', Vouched'
  PROVE  SavedGamesInv'
<1>1. PICK at \in S!Injection (S!Listed', S!Address) : games' \in S!Games (at)
  BY DEF S!Restarted
<1>2. at \in [S!Listed' -> S!Address]
  BY <1>1 DEF S!Injection, S!IsInjective
<1> DEFINE R == {[dir |-> d, at |-> at[d]] : d \in DOMAIN at}
<1>3. \A d \in S!Listed' : d \in S!Dirs
  BY DEF S!Listed, S!Dirs
<1>4. \A d \in S!Listed' : at[d] \in 0 .. Len (UserDirs)
  BY <1>2 DEF S!Address
<1>5. R \subseteq [dir : S!Dirs, at : 0 .. Len (UserDirs)]
  BY <1>2, <1>3, <1>4
<1>6. PICK u \in S!Ordered (R) : games' = S!SpecialGames \o u
  BY <1>1 DEF S!Games
<1> HIDE DEF R
<1>7. Recorded (games')
  BY <1>5, <1>6, SpecialRecords, RecordsAfter
<1>8. world' = S!NoGame /\ saving' = S!Idle /\ search' = None
  BY DEF S!Restarted
<1>9. ProgramOK' /\ Writing' /\ Loaded'
  BY <1>8, NothingYet DEF ProgramOK, Writing, Loaded
<1>10. Offered'
  <2>1. S!SpecialGames \in Seq (RecordsOf (SoundDirs'))
    <3>1. {"auto", "quick", S!NoDirectory} \subseteq SoundDirs'
      BY SpecialSound DEF SoundDirs, Sound, S!Dirs
    <3>2. QED
      BY <3>1, SpecialOffered
  <2>2. R \subseteq RecordsOf (SoundDirs')
    <3>1. ASSUME NEW e \in S!Listed'
          PROVE  e \in SoundDirs'
      <4>1. S!Valid (e)' /\ e \in S!Dirs
        BY <1>3, <3>1 DEF S!Listed
      <4>2. e \in torn' \/ saved'[e] # None
        BY <4>1 DEF Vouched
      <4>3. Sound (e)'
        BY <4>2 DEF Sound
      <4>4. QED
        BY <4>1, <4>3 DEF SoundDirs, S!Dirs
    <3>2. QED
      BY <1>2, <1>4, <3>1 DEF R, RecordsOf
  <2>3. games' \in Seq (RecordsOf (SoundDirs'))
    BY <1>6, <2>1, <2>2, OfferedAfter
  <2>4. QED
    BY <2>3 DEF Offered, RecordsOf
<1>11. QED
  BY <1>7, <1>9, <1>10 DEF SavedGamesInv

LEMMA SavedGamesInit ==
  ASSUME S!SavedGamesAssumption, S!Init
  PROVE  SavedGamesInv
<1>1. /\ disk = [d \in S!Dirs |-> None] /\ saved = [d \in S!Dirs |-> None] /\ torn = {}
      /\ games = S!SpecialGames /\ search = None /\ world = S!NoGame /\ saving = S!Idle
  BY DEF S!Init
<1>2. Filed /\ Kept /\ Vouched
  BY <1>1 DEF Filed, Kept, Vouched, S!Valid, S!Has, S!Exists
<1>3. ProgramOK /\ Writing /\ Loaded
  BY <1>1, NothingYet DEF ProgramOK, Writing, Loaded
<1>4. Offered
  <2>1. {"auto", "quick", S!NoDirectory} \subseteq SoundDirs
    BY SpecialSound DEF SoundDirs, Sound
  <2>2. QED
    BY <1>1, <2>1, SpecialOffered DEF Offered
<1>5. QED
  BY <1>1, <1>2, <1>3, <1>4, SpecialRecords DEF SavedGamesInv

\* The parts that depend on directories only.
LEMMA FoldersSame ==
  ASSUME Filed, Kept, Vouched, UNCHANGED <<disk, saved, torn>>
  PROVE  Filed' /\ Kept' /\ Vouched'
BY DEF Filed, Kept, Vouched, S!Valid, S!Has, S!Exists

LEMMA WorldParts ==
  ASSUME NEW w \in S!World
  PROVE  /\ w.data \in [PlainFile -> 0 .. MaxVersion] /\ w.area \in Map \cup {None}
         /\ w.content \in 0 .. MaxVersion /\ w.tainted \subseteq Map /\ w.loaded \in S!Dirs \cup {None}
         /\ w = [data |-> w.data, area |-> w.area, content |-> w.content, tainted |-> w.tainted, loaded |-> w.loaded]
BY DEF S!World, PlainFile

LEMMA WorldOf ==
  ASSUME NEW data \in [PlainFile -> 0 .. MaxVersion], NEW area \in Map \cup {None},
         NEW content \in 0 .. MaxVersion, NEW tainted \in SUBSET Map, NEW loaded \in S!Dirs \cup {None}
  PROVE  [data |-> data, area |-> area, content |-> content, tainted |-> tainted, loaded |-> loaded] \in S!World
BY DEF S!World, PlainFile

\* What can be read is a number for each file.
LEMMA ReadType ==
  ASSUME S!SavedGamesAssumption, Filed, NEW d \in S!Dirs \cup {None}
  PROVE  /\ \A f \in S!File : f # "world.data" => S!FindInPath (d, f) \in -1 .. MaxVersion
         /\ S!FindInPath (d, "world.data") \in S!WorldFile
         /\ \A m \in Map : S!Content (d, m) \in 0 .. MaxVersion
<1>1. \A f : S!Has (d, f) => d \in S!Dirs /\ disk[d] # None /\ f \in DOMAIN disk[d] /\ FolderOK (disk[d])
  BY DEF S!Has, S!Exists, Filed
<1>2. -1 \in -1 .. MaxVersion /\ 0 \in -1 .. MaxVersion /\ 0 \in 0 .. MaxVersion
  BY SavedGamesConstants
<1>3. ASSUME NEW f \in S!File, f # "world.data"
      PROVE  S!FindInPath (d, f) \in -1 .. MaxVersion
  <2>1. CASE S!Has (d, f)
    BY <1>1, <1>3, <2>1 DEF S!FindInPath, FolderOK
  <2>2. CASE ~ S!Has (d, f)
    BY <1>2, <1>3, <2>2 DEF S!FindInPath, S!Initial
  <2>3. QED
    BY <2>1, <2>2
<1>4. S!FindInPath (d, "world.data") \in S!WorldFile
  <2>1. CASE S!Has (d, "world.data")
    BY <1>1, <2>1 DEF S!FindInPath, FolderOK
  <2>2. CASE ~ S!Has (d, "world.data")
    <3>1. S!FindInPath (d, "world.data") = [area |-> StartMap, tainted |-> {}]
      BY <2>2 DEF S!FindInPath, S!Initial
    <3>2. QED
      BY <3>1, SavedGamesConstants DEF S!WorldFile
  <2>3. QED
    BY <2>1, <2>2
<1>5. ASSUME NEW m \in Map
      PROVE  S!Content (d, m) \in 0 .. MaxVersion
  <2>1. m \in S!File /\ m # "world.data" /\ MaxVersion \in Nat
    BY SavedGamesConstants
  <2>2. S!FindInPath (d, m) \in -1 .. MaxVersion
    BY <1>3, <2>1
  <2>3. QED
    BY <1>2, <2>1, <2>2 DEF S!Content, S!Torn
<1>6. QED
  BY <1>3, <1>4, <1>5

\* The serializers before the first that fails read numbers.
LEMMA FailingFirst ==
  ASSUME S!SavedGamesAssumption, NEW d
  PROVE  /\ S!Failing (d) \in 1 .. Len (Plain) + 1
         /\ \A i \in 1 .. S!Failing (d) - 1 : S!Readable (d, Plain[i])
<1> DEFINE bad == {i \in DOMAIN Plain : ~ S!Readable (d, Plain[i])}
<1>1. Len (Plain) \in Nat /\ DOMAIN Plain = 1 .. Len (Plain)
  BY SavedGamesConstants
<1>2. CASE bad = {}
  <2>1. S!Failing (d) = Len (Plain) + 1
    BY <1>2 DEF S!Failing
  <2>2. \A i \in 1 .. Len (Plain) : S!Readable (d, Plain[i])
    BY <1>1, <1>2
  <2>3. QED
    BY <1>1, <2>1, <2>2
<1>3. CASE bad # {}
  <2> DEFINE n == CHOOSE i \in bad : \A k \in bad : i <= k
  <2>1. bad \subseteq Nat
    BY <1>1
  <2> HIDE DEF bad
  <2>2. \E i \in bad : \A k \in bad : i <= k
    BY <1>3, <2>1, LeastNatural
  <2>3. n \in bad /\ \A k \in bad : n <= k
    BY <2>2
  <2>4. S!Failing (d) = n
    BY <1>3 DEF S!Failing, bad
  <2> HIDE DEF n
  <2>5. n \in 1 .. Len (Plain)
    BY <1>1, <2>3 DEF bad
  <2>6. \A i \in 1 .. n - 1 : i \notin bad
    BY <2>3, <2>5
  <2>7. \A i \in 1 .. n - 1 : S!Readable (d, Plain[i])
    BY <1>1, <2>5, <2>6 DEF bad
  <2>8. QED
    BY <1>1, <2>4, <2>5, <2>7
<1>4. QED
  BY <1>2, <1>3

\* Nothing is written: a game plays on, or another is loaded.
LEMMA WorldChanges ==
  ASSUME SavedGamesInv, saving.step = "idle", UNCHANGED <<disk, saved, torn, games, saving>>,
         world' \in S!World, search' \in S!Dirs \cup {None}, Loaded'
  PROVE  SavedGamesInv'
<1>1. Filed' /\ Kept' /\ Vouched'
  BY FoldersSame DEF SavedGamesInv
<1>2. ProgramOK' /\ Recorded (games') /\ Writing'
  BY DEF SavedGamesInv, ProgramOK, Writing
<1>3. Offered'
  <2>1. \A d \in S!Dirs \cup {S!NoDirectory} : Sound (d) => Sound (d)'
    BY DEF Sound, NoFiles, S!Has, S!Exists
  <2>2. QED
    BY <2>1, OfferedSame DEF SavedGamesInv
<1>4. QED
  BY <1>1, <1>2, <1>3 DEF SavedGamesInv

LEMMA GamePlays ==
  ASSUME S!SavedGamesAssumption, SavedGamesInv, S!Play
  PROVE  SavedGamesInv'
<1>1. /\ world \in S!World /\ search \in S!Dirs \cup {None} /\ saving.step = "idle"
      /\ \A p \in PlainFile : world.data[p] < MaxVersion
      /\ UNCHANGED <<disk, saved, torn, games, saving, search>>
  BY DEF SavedGamesInv, ProgramOK, S!Play, S!historyVars, PlainFile
<1> DEFINE data == [p \in DOMAIN world.data |-> world.data[p] + 1]
<1>2. world' = [world EXCEPT !.data = data, !.content = MaxVersion - world.content, !.loaded = None]
  BY DEF S!Play
<1>3. MaxVersion \in Nat
  BY SavedGamesConstants
<1>4. /\ world.data \in [PlainFile -> 0 .. MaxVersion] /\ world.area \in Map \cup {None}
      /\ world.content \in 0 .. MaxVersion /\ world.tainted \subseteq Map
      /\ world = [data |-> world.data, area |-> world.area, content |-> world.content,
                  tainted |-> world.tainted, loaded |-> world.loaded]
  BY <1>1, WorldParts
<1>5. data \in [PlainFile -> 0 .. MaxVersion]
  <2>1. \A p \in PlainFile : world.data[p] + 1 \in 0 .. MaxVersion
    BY <1>1, <1>3, <1>4
  <2>2. QED
    BY <1>4, <2>1
<1>6. MaxVersion - world.content \in 0 .. MaxVersion
  BY <1>3, <1>4
<1> HIDE DEF data
<1>7. world' = [data |-> data, area |-> world.area, content |-> MaxVersion - world.content,
                tainted |-> world.tainted, loaded |-> None]
  BY <1>2, <1>4
<1>8. world' \in S!World /\ world'.loaded = None
  BY <1>4, <1>5, <1>6, <1>7, WorldOf
<1>9. Loaded'
  BY <1>8 DEF Loaded
<1>10. QED
  BY <1>1, <1>8, <1>9, WorldChanges

LEMMA GameChangesMap ==
  ASSUME S!SavedGamesAssumption, SavedGamesInv, NEW m \in Map, S!SetActiveMap (m)
  PROVE  SavedGamesInv'
<1>1. /\ world \in S!World /\ search \in S!Dirs \cup {None} /\ saving.step = "idle"
      /\ world.area \notin {None, m}
      /\ UNCHANGED <<disk, saved, torn, games, saving, search>> /\ Filed
  BY DEF SavedGamesInv, ProgramOK, S!SetActiveMap, S!historyVars
<1> DEFINE content == S!Content (search, m)
<1>2. world' = [world EXCEPT !.area = m, !.content = content,
                             !.tainted = world.tainted \cup {world.area}, !.loaded = None]
  BY DEF S!SetActiveMap
<1>3. content \in 0 .. MaxVersion
  BY <1>1, ReadType
<1> HIDE DEF content
<1>4. /\ world.data \in [PlainFile -> 0 .. MaxVersion] /\ world.area \in Map
      /\ world.tainted \cup {world.area} \in SUBSET Map
      /\ world = [data |-> world.data, area |-> world.area, content |-> world.content,
                  tainted |-> world.tainted, loaded |-> world.loaded]
  BY <1>1, WorldParts
<1>5. world' = [data |-> world.data, area |-> m, content |-> content,
                tainted |-> world.tainted \cup {world.area}, loaded |-> None]
  BY <1>2, <1>4
<1>6. world' \in S!World /\ world'.loaded = None
  BY <1>3, <1>4, <1>5, WorldOf
<1>7. Loaded'
  BY <1>6 DEF Loaded
<1>8. QED
  BY <1>1, <1>6, <1>7, WorldChanges

\* The data that load leaves, whichever serializer fails.
LoadedData (d, n) ==
  [p \in PlainFile |->
    IF \E i \in 1 .. n - 1 : Plain[i] = p THEN S!FindInPath (d, p)
    ELSE IF n <= Len (Plain) /\ Plain[n] = p THEN 0 ELSE world.data[p]]

LEMMA LoadedDataType ==
  ASSUME S!SavedGamesAssumption, Filed, world \in S!World, NEW d \in S!Dirs \cup {None}
  PROVE  LoadedData (d, S!Failing (d)) \in [PlainFile -> 0 .. MaxVersion]
<1> DEFINE n == S!Failing (d)
<1>1. /\ n \in 1 .. Len (Plain) + 1 /\ \A i \in 1 .. n - 1 : S!Readable (d, Plain[i])
      /\ Len (Plain) \in Nat /\ MaxVersion \in Nat
  BY FailingFirst, SavedGamesConstants
<1> HIDE DEF n
<1>2. world.data \in [PlainFile -> 0 .. MaxVersion]
  BY WorldParts
<1>3. ASSUME NEW p \in PlainFile
      PROVE  LoadedData (d, n)[p] \in 0 .. MaxVersion
  <2>1. LoadedData (d, n)[p] = IF \E i \in 1 .. n - 1 : Plain[i] = p THEN S!FindInPath (d, p)
                               ELSE IF n <= Len (Plain) /\ Plain[n] = p THEN 0 ELSE world.data[p]
    BY DEF LoadedData
  <2>2. p \in S!File /\ p # "world.data"
    BY SavedGamesConstants
  <2>3. S!FindInPath (d, p) \in -1 .. MaxVersion
    BY <2>2, ReadType
  <2>4. CASE \E i \in 1 .. n - 1 : Plain[i] = p
    <3>1. S!FindInPath (d, p) # -1
      BY <1>1, <2>2, <2>4 DEF S!Readable, S!Torn
    <3>2. QED
      BY <1>1, <2>1, <2>3, <2>4, <3>1
  <2>5. CASE ~ \E i \in 1 .. n - 1 : Plain[i] = p
    <3>1. LoadedData (d, n)[p] = 0 \/ LoadedData (d, n)[p] = world.data[p]
      BY <2>1, <2>5
    <3>2. QED
      BY <1>1, <1>2, <3>1
  <2>6. QED
    BY <2>4, <2>5
<1>4. LoadedData (d, n) = [p \in PlainFile |-> LoadedData (d, n)[p]]
  BY DEF LoadedData
<1>5. QED
  BY <1>3, <1>4 DEF n

\* A game that is loaded is the one that was saved.
LEMMA LoadedIsSaved ==
  ASSUME S!SavedGamesAssumption, Filed, Kept, NEW e \in S!Dirs, saved[e] # None,
         S!Failing (S!Searched (e)) = Len (Plain) + 1
  PROVE  LET d == S!Searched (e)
             stored == S!FindInPath (d, "world.data")
         IN saved[e] = [data |-> LoadedData (d, Len (Plain) + 1), area |-> stored.area,
                        content |-> S!Content (d, stored.area), tainted |-> S!LoadTainted (d, stored), loaded |-> e]
<1>1. /\ saved[e] \in S!World /\ saved[e].loaded = e /\ saved[e].area \in Map
      /\ disk[e] # None /\ Holds (disk[e], saved[e])
  BY DEF Kept
<1>2. S!Exists (e) /\ S!Searched (e) = e
  BY <1>1 DEF S!Exists, S!Searched, S!SaveDir
<1>3. \A f \in DOMAIN disk[e] : S!FindInPath (e, f) = disk[e][f]
  BY <1>2 DEF S!FindInPath, S!Has
<1>4. S!FindInPath (e, "world.data") = [area |-> saved[e].area, tainted |-> saved[e].tainted]
  BY <1>1, <1>3 DEF Holds
<1>5. S!FindInPath (e, saved[e].area) = saved[e].content
  BY <1>1, <1>3 DEF Holds
<1>6. saved[e].data \in [PlainFile -> 0 .. MaxVersion] /\ saved[e].content \in 0 .. MaxVersion
  BY <1>1, WorldParts
<1>7. MaxVersion \in Nat /\ Len (Plain) \in Nat /\ PlainFile = {Plain[i] : i \in 1 .. Len (Plain)}
  BY SavedGamesConstants
<1>8. S!Content (e, saved[e].area) = saved[e].content
  <2>1. saved[e].content # -1
    BY <1>6, <1>7
  <2>2. QED
    BY <1>5, <2>1 DEF S!Content, S!Torn
<1>9. LoadedData (e, Len (Plain) + 1) = saved[e].data
  <2>1. ASSUME NEW p \in PlainFile
        PROVE  LoadedData (e, Len (Plain) + 1)[p] = saved[e].data[p]
    <3>1. \E i \in 1 .. (Len (Plain) + 1) - 1 : Plain[i] = p
      BY <1>7
    <3>2. LoadedData (e, Len (Plain) + 1)[p] = S!FindInPath (e, p)
      BY <3>1 DEF LoadedData
    <3>3. S!FindInPath (e, p) = saved[e].data[p]
      BY <1>1, <1>3 DEF Holds
    <3>4. QED
      BY <3>2, <3>3
  <2>2. LoadedData (e, Len (Plain) + 1) = [p \in PlainFile |-> LoadedData (e, Len (Plain) + 1)[p]]
    BY DEF LoadedData
  <2>3. saved[e].data = [p \in PlainFile |-> saved[e].data[p]]
    BY <1>6
  <2>4. QED
    BY <2>1, <2>2, <2>3
<1>10. saved[e] = [data |-> saved[e].data, area |-> saved[e].area, content |-> saved[e].content,
                   tainted |-> saved[e].tainted, loaded |-> saved[e].loaded]
  BY <1>1, WorldParts
<1>11. QED
  BY <1>1, <1>2, <1>4, <1>8, <1>9, <1>10 DEF S!LoadTainted

\* What there is nothing of is as in a new game.
LEMMA LoadedIsNew ==
  ASSUME S!SavedGamesAssumption, NEW e \in S!Dirs, NoFiles (e)
  PROVE  LET d == S!Searched (e)
             stored == S!FindInPath (d, "world.data")
         IN S!NewGame (e) = [data |-> LoadedData (d, Len (Plain) + 1), area |-> stored.area,
                             content |-> S!Content (d, stored.area), tainted |-> S!LoadTainted (d, stored), loaded |-> e]
<1> DEFINE d == S!Searched (e)
<1>1. d = e \/ d = None
  BY DEF S!Searched, S!SaveDir
<1>2. \A f \in S!File : ~ S!Has (d, f)
  BY <1>1, SavedGamesConstants DEF NoFiles, S!Has, S!Exists
<1> HIDE DEF d
<1>3. \A f \in S!File : S!FindInPath (d, f) = S!Initial (f)
  BY <1>2 DEF S!FindInPath
<1>4. /\ "world.data" \in S!File /\ StartMap \in S!File /\ StartMap # "world.data" /\ Len (Plain) \in Nat
      /\ PlainFile = {Plain[i] : i \in 1 .. Len (Plain)}
      /\ \A p \in PlainFile : p \in S!File /\ p # "world.data"
  BY SavedGamesConstants
<1>5. S!FindInPath (d, "world.data") = [area |-> StartMap, tainted |-> {}]
  BY <1>3, <1>4 DEF S!Initial
<1>6. S!Content (d, StartMap) = 0
  <2>1. S!FindInPath (d, StartMap) = 0
    BY <1>3, <1>4 DEF S!Initial
  <2>2. QED
    BY <2>1 DEF S!Content, S!Torn
<1>7. LoadedData (d, Len (Plain) + 1) = [p \in S!Range (Plain) |-> 0]
  <2>1. ASSUME NEW p \in PlainFile
        PROVE  LoadedData (d, Len (Plain) + 1)[p] = 0
    <3>1. \E i \in 1 .. (Len (Plain) + 1) - 1 : Plain[i] = p
      BY <1>4
    <3>2. LoadedData (d, Len (Plain) + 1)[p] = S!FindInPath (d, p)
      BY <3>1 DEF LoadedData
    <3>3. QED
      BY <1>3, <1>4, <3>2 DEF S!Initial
  <2>2. LoadedData (d, Len (Plain) + 1) = [p \in PlainFile |-> LoadedData (d, Len (Plain) + 1)[p]]
    BY DEF LoadedData
  <2>3. QED
    BY <2>1, <2>2 DEF PlainFile
<1> DEFINE stored == S!FindInPath (d, "world.data")
           data == LoadedData (d, Len (Plain) + 1)
<1>8. /\ stored.area = StartMap /\ S!LoadTainted (d, stored) = {} /\ S!Content (d, stored.area) = 0
      /\ S!NewGame (e) = [data |-> data, area |-> StartMap, content |-> 0, tainted |-> {}, loaded |-> e]
  <2>1. S!NewGame (e) = [data |-> data, area |-> StartMap, content |-> 0, tainted |-> {}, loaded |-> e]
    BY <1>7 DEF S!NewGame
  <2>2. stored.area = StartMap /\ stored.tainted = {}
    BY <1>5
  <2>3. S!LoadTainted (d, stored) = {}
    BY <2>2 DEF S!LoadTainted
  <2>4. S!Content (d, stored.area) = 0
    BY <1>6, <2>2
  <2>5. QED
    BY <2>1, <2>2, <2>3, <2>4
<1> HIDE DEF stored, data
<1>9. S!NewGame (e) = [data |-> data, area |-> stored.area, content |-> S!Content (d, stored.area),
                       tainted |-> S!LoadTainted (d, stored), loaded |-> e]
  BY <1>8
<1>10. QED
  BY <1>9 DEF stored, data, d

\* What a record leads to, when nothing is saved.
LEMMA RecordSound ==
  ASSUME S!SavedGamesAssumption, SavedGamesInv, saving.step = "idle", NEW s \in Int, S!InRange (s),
         S!Get (s) \in S!Range (UserDirs), S!Get (s) \notin torn
  PROVE  saved[S!Get (s)] # None \/ NoFiles (S!Get (s))
<1>1. games \in Seq (RecordsOf (SoundDirs))
  BY DEF SavedGamesInv, Offered
<1>2. s + 4 \in 1 .. Len (games) /\ S!Get (s) = games[s + 4].dir
  <2>1. Len (games) \in Nat
    BY <1>1
  <2>2. QED
    BY <2>1 DEF S!InRange, S!Get, S!SPECIAL_SLOT_COUNT
<1>3. games[s + 4] \in RecordsOf (SoundDirs)
  <2> DEFINE T == RecordsOf (SoundDirs)
  <2>1. games \in Seq (T) /\ s + 4 \in 1 .. Len (games)
    BY <1>1, <1>2
  <2> HIDE DEF T
  <2>2. games[s + 4] \in T
    BY <2>1
  <2>3. QED
    BY <2>2 DEF T
<1>4. games[s + 4].dir \in SoundDirs
  BY <1>3 DEF RecordsOf
<1>5. Sound (S!Get (s))
  BY <1>2, <1>4 DEF SoundDirs
<1>6. QED
  BY <1>5 DEF Sound

LEMMA GameLoads ==
  ASSUME S!SavedGamesAssumption, SavedGamesInv, NEW s \in -3 .. Len (UserDirs), S!Load (s)
  PROVE  SavedGamesInv'
<1> DEFINE e == S!Get (s)
           d == S!Searched (e)
           n == S!Failing (d)
           data == LoadedData (d, n)
           stored == S!FindInPath (d, "world.data")
<1>1. /\ saving.step = "idle" /\ UNCHANGED <<disk, saved, torn, games, saving>> /\ search' = d
      /\ world \in S!World /\ Filed /\ Kept /\ S!InRange (s) /\ s \in Int
  BY SavedGamesConstants DEF S!Load, S!historyVars, SavedGamesInv, ProgramOK
<1>2. \/ n <= Len (Plain) /\ world' = [world EXCEPT !.data = data, !.loaded = None]
      \/ ~ (n <= Len (Plain)) /\ world' = [S!NoGame EXCEPT !.data = data]
      \/ ~ (n <= Len (Plain)) /\ stored.area # None
         /\ world' = [data |-> data, area |-> stored.area, content |-> S!Content (d, stored.area),
                      tainted |-> S!LoadTainted (d, stored), loaded |-> IF e \in S!Dirs THEN e ELSE None]
  BY DEF S!Load, LoadedData, PlainFile, S!Readable
<1>3. d \in S!Dirs \cup {None}
  BY DEF S!Searched, S!SaveDir, S!Exists
<1>4. data \in [PlainFile -> 0 .. MaxVersion]
  BY <1>1, <1>3, LoadedDataType
<1>5. /\ stored.area \in Map \cup {None} /\ stored.tainted \in SUBSET Map
      /\ stored.area # None => S!Content (d, stored.area) \in 0 .. MaxVersion
      /\ n \in 1 .. Len (Plain) + 1 /\ Len (Plain) \in Nat
  <2>1. stored \in S!WorldFile
    BY <1>1, <1>3, ReadType
  <2>2. stored.area \in Map \cup {None} /\ stored.tainted \in SUBSET Map
    BY <2>1 DEF S!WorldFile
  <2>3. \A m \in Map : S!Content (d, m) \in 0 .. MaxVersion
    BY <1>1, <1>3, ReadType
  <2>4. QED
    BY <2>2, <2>3, FailingFirst, SavedGamesConstants
<1>6. /\ world.area \in Map \cup {None} /\ world.content \in 0 .. MaxVersion /\ world.tainted \in SUBSET Map
      /\ world = [data |-> world.data, area |-> world.area, content |-> world.content,
                  tainted |-> world.tainted, loaded |-> world.loaded]
  BY <1>1, WorldParts
<1>7. e = S!Get (s) /\ d = S!Searched (e) /\ n = S!Failing (d) /\ data = LoadedData (d, n)
      /\ stored = S!FindInPath (d, "world.data")
  OBVIOUS
<1> HIDE DEF e, d, n, data, stored
<1>8. CASE n <= Len (Plain) /\ world' = [world EXCEPT !.data = data, !.loaded = None]
  <2>1. world' = [data |-> data, area |-> world.area, content |-> world.content,
                  tainted |-> world.tainted, loaded |-> None]
    BY <1>6, <1>8
  <2>2. world' \in S!World /\ world'.loaded = None
    BY <1>4, <1>6, <2>1, WorldOf
  <2>3. QED
    BY <1>1, <1>3, <2>2, WorldChanges DEF Loaded
<1>9. CASE world' = [S!NoGame EXCEPT !.data = data]
  <2>1. world' = [data |-> data, area |-> None, content |-> 0, tainted |-> {}, loaded |-> None]
    BY <1>9 DEF S!NoGame
  <2>2. 0 \in 0 .. MaxVersion
    BY SavedGamesConstants
  <2>3. world' \in S!World /\ world'.loaded = None
    BY <1>4, <2>1, <2>2, WorldOf
  <2>4. QED
    BY <1>1, <1>3, <2>3, WorldChanges DEF Loaded
<1>10. CASE /\ ~ (n <= Len (Plain)) /\ stored.area # None
            /\ world' = [data |-> data, area |-> stored.area, content |-> S!Content (d, stored.area),
                         tainted |-> S!LoadTainted (d, stored), loaded |-> IF e \in S!Dirs THEN e ELSE None]
  <2>1. n = Len (Plain) + 1
    BY <1>5, <1>10
  <2>2. S!LoadTainted (d, stored) = stored.tainted
    BY DEF S!LoadTainted
  <2>3. (IF e \in S!Dirs THEN e ELSE None) \in S!Dirs \cup {None}
    OBVIOUS
  <2>4. world' \in S!World /\ world'.loaded = IF e \in S!Dirs THEN e ELSE None
    BY <1>4, <1>5, <1>10, <2>2, <2>3, WorldOf
  <2>5. ASSUME world'.loaded # None
        PROVE  /\ e \in S!Dirs /\ world'.loaded = e
               /\ world' = [data |-> LoadedData (d, Len (Plain) + 1), area |-> stored.area,
                            content |-> S!Content (d, stored.area), tainted |-> S!LoadTainted (d, stored), loaded |-> e]
    BY <1>7, <1>10, <2>1, <2>4, <2>5
  <2>6. ASSUME world'.loaded # None, saved[e] # None
        PROVE  world' = saved[e]
    <3>1. S!Failing (S!Searched (e)) = Len (Plain) + 1
      BY <1>7, <2>1
    <3>2. saved[e] = [data |-> LoadedData (d, Len (Plain) + 1), area |-> stored.area,
                      content |-> S!Content (d, stored.area), tainted |-> S!LoadTainted (d, stored), loaded |-> e]
      BY <1>1, <1>7, <2>5, <2>6, <3>1, LoadedIsSaved
    <3>3. QED
      BY <2>5, <2>6, <3>2
  <2>7. ASSUME world'.loaded # None, NoFiles (e)
        PROVE  world' = S!NewGame (e)
    <3>1. S!NewGame (e) = [data |-> LoadedData (d, Len (Plain) + 1), area |-> stored.area,
                      content |-> S!Content (d, stored.area), tainted |-> S!LoadTainted (d, stored), loaded |-> e]
      BY <1>7, <2>5, <2>7, LoadedIsNew
    <3>2. QED
      BY <2>5, <2>7, <3>1
  <2>8. Loaded'
    <3>1. ASSUME world'.loaded # None, e \in S!Range (UserDirs), e \notin torn
          PROVE  saved[e] # None \/ NoFiles (e)
      BY <1>1, <1>7, <3>1, RecordSound
    <3>2. ASSUME world'.loaded # None, e \in S!Range (UserDirs), e \notin torn
          PROVE  world' = saved[e] \/ world' = S!NewGame (e)
      BY <2>6, <2>7, <3>1, <3>2
    <3>3. QED
      BY <1>1, <2>5, <2>6, <3>2 DEF Loaded, S!IsAGame, S!NewGame
  <2>9. QED
    BY <1>1, <1>3, <2>4, <2>8, WorldChanges
<1>11. QED
  BY <1>2, <1>8, <1>9, <1>10, <1>7

\* Records of games with directories, at some addresses.
Record == [dir : S!Dirs, at : 0 .. Len (UserDirs)]

LEMMA DirectoryType ==
  ASSUME S!SavedGamesAssumption, Recorded (games), NEW s \in SaveSlots, s # S!INITIAL_SAVE,
         S!InRange (s) \/ S!Unused # {}
  PROVE  S!Directory (s) \in S!Dirs /\ (S!Unused # {} => S!FirstUnused \in S!Dirs)
<1>1. s \in Int
  BY SavedGamesConstants
<1>2. ASSUME S!InRange (s)
      PROVE  S!Get (s) \in S!Dirs
  <2>1. s + 4 \in 2 .. Len (games)
    BY <1>1, <1>2 DEF S!InRange, S!INITIAL_SAVE, S!SPECIAL_SLOT_COUNT, Recorded
  <2>2. S!Get (s) = games[s + 4].dir
    BY <1>1 DEF S!Get, S!SPECIAL_SLOT_COUNT
  <2>3. QED
    BY <2>1, <2>2 DEF Recorded
<1>3. ASSUME S!Unused # {}
      PROVE  S!FirstUnused \in S!Dirs
  <2> DEFINE U == S!Unused
             n == CHOOSE i \in U : \A k \in U : i <= k
  <2>1. Len (UserDirs) \in Nat /\ DOMAIN UserDirs = 1 .. Len (UserDirs)
    BY SavedGamesConstants
  <2>2. U \subseteq 1 .. Len (UserDirs) /\ U # {}
    BY <1>3, <2>1 DEF S!Unused
  <2>3. S!FirstUnused = UserDirs[n]
    BY DEF S!FirstUnused
  <2> HIDE DEF U
  <2>4. \E i \in U : \A k \in U : i <= k
    <3>1. U \subseteq Nat /\ U # {}
      BY <2>1, <2>2
    <3>2. QED
      BY <3>1, LeastNatural
  <2>5. n \in U
    BY <2>4
  <2>6. QED
    BY <2>2, <2>3, <2>5, SavedGamesConstants
<1>4. QED
  BY <1>2, <1>3 DEF S!Directory

\* One directory is written to: the records for others lead where they did.
LEMMA SoundElsewhere ==
  ASSUME Filed, NEW d \in S!Dirs, NEW y, disk' = [disk EXCEPT ![d] = y],
         \A e \in S!Dirs : e # d => saved'[e] = saved[e], torn' \cup {d} = torn \cup {d},
         saving.step = "idle" \/ saving.dir = d, saving'.step # "idle", saving'.dir = d
  PROVE  /\ \A e \in S!Dirs \cup {S!NoDirectory} : Sound (e) => Sound (e)'
         /\ Sound (d)'
<1>1. Sound (d)'
  BY DEF Sound
<1>2. ASSUME NEW e \in S!Dirs, e # d, Sound (e)
      PROVE  Sound (e)'
  <2>1. disk'[e] = disk[e] /\ saved'[e] = saved[e] /\ (e \in torn' <=> e \in torn)
    BY <1>2 DEF Filed
  <2>2. NoFiles (e) => NoFiles (e)'
    BY <2>1 DEF NoFiles, S!Has, S!Exists
  <2>3. QED
    BY <1>2, <2>1, <2>2 DEF Sound
<1>3. ASSUME NEW e, e \notin S!Dirs
      PROVE  Sound (e)'
  BY <1>3 DEF Sound, S!Dirs
<1>4. QED
  BY <1>1, <1>2, <1>3

\* Saving begins: the directory is empty.
LEMMA SaveBegins ==
  ASSUME S!SavedGamesAssumption, SavedGamesInv, NEW s \in SaveSlots, S!BeginSave (s)
  PROVE  SavedGamesInv'
<1>d. PICK d : d = S!Directory (s)
  OBVIOUS
<1>1. /\ s # S!INITIAL_SAVE /\ (S!InRange (s) \/ S!Unused # {})
      /\ saving' = [step |-> "files", dir |-> d, slot |-> s, todo |-> Plain]
      /\ disk' = [disk EXCEPT ![d] = <<>>] /\ saved' = [saved EXCEPT ![d] = None] /\ torn' = torn \ {d}
      /\ world' = [world EXCEPT !.loaded = IF world.loaded = d THEN None ELSE world.loaded]
      /\ saving.step = "idle" /\ search' = search
      /\ games' = games \/ ~ S!InRange (s)
      /\ Recorded (games) /\ Offered /\ Filed /\ Kept /\ Vouched /\ ProgramOK /\ Loaded
  BY <1>d DEF S!BeginSave, SavedGamesInv
<1>2. d \in S!Dirs /\ s \in Int
  BY <1>1, <1>d, DirectoryType, SavedGamesConstants
<1>3. /\ Filed' /\ Kept' /\ Vouched' /\ disk'[d] = <<>> /\ disk'[d] # None /\ saved'[d] = None
      /\ \A e \in S!Dirs : e # d => saved'[e] = saved[e]
  <2>1. torn' \cup {d} = torn \cup {d}
    BY <1>1
  <2>2. FolderOK (<<>>) /\ "meta.data" \notin DOMAIN <<>>
    BY EmptyFolder
  <2>3. DOMAIN saved' = S!Dirs /\ saved'[d] = None /\ \A e \in S!Dirs : e # d => saved'[e] = saved[e]
    BY <1>1, <1>2 DEF Kept
  <2>4. QED
    BY <1>1, <1>2, <2>1, <2>2, <2>3, FolderChanges
<1>4. Recorded (games')
  <2>1. CASE games' = games
    BY <1>1, <2>1
  <2>2. CASE games' # games
    <3>1. PICK at \in S!Address : games' = Append (games, [dir |-> S!FirstUnused, at |-> at]) /\ S!Unused # {}
      BY <1>1, <2>2 DEF S!BeginSave
    <3> DEFINE r == [dir |-> S!FirstUnused, at |-> at]
               T == [dir : S!Dirs \cup {S!NoDirectory}, at : 0 .. Len (UserDirs)]
    <3>2. S!FirstUnused \in S!Dirs /\ at \in 0 .. Len (UserDirs)
      BY <1>1, <3>1, DirectoryType, SavedGamesConstants DEF S!Address
    <3>3. r \in T /\ r.dir \in S!Dirs
      BY <3>2
    <3>4. games' = Append (games, r)
      BY <3>1
    <3>5. games \in Seq (T) /\ Len (games) >= 3 /\ \A i \in 2 .. Len (games) : games[i].dir \in S!Dirs
      BY <1>1 DEF Recorded
    <3> HIDE DEF r, T
    <3>6. /\ games' \in Seq (T) /\ Len (games') = Len (games) + 1 /\ Len (games) \in Nat
          /\ \A i \in 1 .. Len (games) + 1 : games'[i] = IF i <= Len (games) THEN games[i] ELSE r
      BY <3>3, <3>4, <3>5
    <3>7. \A i \in 2 .. Len (games') : games'[i].dir \in S!Dirs
      BY <3>3, <3>5, <3>6
    <3>8. Len (games') >= 3
      BY <3>5, <3>6
    <3>9. QED
      BY <3>6, <3>7, <3>8 DEF Recorded, T
  <2>3. QED
    BY <2>1, <2>2
<1>5. saving' \in S!Saving /\ saving'.step = "files" /\ saving'.dir = d /\ saving'.todo = Plain
  BY <1>1, <1>2, SavedGamesConstants DEF S!Saving
<1>6. /\ world' \in S!World /\ world'.data = world.data /\ world'.loaded # d
      /\ world'.loaded # None => world' = world
  <2>1. world \in S!World /\ d # None
    BY <1>1, <1>2, SavedGamesConstants DEF ProgramOK
  <2>2. QED
    BY <1>1, <2>1 DEF S!World
<1>7. HoldsSome (<<>>, world', Plain)
  BY SavedGamesConstants DEF HoldsSome
<1>8. Writing'
  <2>1. "meta.data" \notin DOMAIN disk'[d]
    BY <1>3, EmptyFolder
  <2>2. Written (<<>>)'
    BY <1>5, <1>7 DEF Written
  <2>3. QED
    BY <1>2, <1>3, <1>5, <1>6, <2>1, <2>2 DEF Writing
<1>9. Loaded'
  <2>1. ASSUME world'.loaded # None
        PROVE  world' = world /\ world.loaded \in S!Dirs /\ world.loaded # d
    <3>1. world.loaded \in S!Dirs \cup {None}
      BY <1>1, WorldParts DEF ProgramOK
    <3>2. QED
      BY <1>6, <2>1, <3>1
  <2>2. ASSUME world'.loaded # None
        PROVE  saved'[world.loaded] = saved[world.loaded] /\ (world.loaded \in torn' <=> world.loaded \in torn)
    BY <1>1, <1>3, <2>1, <2>2
  <2>3. QED
    BY <1>1, <2>1, <2>2 DEF Loaded, S!IsAGame, S!NewGame
<1>10. ProgramOK'
  BY <1>1, <1>5, <1>6 DEF ProgramOK
<1>11. Offered'
  <2> DEFINE none == <<>>
  <2>1. /\ Filed /\ d \in S!Dirs /\ disk' = [disk EXCEPT ![d] = none]
        /\ \A e \in S!Dirs : e # d => saved'[e] = saved[e]
        /\ torn' \cup {d} = torn \cup {d}
        /\ saving.step = "idle" /\ saving'.step # "idle" /\ saving'.dir = d
    BY <1>1, <1>2, <1>3, <1>5
  <2> HIDE DEF none
  <2>2. /\ \A e \in S!Dirs \cup {S!NoDirectory} : Sound (e) => Sound (e)'
        /\ Sound (d)'
    BY <2>1, SoundElsewhere
  <2>3. CASE games' = games
    BY <1>1, <2>2, <2>3, OfferedSame
  <2>4. CASE ~ S!InRange (s)
    <3> DEFINE T == RecordsOf (SoundDirs')
    <3>1. SoundDirs \subseteq SoundDirs' /\ d \in SoundDirs'
      BY <1>2, <2>2, SoundIn, MoreSound
    <3>2. RecordsOf (SoundDirs) \subseteq T
      BY <3>1 DEF RecordsOf
    <3> HIDE DEF T
    <3>3. games \in Seq (T)
      BY <1>1, <3>2, SeqOfMore DEF Offered
    <3>4. PICK at \in S!Address : games' = Append (games, [dir |-> S!FirstUnused, at |-> at])
      BY <2>4 DEF S!BeginSave
    <3>5. S!FirstUnused = d
      BY <1>d, <2>4 DEF S!Directory
    <3>6. [dir |-> S!FirstUnused, at |-> at] \in T
      <4>1. at \in 0 .. Len (UserDirs)
        BY <3>4, SavedGamesConstants DEF S!Address
      <4>2. QED
        BY <3>1, <3>5, <4>1 DEF T, RecordsOf
    <3>7. games' \in Seq (T)
      BY <3>3, <3>4, <3>6
    <3>8. QED
      BY <3>7 DEF Offered, T, RecordsOf
  <2>5. QED
    BY <1>1, <2>3, <2>4
<1>12. QED
  BY <1>3, <1>4, <1>8, <1>9, <1>10, <1>11 DEF SavedGamesInv

\* The program ends while an older game is removed, or what was written of one.
LEMMA CleanupCrashes ==
  ASSUME S!SavedGamesAssumption, SavedGamesInv, NEW d \in S!Dirs, S!CrashInCleanup (d)
  PROVE  SavedGamesInv'
<1>1. PICK f \in DOMAIN disk[d] : disk' = [disk EXCEPT ![d] = [g \in DOMAIN disk[d] \ {f} |-> disk[d][g]]]
  BY DEF S!CrashInCleanup
<1>2. /\ disk[d] # None
      /\ saved' = [saved EXCEPT ![d] = None] /\ S!Restarted
      /\ torn' \cup {d} = torn \cup {d}
      /\ d \in torn' \/ "meta.data" \notin DOMAIN disk[d]
      /\ Filed /\ Kept /\ Vouched
  BY DEF S!CrashInCleanup, S!Exists, SavedGamesInv, Writing
<1> DEFINE y == [g \in DOMAIN disk[d] \ {f} |-> disk[d][g]]
<1>4. FolderOK (y)
  <2>1. FolderOK (disk[d])
    BY <1>2 DEF Filed
  <2> DEFINE x == disk[d]
  <2>2. /\ DOMAIN x \subseteq S!File /\ x \in [DOMAIN x -> (-1 .. MaxVersion) \cup S!WorldFile]
        /\ \A g \in DOMAIN x : IF g = "world.data" THEN x[g] \in S!WorldFile ELSE x[g] \in -1 .. MaxVersion
    BY <2>1 DEF FolderOK, S!Folder
  <2>3. y = [g \in DOMAIN x \ {f} |-> x[g]] /\ DOMAIN y = DOMAIN x \ {f} /\ \A g \in DOMAIN y : y[g] = x[g]
    OBVIOUS
  <2> HIDE DEF x, y
  <2>4. y \in [DOMAIN y -> (-1 .. MaxVersion) \cup S!WorldFile]
    BY <2>2, <2>3
  <2>5. QED
    BY <2>2, <2>3, <2>4 DEF FolderOK, S!Folder
<1>5. disk' = [disk EXCEPT ![d] = y] /\ DOMAIN y \subseteq DOMAIN disk[d]
  BY <1>1
<1> HIDE DEF y
<1>6. Filed' /\ Kept' /\ Vouched'
  <2>1. "meta.data" \in DOMAIN y /\ y["meta.data"] # S!Torn => d \in torn'
    BY <1>2, <1>5
  <2>2. DOMAIN saved' = S!Dirs /\ saved'[d] = None /\ \A e \in S!Dirs : e # d => saved'[e] = saved[e]
    BY <1>2 DEF Kept
  <2>3. QED
    BY <1>2, <1>4, <1>5, <2>1, <2>2, FolderChanges
<1>7. QED
  BY <1>2, <1>6, GamesRestarted

\* What is known while files are written.
LEMMA WritingParts ==
  ASSUME S!SavedGamesAssumption, SavedGamesInv, saving.step # "idle"
  PROVE  /\ saving.dir \in S!Dirs /\ saved[saving.dir] = None /\ disk[saving.dir] # None
         /\ FolderOK (disk[saving.dir]) /\ "meta.data" \notin DOMAIN disk[saving.dir]
         /\ Written (disk[saving.dir]) /\ world.loaded # saving.dir
         /\ DOMAIN saved = S!Dirs
<1>1. /\ saving.dir \in S!Dirs /\ saved[saving.dir] = None /\ disk[saving.dir] # None
      /\ "meta.data" \notin DOMAIN disk[saving.dir]
      /\ Written (disk[saving.dir]) /\ world.loaded # saving.dir
  BY DEF SavedGamesInv, Writing
<1>2. FolderOK (disk[saving.dir])
  BY <1>1 DEF SavedGamesInv, Filed
<1>3. DOMAIN saved = S!Dirs
  BY DEF SavedGamesInv, Kept
<1>4. QED
  BY <1>1, <1>2, <1>3

LEMMA StillToDo ==
  ASSUME NEW r \in S!Saving, NEW left \in Seq (STRING)
  PROVE  /\ [r EXCEPT !.todo = left] \in S!Saving /\ [r EXCEPT !.todo = left].step = r.step
         /\ [r EXCEPT !.todo = left].dir = r.dir /\ [r EXCEPT !.todo = left].todo = left
BY DEF S!Saving

LEMMA NextStep ==
  ASSUME NEW r \in S!Saving, NEW step \in {"idle", "files", "world", "lost", "meta", "failed"}
  PROVE  /\ [r EXCEPT !.step = step] \in S!Saving /\ [r EXCEPT !.step = step].step = step
         /\ [r EXCEPT !.step = step].dir = r.dir /\ [r EXCEPT !.step = step].todo = r.todo
BY DEF S!Saving

\* Save goes on in the directory, and what it has written is y.
LEMMA StillWriting ==
  ASSUME NEW y, saving.dir \in S!Dirs, saving'.dir = saving.dir, disk'[saving.dir] = y, disk'[saving.dir] # None,
         "meta.data" \notin DOMAIN y, world' = world, world.loaded # saving.dir, saved'[saving.dir] = None,
         saving'.step = "files" => HoldsSome (y, world, saving'.todo),
         saving'.step = "world" => HoldsSome (y, world, <<>>) /\ world.area \in Map
                                   /\ world.area \in DOMAIN y /\ y[world.area] = world.content,
         saving'.step = "meta" => Holds (y, world) /\ world.area \in Map
  PROVE  Writing'
<1>1. /\ saving'.step = "files" => HoldsSome (disk'[saving'.dir], world', saving'.todo)
      /\ saving'.step = "world" => HoldsSome (disk'[saving'.dir], world', <<>>) /\ world'.area \in Map
           /\ world'.area \in DOMAIN disk'[saving'.dir] /\ disk'[saving'.dir][world'.area] = world'.content
      /\ saving'.step = "meta" => Holds (disk'[saving'.dir], world') /\ world'.area \in Map
  OBVIOUS
<1>2. Written (disk[saving.dir])'
  BY <1>1 DEF Written
<1>3. QED
  BY <1>2 DEF Writing

\* A directory in which there is no game changes; the game in memory does not.
LEMMA FileWritten ==
  ASSUME S!SavedGamesAssumption, SavedGamesInv, saving.step # "idle", NEW y, FolderOK (y),
         "meta.data" \in DOMAIN y => y["meta.data"] = S!Torn, disk' = [disk EXCEPT ![saving.dir] = y],
         UNCHANGED <<saved, torn>>
  PROVE  /\ Filed' /\ Kept' /\ Vouched' /\ disk'[saving.dir] = y /\ disk'[saving.dir] # None
         /\ saved'[saving.dir] = None
         /\ UNCHANGED <<games, search, world>> /\ saving' \in S!Saving =>
              ProgramOK' /\ Recorded (games') /\ Loaded'
         /\ games' = games /\ saving'.step # "idle" /\ saving'.dir = saving.dir => Offered'
<1>d. PICK d : d = saving.dir
  OBVIOUS
<1>1. /\ d \in S!Dirs /\ DOMAIN saved' = S!Dirs /\ saved'[d] = None
      /\ \A e \in S!Dirs : e # d => saved'[e] = saved[e]
      /\ disk' = [disk EXCEPT ![d] = y]
      /\ Filed /\ Kept /\ Vouched /\ Offered
  BY <1>d, WritingParts DEF SavedGamesInv
<1>2. torn' \cup {d} = torn \cup {d}
  OBVIOUS
<1>3. Filed' /\ Kept' /\ Vouched' /\ disk'[d] = y /\ disk'[d] # None /\ saved'[d] = None
  <2>1. "meta.data" \in DOMAIN y /\ y["meta.data"] # S!Torn => d \in torn'
    OBVIOUS
  <2>2. QED
    BY <1>1, <1>2, <2>1, FolderChanges
<1>4. ASSUME UNCHANGED <<games, search, world>>, saving' \in S!Saving
      PROVE  ProgramOK' /\ Recorded (games') /\ Loaded'
  BY <1>4 DEF SavedGamesInv, ProgramOK, Loaded, S!IsAGame, S!NewGame
<1>5. ASSUME games' = games, saving'.step # "idle", saving'.dir = d
      PROVE  Offered'
  <2>1. \A e \in S!Dirs \cup {S!NoDirectory} : Sound (e) => Sound (e)'
    BY <1>1, <1>2, <1>5, <1>d, SoundElsewhere
  <2>2. QED
    BY <1>1, <1>5, <2>1, OfferedSame
<1>6. QED
  BY <1>3, <1>4, <1>5, <1>d

\* A serializer writes its file.
LEMMA FileWrites ==
  ASSUME S!SavedGamesAssumption, SavedGamesInv, S!WriteFile
  PROVE  SavedGamesInv'
<1> DEFINE d == saving.dir
           p == Head (saving.todo)
           x == disk[d]
<1>1. /\ saving.step = "files" /\ saving.todo # <<>>
      /\ saving' = [saving EXCEPT !.todo = Tail (saving.todo)]
      /\ UNCHANGED <<games, slot, search, world, saved, torn>>
  BY DEF S!WriteFile, S!historyVars
<1>2. disk' = [disk EXCEPT ![d] = WithFile (x, p, world.data[p])]
  BY DEF S!WriteFile, S!Write, WithFile
<1>3. /\ d \in S!Dirs /\ FolderOK (x) /\ "meta.data" \notin DOMAIN x /\ HoldsSome (x, world, saving.todo)
      /\ saving \in S!Saving /\ world \in S!World /\ world.loaded # d
  BY <1>1, WritingParts DEF SavedGamesInv, ProgramOK, Written
<1>4. saving.todo \in Seq (PlainFile)
  BY <1>3 DEF HoldsSome
<1>5. /\ p \in PlainFile /\ p = saving.todo[1] /\ Tail (saving.todo) \in Seq (PlainFile)
      /\ Len (saving.todo) \in Nat /\ DOMAIN saving.todo = 1 .. Len (saving.todo)
      /\ DOMAIN Tail (saving.todo) = 1 .. Len (saving.todo) - 1
      /\ \A i \in 1 .. Len (saving.todo) - 1 : Tail (saving.todo)[i] = saving.todo[i + 1]
  BY <1>1, <1>4
<1>6. p \in S!File /\ p # "world.data" /\ p # "meta.data"
  BY <1>5, SavedGamesConstants
<1>7. world.data[p] \in -1 .. MaxVersion
  <2>1. world.data[p] \in 0 .. MaxVersion
    BY <1>3, <1>5, WorldParts
  <2>2. QED
    BY <2>1, SavedGamesConstants
<1>p. x = disk[d] /\ p = Head (saving.todo)
  OBVIOUS
<1> HIDE DEF p, x
<1> DEFINE y == WithFile (x, p, world.data[p])
<1>8. /\ FolderOK (y) /\ DOMAIN y = DOMAIN x \cup {p} /\ y[p] = world.data[p]
      /\ \A g \in DOMAIN x : g # p => y[g] = x[g]
  <2> DEFINE v == world.data[p]
  <2>1. FolderOK (x) /\ p \in S!File /\ IF p = "world.data" THEN v \in S!WorldFile ELSE v \in -1 .. MaxVersion
    BY <1>3, <1>6, <1>7
  <2> HIDE DEF v
  <2>2. FolderOK (WithFile (x, p, v))
    BY <2>1, FolderWith
  <2>3. /\ DOMAIN WithFile (x, p, v) = DOMAIN x \cup {p} /\ WithFile (x, p, v)[p] = v
        /\ \A g \in DOMAIN x : g # p => WithFile (x, p, v)[g] = x[g]
    BY DEF WithFile
  <2>4. QED
    BY <2>2, <2>3 DEF v
<1>9. Tail (saving.todo) \in Seq (STRING)
  <2>1. PlainFile \subseteq STRING
    BY SavedGamesConstants
  <2> DEFINE rest == Tail (saving.todo)
  <2>2. rest \in Seq (PlainFile)
    BY <1>5
  <2> HIDE DEF rest
  <2>3. rest \in Seq (STRING)
    BY <2>1, <2>2, SeqOfMore
  <2>4. QED
    BY <2>3 DEF rest
<1>10. saving' \in S!Saving /\ saving'.step = "files" /\ saving'.dir = d /\ saving'.todo = Tail (saving.todo)
  BY <1>1, <1>3, <1>9, StillToDo
<1>11. HoldsSome (y, world, Tail (saving.todo))
  <2>1. ASSUME NEW q \in PlainFile
        PROVE  \/ \E i \in DOMAIN Tail (saving.todo) : Tail (saving.todo)[i] = q
               \/ q \in DOMAIN y /\ y[q] = world.data[q]
    <3>1. CASE q = p
      BY <1>8, <3>1
    <3>2. CASE q # p /\ q \in DOMAIN x /\ x[q] = world.data[q]
      BY <1>8, <3>2
    <3>3. ASSUME NEW i \in DOMAIN saving.todo, saving.todo[i] = q, q # p
          PROVE  \E k \in DOMAIN Tail (saving.todo) : Tail (saving.todo)[k] = q
      <4>1. i \in 2 .. Len (saving.todo)
        BY <1>5, <3>3
      <4>2. i - 1 \in 1 .. Len (saving.todo) - 1 /\ Tail (saving.todo)[i - 1] = saving.todo[i]
        BY <1>5, <4>1
      <4>3. QED
        BY <1>5, <3>3, <4>2
    <3>4. QED
      BY <1>3, <3>1, <3>2, <3>3 DEF HoldsSome
  <2>2. QED
    BY <1>5, <2>1 DEF HoldsSome
<1> HIDE DEF y
<1>12. "meta.data" \notin DOMAIN y
  BY <1>3, <1>6, <1>8
<1>13. disk' = [disk EXCEPT ![saving.dir] = y]
  BY <1>2 DEF y
<1>14. /\ Filed' /\ Kept' /\ Vouched' /\ disk'[d] = y /\ disk'[d] # None /\ saved'[d] = None
       /\ ProgramOK' /\ Recorded (games') /\ Loaded' /\ Offered'
  BY <1>1, <1>8, <1>10, <1>12, <1>13, FileWritten
<1>15. Writing'
  BY <1>1, <1>3, <1>10, <1>11, <1>12, <1>14, StillWriting
<1>16. QED
  BY <1>14, <1>15 DEF SavedGamesInv

\* The area manager writes the map.
LEMMA MapWrites ==
  ASSUME S!SavedGamesAssumption, SavedGamesInv, S!WriteMap
  PROVE  SavedGamesInv'
<1> DEFINE d == saving.dir
           x == disk[d]
           a == world.area
           y == WithFile (x, a, world.content)
<1>1. /\ saving.step = "files" /\ saving.todo = <<>> /\ a # None
      /\ saving' = [saving EXCEPT !.step = "world"]
      /\ UNCHANGED <<games, slot, search, world, saved, torn>>
  BY DEF S!WriteMap, S!historyVars
<1>2. disk' = [disk EXCEPT ![d] = y]
  BY DEF S!WriteMap, S!CopyTaintedMaps, WithFile
<1>3. /\ d \in S!Dirs /\ FolderOK (x) /\ "meta.data" \notin DOMAIN x /\ HoldsSome (x, world, saving.todo)
      /\ saving \in S!Saving /\ world \in S!World /\ world.loaded # d
  BY <1>1, WritingParts DEF SavedGamesInv, ProgramOK, Written
<1>4. a \in Map /\ world.content \in 0 .. MaxVersion
  BY <1>1, <1>3, WorldParts
<1>5. /\ a # "world.data" /\ a # "meta.data" /\ a \notin PlainFile /\ a \in S!File /\ MaxVersion \in Nat
  BY <1>4, SavedGamesConstants
<1>6. world.content \in -1 .. MaxVersion
  BY <1>4, <1>5
<1>7. /\ FolderOK (y) /\ DOMAIN y = DOMAIN x \cup {a} /\ y[a] = world.content
      /\ \A g \in DOMAIN x : g # a => y[g] = x[g]
  <2> DEFINE v == world.content
  <2>1. FolderOK (x) /\ a \in S!File /\ IF a = "world.data" THEN v \in S!WorldFile ELSE v \in -1 .. MaxVersion
    BY <1>3, <1>5, <1>6
  <2> HIDE DEF v, a, x
  <2>2. QED
    BY <2>1, FolderWith DEF v
<1>8. a = world.area
  OBVIOUS
<1> HIDE DEF y, a, x
<1>9. HoldsSome (y, world, <<>>)
  <2>1. \A p \in PlainFile : p \in DOMAIN x /\ x[p] = world.data[p]
    <3>1. DOMAIN saving.todo = {}
      BY <1>1
    <3>2. QED
      BY <1>3, <3>1 DEF HoldsSome
  <2>2. \A p \in PlainFile : p \in DOMAIN y /\ y[p] = world.data[p]
    BY <1>5, <1>7, <2>1
  <2>3. QED
    BY <2>2 DEF HoldsSome
<1>10. "meta.data" \notin DOMAIN y
  BY <1>3, <1>5, <1>7
<1>11. saving' \in S!Saving /\ saving'.step = "world" /\ saving'.dir = d
  BY <1>1, <1>3, NextStep
<1>12. /\ Filed' /\ Kept' /\ Vouched' /\ disk'[d] = y /\ disk'[d] # None /\ saved'[d] = None
       /\ ProgramOK' /\ Recorded (games') /\ Loaded' /\ Offered'
  BY <1>1, <1>2, <1>7, <1>10, <1>11, FileWritten
<1>13. Writing'
  <2>1. HoldsSome (y, world, <<>>) /\ world.area \in Map /\ world.area \in DOMAIN y /\ y[world.area] = world.content
    BY <1>4, <1>7, <1>8, <1>9
  <2>2. QED
    BY <1>1, <1>3, <1>10, <1>11, <1>12, <2>1, StillWriting
<1>14. QED
  BY <1>12, <1>13 DEF SavedGamesInv

\* Then it writes its own file.
LEMMA WorldWrites ==
  ASSUME S!SavedGamesAssumption, SavedGamesInv, S!WriteWorld
  PROVE  SavedGamesInv'
<1> DEFINE d == saving.dir
           x == disk[d]
           stored == [area |-> world.area, tainted |-> world.tainted]
           y == WithFile (x, "world.data", stored)
           step == IF saving.step = "world" THEN "meta" ELSE "failed"
<1>1. /\ saving.step \in {"world", "lost"}
      /\ saving' = [saving EXCEPT !.step = step]
      /\ UNCHANGED <<games, slot, search, world, saved, torn>>
  BY DEF S!WriteWorld, S!historyVars
<1>2. disk' = [disk EXCEPT ![d] = y]
  BY DEF S!WriteWorld, S!Write, WithFile
<1>3. /\ d \in S!Dirs /\ FolderOK (x) /\ "meta.data" \notin DOMAIN x /\ Written (x)
      /\ saving \in S!Saving /\ world \in S!World /\ world.loaded # d
  BY <1>1, WritingParts DEF SavedGamesInv, ProgramOK
<1>4. stored \in S!WorldFile
  <2>1. world.area \in Map \cup {None} /\ world.tainted \subseteq Map
    BY <1>3, WorldParts
  <2>2. QED
    BY <2>1 DEF S!WorldFile
<1>5. /\ "world.data" \in S!File /\ "world.data" \notin Map /\ \A p \in PlainFile : p # "world.data"
  BY SavedGamesConstants
<1>6. stored = [area |-> world.area, tainted |-> world.tainted]
  OBVIOUS
<1> HIDE DEF stored, x
<1>7. /\ FolderOK (y) /\ DOMAIN y = DOMAIN x \cup {"world.data"} /\ y["world.data"] = stored
      /\ \A g \in DOMAIN x : g # "world.data" => y[g] = x[g]
  BY <1>3, <1>4, <1>5, FolderWith
<1> HIDE DEF y
<1>8. "meta.data" \notin DOMAIN y
  BY <1>3, <1>7
<1>9. /\ saving' \in S!Saving /\ saving'.step = step /\ saving'.dir = d
      /\ step # "idle" /\ (step = "meta" => saving.step = "world") /\ step \in {"meta", "failed"}
  <2>1. step \in {"idle", "files", "world", "lost", "meta", "failed"} /\ step \in {"meta", "failed"}
        /\ (step = "meta" => saving.step = "world")
    OBVIOUS
  <2> HIDE DEF step
  <2>2. saving' \in S!Saving /\ saving'.step = step /\ saving'.dir = saving.dir
    BY <1>1, <1>3, <2>1, NextStep
  <2>3. QED
    BY <2>1, <2>2
<1>10. /\ Filed' /\ Kept' /\ Vouched' /\ disk'[d] = y /\ disk'[d] # None /\ saved'[d] = None
       /\ ProgramOK' /\ Recorded (games') /\ Loaded' /\ Offered'
  BY <1>1, <1>2, <1>7, <1>8, <1>9, FileWritten
<1>11. ASSUME saving.step = "world"
       PROVE  Holds (y, world) /\ world.area \in Map
  <2>1. /\ HoldsSome (x, world, <<>>) /\ world.area \in Map /\ world.area \in DOMAIN x
        /\ x[world.area] = world.content
    BY <1>3, <1>11 DEF Written
  <2>2. \A p \in PlainFile : p \in DOMAIN x /\ x[p] = world.data[p]
    BY <2>1 DEF HoldsSome
  <2>3. QED
    BY <1>5, <1>6, <1>7, <2>1, <2>2 DEF Holds
<1>12. Writing'
  <2>1. saving'.step \in {"meta", "failed"} /\ (saving'.step = "meta" => Holds (y, world) /\ world.area \in Map)
    BY <1>9, <1>11
  <2>2. QED
    BY <1>1, <1>3, <1>8, <1>9, <1>10, <2>1, StillWriting
<1>13. QED
  BY <1>10, <1>12 DEF SavedGamesInv

\* The file that is written next may be torn.
LEMMA TornFile ==
  ASSUME S!SavedGamesAssumption, SavedGamesInv, saving.step \in {"files", "world", "lost", "meta"},
         S!NextFile # None
  PROVE  \E y : /\ FolderOK (y) /\ ("meta.data" \in DOMAIN y => y["meta.data"] = S!Torn)
                /\ saving.step # "meta" => "meta.data" \notin DOMAIN y
                /\ S!WriteTorn (saving.dir, S!NextFile) = [disk EXCEPT ![saving.dir] = y]
<1> DEFINE f == S!NextFile
           x == disk[saving.dir]
           v == IF f = "world.data" THEN S!TornWorld ELSE S!Torn
           y == WithFile (x, f, v)
<1>1. FolderOK (x) /\ "meta.data" \notin DOMAIN x /\ Written (x) /\ world \in S!World
  BY WritingParts DEF SavedGamesInv, ProgramOK
<1>2. f \in S!File /\ (f = "meta.data" => saving.step = "meta")
  <2>1. CASE saving.step = "files" /\ saving.todo # <<>>
    <3>1. f = Head (saving.todo) /\ saving.todo \in Seq (PlainFile)
      BY <1>1, <2>1 DEF S!NextFile, Written, HoldsSome
    <3>2. f \in PlainFile
      BY <2>1, <3>1
    <3>3. QED
      BY <3>2, SavedGamesConstants
  <2>2. CASE saving.step = "files" /\ saving.todo = <<>>
    <3>1. f = world.area /\ world.area \in Map \cup {None}
      BY <1>1, <2>2, WorldParts DEF S!NextFile
    <3>2. QED
      BY <3>1, SavedGamesConstants
  <2>3. CASE saving.step # "files"
    <3>1. f = IF saving.step = "meta" THEN "meta.data" ELSE "world.data"
      BY <2>3 DEF S!NextFile
    <3>2. QED
      BY <3>1, SavedGamesConstants
  <2>4. QED
    BY <2>1, <2>2, <2>3
<1>3. IF f = "world.data" THEN v \in S!WorldFile ELSE v \in -1 .. MaxVersion
  <2>1. S!TornWorld \in S!WorldFile
    BY DEF S!TornWorld, S!WorldFile
  <2>2. S!Torn \in -1 .. MaxVersion
    BY SavedGamesConstants DEF S!Torn
  <2>3. QED
    BY <2>1, <2>2
<1>4. S!WriteTorn (saving.dir, f) = [disk EXCEPT ![saving.dir] = y]
  BY DEF S!WriteTorn, S!Write, WithFile
<1>v. f = "meta.data" => v = S!Torn
  OBVIOUS
<1> HIDE DEF f, v, x
<1>5. /\ FolderOK (y) /\ DOMAIN y = DOMAIN x \cup {f} /\ y[f] = v
  <2>1. FolderOK (x) /\ f \in S!File /\ IF f = "world.data" THEN v \in S!WorldFile ELSE v \in -1 .. MaxVersion
    BY <1>1, <1>2, <1>3
  <2>2. PICK z, g, w : z = x /\ g = f /\ w = v
    OBVIOUS
  <2>3. FolderOK (z) /\ g \in S!File /\ IF g = "world.data" THEN w \in S!WorldFile ELSE w \in -1 .. MaxVersion
    BY <2>1, <2>2
  <2>4. /\ FolderOK (WithFile (z, g, w))
        /\ DOMAIN WithFile (z, g, w) = DOMAIN z \cup {g} /\ WithFile (z, g, w)[g] = w
    <3>1. FolderOK (WithFile (z, g, w))
      BY <2>3, FolderWith
    <3>2. QED
      BY <3>1 DEF WithFile
  <2>5. y = WithFile (z, g, w)
    BY <2>2 DEF y
  <2>6. QED
    BY <2>2, <2>4, <2>5
<1> HIDE DEF y
<1>6. "meta.data" \in DOMAIN y => f = "meta.data"
  BY <1>1, <1>5
<1>7. "meta.data" \in DOMAIN y => y["meta.data"] = S!Torn
  BY <1>5, <1>6, <1>v
<1>8. saving.step # "meta" => "meta.data" \notin DOMAIN y
  BY <1>2, <1>6
<1>9. QED
  BY <1>4, <1>5, <1>7, <1>8 DEF f

\* A file cannot be written.
LEMMA WritingFails ==
  ASSUME S!SavedGamesAssumption, SavedGamesInv, S!WriteFails
  PROVE  SavedGamesInv'
<1> DEFINE d == saving.dir
           step == IF saving.step = "files" /\ saving.todo = <<>> /\ world.area # None THEN "lost" ELSE "failed"
<1>1. /\ saving.step \in {"files", "world", "lost"} /\ saving' = [saving EXCEPT !.step = step]
      /\ UNCHANGED <<games, slot, search, world, saved, torn>>
      /\ \/ disk' = disk
         \/ disk' = S!WriteTorn (d, S!NextFile) /\ S!NextFile # None
  BY DEF S!WriteFails, S!historyVars
<1>2. /\ d \in S!Dirs /\ FolderOK (disk[d]) /\ "meta.data" \notin DOMAIN disk[d] /\ world.loaded # d
      /\ saving \in S!Saving
  BY <1>1, WritingParts DEF SavedGamesInv, ProgramOK
<1>3. step \in {"lost", "failed"} /\ step \in {"idle", "files", "world", "lost", "meta", "failed"}
  OBVIOUS
<1> HIDE DEF step
<1>4. /\ saving' \in S!Saving /\ saving'.step \in {"lost", "failed"} /\ saving'.dir = d
  <2>1. saving' \in S!Saving /\ saving'.step = step /\ saving'.dir = saving.dir
    BY <1>1, <1>2, <1>3, NextStep
  <2>2. QED
    BY <1>3, <2>1
<1>5. \E y : FolderOK (y) /\ "meta.data" \notin DOMAIN y /\ disk' = [disk EXCEPT ![d] = y]
  <2>1. CASE disk' = disk
    <3>1. disk = [disk EXCEPT ![d] = disk[d]]
      BY <1>2 DEF SavedGamesInv, Filed
    <3>2. QED
      BY <1>2, <2>1, <3>1
  <2>2. CASE disk' = S!WriteTorn (d, S!NextFile) /\ S!NextFile # None
    <3>1. saving.step \in {"files", "world", "lost", "meta"} /\ saving.step # "meta"
      BY <1>1
    <3>2. QED
      BY <2>2, <3>1, TornFile
  <2>3. QED
    BY <1>1, <2>1, <2>2
<1>6. PICK y : FolderOK (y) /\ "meta.data" \notin DOMAIN y /\ disk' = [disk EXCEPT ![d] = y]
  BY <1>5
<1>7. /\ Filed' /\ Kept' /\ Vouched' /\ disk'[d] = y /\ disk'[d] # None /\ saved'[d] = None
      /\ ProgramOK' /\ Recorded (games') /\ Loaded' /\ Offered'
  BY <1>1, <1>4, <1>6, FileWritten
<1>8. Writing'
  <2>1. Written (y)'
    BY <1>4 DEF Written
  <2>2. QED
    BY <1>1, <1>2, <1>4, <1>6, <1>7, <2>1 DEF Writing
<1>9. QED
  BY <1>7, <1>8 DEF SavedGamesInv

\* Save gives up: its directory is empty.
LEMMA SaveGivesUp ==
  ASSUME S!SavedGamesAssumption, SavedGamesInv, S!GiveUp
  PROVE  SavedGamesInv'
<1>d. PICK d : d = saving.dir
  OBVIOUS
<1>1. /\ saving.step = "failed" /\ saving' = S!Idle /\ UNCHANGED <<games, slot, search, world, saved, torn>>
      /\ disk' = [disk EXCEPT ![d] = <<>>]
  BY <1>d DEF S!GiveUp, S!historyVars
<1>2. FolderOK (<<>>) /\ "meta.data" \notin DOMAIN <<>> /\ DOMAIN <<>> = {}
  BY EmptyFolder
<1>3. saving' \in S!Saving /\ saving'.step = "idle"
  BY <1>1, NothingYet
<1>4. Filed' /\ Kept' /\ Vouched' /\ ProgramOK' /\ Recorded (games') /\ Loaded' /\ disk'[d] = <<>>
  <2> DEFINE none == <<>>
  <2>1. /\ saving.step # "idle" /\ FolderOK (none) /\ ("meta.data" \in DOMAIN none => none["meta.data"] = S!Torn)
        /\ disk' = [disk EXCEPT ![saving.dir] = none] /\ UNCHANGED <<saved, torn>>
    BY <1>1, <1>2, <1>d
  <2> HIDE DEF none
  <2>2. /\ Filed' /\ Kept' /\ Vouched' /\ disk'[saving.dir] = none
        /\ UNCHANGED <<games, search, world>> /\ saving' \in S!Saving =>
              ProgramOK' /\ Recorded (games') /\ Loaded'
    BY <2>1, FileWritten
  <2>3. QED
    BY <1>1, <1>3, <1>d, <2>2 DEF none
<1>5. Writing'
  BY <1>3 DEF Writing
<1>6. Offered'
  <2>1. Sound (d)'
    <3>1. \A f : f \notin DOMAIN disk'[d]
      BY <1>2, <1>4
    <3>2. QED
      BY <3>1 DEF Sound, NoFiles, S!Has
  <2>2. ASSUME NEW e \in S!Dirs \cup {S!NoDirectory}, e # d, Sound (e)
        PROVE  Sound (e)'
    <3>1. CASE e \in S!Range (UserDirs)
      <4>1. e \in S!Dirs
        BY <3>1 DEF S!Dirs
      <4>2. disk'[e] = disk[e] /\ saved'[e] = saved[e] /\ (e \in torn' <=> e \in torn)
        BY <1>1, <2>2, <4>1 DEF SavedGamesInv, Filed
      <4>3. NoFiles (e) => NoFiles (e)'
        BY <4>2 DEF NoFiles, S!Has, S!Exists
      <4>4. QED
        BY <1>1, <1>d, <2>2, <4>2, <4>3 DEF Sound
    <3>2. CASE e \notin S!Range (UserDirs)
      BY <3>2 DEF Sound
    <3>3. QED
      BY <3>1, <3>2
  <2>3. \A e \in S!Dirs \cup {S!NoDirectory} : Sound (e) => Sound (e)'
    BY <2>1, <2>2
  <2>4. QED
    BY <1>1, <2>3, OfferedSame DEF SavedGamesInv
<1>7. QED
  BY <1>4, <1>5, <1>6 DEF SavedGamesInv

\* The program ends while a file is written.
LEMMA WriteCrashes ==
  ASSUME S!SavedGamesAssumption, SavedGamesInv, S!CrashInWrite
  PROVE  SavedGamesInv'
<1>1. /\ saving.step \in {"files", "world", "lost", "meta"} /\ S!NextFile # None /\ S!Restarted
      /\ UNCHANGED <<saved, torn>> /\ disk' = S!WriteTorn (saving.dir, S!NextFile)
  BY DEF S!CrashInWrite, S!historyVars
<1>2. PICK y : /\ FolderOK (y) /\ ("meta.data" \in DOMAIN y => y["meta.data"] = S!Torn)
               /\ disk' = [disk EXCEPT ![saving.dir] = y]
  BY <1>1, TornFile
<1>3. Filed' /\ Kept' /\ Vouched'
  BY <1>1, <1>2, FileWritten
<1>4. QED
  BY <1>1, <1>3, GamesRestarted

\* With meta.data the directory counts as a game.
LEMMA MetaWrites ==
  ASSUME S!SavedGamesAssumption, SavedGamesInv, S!WriteMeta
  PROVE  SavedGamesInv'
<1>d. PICK d : d = saving.dir
  OBVIOUS
<1> DEFINE x == disk[d]
           w == [world EXCEPT !.loaded = d]
<1>1. /\ saving.step = "meta" /\ saving' = S!Idle /\ UNCHANGED <<search, world, torn>>
      /\ saved' = [saved EXCEPT ![d] = w]
      /\ world \in S!World /\ Recorded (games) /\ Filed /\ Kept /\ Vouched /\ Loaded /\ ProgramOK /\ Offered
  BY <1>d DEF S!WriteMeta, SavedGamesInv, ProgramOK
<1>2. d \in S!Dirs /\ x # None /\ world.area \in Map /\ Holds (x, world) /\ FolderOK (x) /\ world.loaded # d
  BY <1>1, <1>d DEF SavedGamesInv, Writing, Written, Filed
<1>3. /\ disk' = [disk EXCEPT ![d] = WithFile (x, "meta.data", 0)] \/ disk' = [disk EXCEPT ![d] = x]
         \/ disk' = [disk EXCEPT ![d] = WithFile (x, "meta.data", -1)]
  <2>1. disk = [disk EXCEPT ![d] = x]
    BY <1>1, <1>2 DEF Filed
  <2>2. QED
    BY <1>d, <2>1 DEF S!WriteMeta, S!WriteTorn, S!Write, S!Torn, WithFile
<1>4. /\ "meta.data" \in S!File /\ 0 \in -1 .. MaxVersion /\ -1 \in -1 .. MaxVersion /\ "meta.data" # "world.data"
      /\ \A p \in PlainFile : p # "meta.data"
      /\ "meta.data" \notin Map
  BY SavedGamesConstants
<1> HIDE DEF x
<1>5. \E y : /\ disk' = [disk EXCEPT ![d] = y] /\ FolderOK (y) /\ DOMAIN x \subseteq DOMAIN y
             /\ \A g \in DOMAIN x : g # "meta.data" => y[g] = x[g]
  <2>1. \A v \in -1 .. MaxVersion : FolderOK (WithFile (x, "meta.data", v))
    BY <1>2, <1>4, FolderWith
  <2>2. \A v : /\ DOMAIN x \subseteq DOMAIN WithFile (x, "meta.data", v)
              /\ \A g \in DOMAIN x : g # "meta.data" => WithFile (x, "meta.data", v)[g] = x[g]
    BY DEF WithFile
  <2>3. QED
    BY <1>2, <1>3, <1>4, <2>1, <2>2
<1>y. PICK y : /\ disk' = [disk EXCEPT ![d] = y] /\ FolderOK (y) /\ DOMAIN x \subseteq DOMAIN y
              /\ \A g \in DOMAIN x : g # "meta.data" => y[g] = x[g]
  BY <1>5
<1>6. /\ world.data \in [PlainFile -> 0 .. MaxVersion] /\ world.content \in 0 .. MaxVersion
      /\ world.tainted \in SUBSET Map /\ world.loaded \in S!Dirs \cup {None}
      /\ world = [data |-> world.data, area |-> world.area, content |-> world.content,
                  tainted |-> world.tainted, loaded |-> world.loaded]
  BY <1>1, WorldParts
<1>7. w = [data |-> world.data, area |-> world.area, content |-> world.content,
           tainted |-> world.tainted, loaded |-> d]
  BY <1>6
<1>8. w \in S!World
  BY <1>2, <1>6, <1>7, WorldOf
<1>9. /\ w.loaded = d /\ w.data = world.data /\ w.area = world.area /\ w.content = world.content
      /\ w.tainted = world.tainted
  BY <1>7
<1> HIDE DEF w
<1>10. Holds (y, w)
  BY <1>2, <1>4, <1>y, <1>9 DEF Holds
<1>11. y # None /\ w # None
  BY <1>y, <1>8, FolderIsSome, SavedGamesConstants
<1>12. /\ DOMAIN disk' = S!Dirs /\ disk'[d] = y /\ \A e \in S!Dirs : e # d => disk'[e] = disk[e]
       /\ DOMAIN saved' = S!Dirs /\ saved'[d] = w /\ \A e \in S!Dirs : e # d => saved'[e] = saved[e]
  BY <1>1, <1>2, <1>y DEF Filed, Kept
<1>13. Filed'
  BY <1>1, <1>y, <1>12 DEF Filed
<1>14. Kept'
  BY <1>1, <1>2, <1>8, <1>9, <1>10, <1>11, <1>12 DEF Kept
<1>15. Vouched'
  <2>1. ASSUME NEW e \in S!Dirs, S!Valid (e)', e \notin torn', e # d
        PROVE  saved'[e] # None
    <3>1. S!Valid (e) /\ e \notin torn
      BY <1>1, <1>12, <2>1 DEF S!Valid, S!Has, S!Exists
    <3>2. QED
      BY <1>1, <1>12, <2>1, <3>1 DEF Vouched
  <2>2. QED
    BY <1>11, <1>12, <2>1 DEF Vouched
<1>16. Loaded'
  <2>1. ASSUME world.loaded # None
        PROVE  world.loaded \in S!Dirs /\ saved'[world.loaded] = saved[world.loaded]
    BY <1>2, <1>6, <1>12, <2>1
  <2>2. QED
    BY <1>1, <2>1 DEF Loaded, S!IsAGame, S!NewGame
<1>17. Recorded (games')
  <2> DEFINE u == S!User (games)
             g == S!Special (games)
             T == [dir : S!Dirs \cup {S!NoDirectory}, at : 0 .. Len (UserDirs)]
  <2>1. PICK v \in S!Ordered (S!Range (u)) : games' = g \o v
    BY DEF S!WriteMeta, S!Sorted
  <2>2. games \in Seq (T) /\ Len (games) \in Nat /\ Len (games) >= 3
        /\ \A i \in 2 .. Len (games) : games[i].dir \in S!Dirs
    BY <1>1 DEF Recorded
  <2> HIDE DEF T
  <2>3. /\ g \in Seq (T) /\ Len (g) = 3 /\ \A i \in 1 .. 3 : g[i] = games[i]
        /\ u \in Seq (T) /\ Len (u) = Len (games) - 3 /\ \A i \in 1 .. Len (games) - 3 : u[i] = games[i + 3]
    <3>1. g = SubSeq (games, 1, 3) /\ u = SubSeq (games, 4, Len (games))
      BY DEF S!User, S!Special, S!SPECIAL_SLOT_COUNT
    <3> HIDE DEF g, u
    <3>2. /\ \A i \in 1 .. 3 : games[i] \in T
          /\ \A i \in 4 .. Len (games) : games[i] \in T
      BY <2>2
    <3>3. g = [i \in 1 .. 3 |-> games[i]]
      BY <2>2, <3>1
    <3>4. u = [i \in 1 .. Len (games) - 3 |-> games[i + 3]]
      BY <2>2, <3>1
    <3>5. g \in [1 .. 3 -> T] /\ u \in [1 .. Len (games) - 3 -> T] /\ Len (games) - 3 \in Nat
      BY <2>2, <3>2, <3>3, <3>4
    <3> DEFINE n == Len (games) - 3
    <3>6. g \in [1 .. 3 -> T] /\ u \in [1 .. n -> T] /\ n \in Nat /\ n = Len (games) - 3
      BY <3>5
    <3> HIDE DEF n
    <3>7. g \in Seq (T) /\ u \in Seq (T)
      <4>1. \A k \in Nat : \A f \in [1 .. k -> T] : f \in Seq (T)
        BY SeqDef
      <4>2. QED
        BY <3>6, <4>1
    <3>8. Len (g) = 3 /\ Len (u) = Len (games) - 3
      BY <3>6, <3>7
    <3>9. QED
      BY <3>3, <3>4, <3>7, <3>8
  <2>4. \A i \in 2 .. 3 : g[i].dir \in S!Dirs
    BY <2>2, <2>3
  <2>5. Recorded (g)
    BY <2>3, <2>4 DEF Recorded, T
  <2>6. S!Range (u) \subseteq Record
    <3>1. ASSUME NEW i \in 1 .. Len (games) - 3
          PROVE  u[i] \in Record
      <4>1. i + 3 \in 2 .. Len (games)
        BY <2>2, <3>1
      <4>2. u[i] \in T /\ u[i].dir \in S!Dirs
        BY <2>2, <2>3, <4>1
      <4>3. QED
        BY <4>2 DEF T, Record
    <3>2. S!Range (u) = {u[i] : i \in 1 .. Len (games) - 3}
      <4>1. DOMAIN u = 1 .. Len (games) - 3
        BY <2>2, <2>3
      <4> HIDE DEF u
      <4>2. QED
        BY <4>1 DEF S!Range
    <3>3. QED
      BY <3>1, <3>2
  <2> HIDE DEF g, u
  <2>7. QED
    BY <2>1, <2>5, <2>6, RecordsAfter DEF Record
<1>18. ProgramOK' /\ Writing'
  BY <1>1, NothingYet DEF ProgramOK, Writing
<1>19. Offered'
  <2>1. SoundDirs \subseteq SoundDirs'
    <3>1. ASSUME NEW e \in S!Dirs \cup {S!NoDirectory}, Sound (e)
          PROVE  Sound (e)'
      <4>1. CASE e \in S!Range (UserDirs) /\ e # d
        <5>1. e \in S!Dirs
          BY <4>1 DEF S!Dirs
        <5>2. disk'[e] = disk[e] /\ saved'[e] = saved[e] /\ (e \in torn' <=> e \in torn)
          BY <1>1, <1>12, <4>1, <5>1
        <5>3. NoFiles (e) => NoFiles (e)'
          BY <5>2 DEF NoFiles, S!Has, S!Exists
        <5>4. QED
          BY <1>d, <3>1, <4>1, <5>2, <5>3 DEF Sound
      <4>2. CASE e \notin S!Range (UserDirs)
        BY <4>2 DEF Sound
      <4>3. CASE e = d
        BY <1>11, <1>12, <4>3 DEF Sound
      <4>4. QED
        BY <4>1, <4>2, <4>3
    <3>2. QED
      BY <3>1, MoreSound
  <2> DEFINE T == RecordsOf (SoundDirs')
             g == S!Special (games)
             u == S!User (games)
  <2>2. RecordsOf (SoundDirs) \subseteq T
    BY <2>1 DEF RecordsOf
  <2> HIDE DEF T
  <2>3. games \in Seq (T)
    BY <1>1, <2>2, SeqOfMore DEF Offered
  <2>4. Len (games) \in Nat /\ Len (games) >= 3
    BY <1>1 DEF Recorded
  <2>5. g \in Seq (T) /\ S!Range (u) \subseteq T
    <3>1. g = SubSeq (games, 1, 3) /\ u = SubSeq (games, 4, Len (games))
      BY DEF S!User, S!Special, S!SPECIAL_SLOT_COUNT
    <3> HIDE DEF g, u
    <3>2. g \in Seq (T) /\ u \in Seq (T)
      BY <2>3, <2>4, <3>1
    <3>3. S!Range (u) = {u[i] : i \in 1 .. Len (u)}
      BY <3>2 DEF S!Range
    <3>4. QED
      BY <3>2, <3>3
  <2>6. PICK v \in S!Ordered (S!Range (u)) : games' = g \o v
    BY DEF S!WriteMeta, S!Sorted
  <2> HIDE DEF g, u
  <2>7. games' \in Seq (T)
    BY <2>5, <2>6, OfferedAfter DEF T
  <2>8. QED
    BY <2>7 DEF Offered, T, RecordsOf
<1>20. QED
  BY <1>13, <1>14, <1>15, <1>16, <1>17, <1>18, <1>19 DEF SavedGamesInv

LEMMA SavedGamesNext ==
  ASSUME S!SavedGamesAssumption, SavedGamesInv, S!Next
  PROVE  SavedGamesInv'
<1>1. CASE S!Restart
  BY <1>1, FoldersSame, GamesRestarted DEF S!Restart, S!historyVars, SavedGamesInv
<1>2. CASE S!CrashInWrite
  BY <1>2, WriteCrashes
<1>3. CASE S!Play
  BY <1>3, GamePlays
<1>4. ASSUME NEW s \in -3 .. Len (UserDirs), S!Load (s)
      PROVE  SavedGamesInv'
  BY <1>4, GameLoads
<1>5. ASSUME NEW s \in SaveSlots, S!BeginSave (s)
      PROVE  SavedGamesInv'
  BY <1>5, SaveBegins
<1>6. ASSUME NEW d \in S!Dirs, S!CrashInCleanup (d)
      PROVE  SavedGamesInv'
  BY <1>6, CleanupCrashes
<1>7. ASSUME NEW m \in Map, S!SetActiveMap (m)
      PROVE  SavedGamesInv'
  BY <1>7, GameChangesMap
<1>8. CASE S!WriteFile
  BY <1>8, FileWrites
<1>9. CASE S!WriteMap
  BY <1>9, MapWrites
<1>10. CASE S!WriteWorld
  BY <1>10, WorldWrites
<1>11. CASE S!WriteFails
  BY <1>11, WritingFails
<1>12. CASE S!GiveUp
  BY <1>12, SaveGivesUp
<1>13. CASE S!WriteMeta
  BY <1>13, MetaWrites
<1>14. QED
  BY <1>1, <1>2, <1>3, <1>4, <1>5, <1>6, <1>7, <1>8, <1>9, <1>10, <1>11, <1>12, <1>13 DEF S!Next

LEMMA SavedGamesSame ==
  ASSUME SavedGamesInv, UNCHANGED savedGamesVars
  PROVE  SavedGamesInv'
<1>1. UNCHANGED <<disk, games, search, world, saving, saved, torn>>
  BY DEF savedGamesVars
<1>2. Filed' /\ Kept' /\ Vouched'
  BY <1>1, FoldersSame DEF SavedGamesInv
<1>3. ProgramOK' /\ Recorded (games') /\ Loaded'
  BY <1>1 DEF SavedGamesInv, ProgramOK, Loaded, S!IsAGame, S!NewGame
<1>4. Writing'
  BY <1>1 DEF SavedGamesInv, Writing, Written, Holds, HoldsSome
<1>5. Offered'
  <2>1. \A d \in S!Dirs \cup {S!NoDirectory} : Sound (d) => Sound (d)'
    BY <1>1 DEF Sound, NoFiles, S!Has, S!Exists
  <2>2. QED
    BY <1>1, <2>1, OfferedSame DEF SavedGamesInv
<1>6. QED
  BY <1>2, <1>3, <1>4, <1>5 DEF SavedGamesInv

LEMMA SavedGamesRestore ==
  ASSUME S!SavedGamesAssumption, SavedGamesInv
  PROVE  S!TypeOK /\ S!LoadRestores /\ S!ValidIsComplete
<1>1. ProgramOK /\ Filed /\ Kept /\ Vouched /\ Loaded
  BY DEF SavedGamesInv
<1>2. S!TypeOK
  BY <1>1 DEF S!TypeOK, ProgramOK, Filed, FolderOK
<1>3. ASSUME NEW d \in S!Dirs, S!Valid (d), d \notin torn
      PROVE  /\ saved[d] # None
             /\ \A p \in S!Range (Plain) : S!Has (d, p) /\ disk[d][p] = saved[d].data[p]
             /\ S!Has (d, "world.data") /\ disk[d]["world.data"].area = saved[d].area
             /\ S!Has (d, saved[d].area) /\ disk[d][saved[d].area] = saved[d].content
  <2>1. disk[d] # None /\ \A f \in DOMAIN disk[d] : S!Has (d, f)
    BY <1>3 DEF S!Valid, S!Has, S!Exists
  <2>2. saved[d] # None
    BY <1>1, <1>3 DEF Vouched
  <2>3. Holds (disk[d], saved[d])
    BY <1>1, <2>2 DEF Kept
  <2>4. QED
    BY <2>1, <2>2, <2>3 DEF Holds, PlainFile
<1>4. S!ValidIsComplete
  BY <1>3 DEF S!ValidIsComplete
<1>5. S!LoadRestores
  <2> SUFFICES ASSUME world.loaded \notin torn \cup {None}
               PROVE  /\ S!Valid (world.loaded) => world = saved[world.loaded]
                      /\ world.loaded \in S!Range (UserDirs) => S!IsAGame (world)
    BY DEF S!LoadRestores
  <2>1. world.loaded \in S!Dirs
    BY <1>1, WorldParts DEF ProgramOK
  <2>2. QED
    BY <1>1, <2>1 DEF Loaded, Vouched
<1>6. QED
  BY <1>2, <1>4, <1>5

\* Whatever was played, saved over, interrupted and loaded before, a directory
\* that counts as a saved game has all the files of the game that was saved last
\* in it, which is what a load brings back; and nothing else that a record for
\* one of the user's directories leads to is a mixture of games: for any
\* serializers and maps with files of their own, any number of directories and
\* any number of crashes, in any file (savegame.cc, area_manager.cc).
THEOREM SavedGamesRestored == Spec => []LoadRestores
<1> DEFINE Inv == scene = "games" => SavedGamesInv
<1>1. Init => Inv
  BY SavedGamesAssumption, SavedGamesInit DEF Init
<1>2. Inv /\ [Next]_vars => Inv'
  <2> SUFFICES ASSUME Inv, [Next]_vars, scene' = "games"
               PROVE  SavedGamesInv'
    OBVIOUS
  <2>1. CASE SavedGamesStep
    BY <2>1, SavedGamesAssumption, SavedGamesNext DEF SavedGamesStep
  <2>2. CASE scene' = scene /\ UNCHANGED savedGamesVars
    BY <2>2, SavedGamesSame
  <2>3. QED
    BY <2>1, <2>2 DEF Next, vars, SavedGamesStep, ConfigurationStep, ApplicationStep, SoundsStep,
                      InputDevicesStep, SpritesStep
<1>3. Inv => LoadRestores
  BY SavedGamesAssumption, SavedGamesRestore DEF LoadRestores
<1>4. QED
  BY <1>1, <1>2, <1>3, PTL DEF Spec


-----------------------------------------------------------------------------
(***************************************************************************)
(* Keyboard, mouse and joystick. Events are queued by the system and polled *)
(* once per frame; until then what is heard is behind what the hands do,   *)
(* and the events in the queue make up the difference.                     *)
(***************************************************************************)

\* The actions, and the control the mapping has for each of them.
Acts == I!Range (Actions)

Mapped ==
  /\ config \in Configs
  /\ \A x \in I!Control : \A a \in Acts : mapping[x] = a <=> I!Wanted (a) = x

AboutControl (e, x) == "control" \in DOMAIN e /\ e.control = x
AboutAxis (e, a) == "axis" \in DOMAIN e /\ e.axis = a

\* What the last event about a control that is still queued says of it is so,
\* and if there is none that is what is heard.
HandsKnown (a, x) ==
  /\ (\A i \in DOMAIN queue : ~ AboutControl (queue[i], x)) => (a \in heard <=> x \in held)
  /\ \A i \in DOMAIN queue :
       AboutControl (queue[i], x) /\ (\A j \in DOMAIN queue : i < j => ~ AboutControl (queue[j], x))
         => (queue[i].pushed <=> x \in held)

Held ==
  \A a \in Acts, x \in Scancode \cup Button :
    I!Translated (x) = I!Wanted (a) /\ I!Wanted (a) \notin I!Direction \cup {KeyTrans[CapsLock]}
      => HandsKnown (a, x)

\* Actions steered by an axis follow the table.
Steered == \A a \in Acts : I!Wanted (a) \in I!Direction => (a \in heard <=> I!Wanted (a) \in table)

SameSide (u, v) == ~ (u < 0 /\ v > 0) /\ ~ (u > 0 /\ v < 0)

\* The table shows an axis that is at p.
Shows (a, p) ==
  /\ p <= 0 => Back[a] \notin table
  /\ p >= 0 => Fore[a] \notin table
  /\ p = -2 => Fore[a] \in table
  /\ p = 2 => Back[a] \in table

\* Of the events about an axis one is the first, or the last, or k is next to i.
FirstOf (a, i) == AboutAxis (queue[i], a) /\ \A j \in DOMAIN queue : j < i => ~ AboutAxis (queue[j], a)
LastOf (a, i) == AboutAxis (queue[i], a) /\ \A j \in DOMAIN queue : i < j => ~ AboutAxis (queue[j], a)
NextOf (a, i, k) ==
  /\ AboutAxis (queue[i], a) /\ AboutAxis (queue[k], a) /\ i < k
  /\ \A j \in DOMAIN queue : i < j /\ j < k => ~ AboutAxis (queue[j], a)

\* From p the events that are queued lead an axis to where it is, without going
\* from one side to the other at once.
Leads (a, p) ==
  /\ (\A i \in DOMAIN queue : ~ AboutAxis (queue[i], a)) => p = axis[a]
  /\ \A i \in DOMAIN queue : FirstOf (a, i) => SameSide (p, queue[i].value)
  /\ \A i \in DOMAIN queue : LastOf (a, i) => queue[i].value = axis[a]
  /\ \A i, k \in DOMAIN queue : NextOf (a, i, k) => SameSide (queue[i].value, queue[k].value)

Turned == \A a \in Axis : \E p \in -2 .. 2 : Shows (a, p) /\ Leads (a, p)

InputInv == I!TypeOK /\ Mapped /\ Held /\ Steered /\ Turned

LEMMA EventShapes ==
  \A e \in I!DeviceEvent :
    /\ "control" \in DOMAIN e =>
         e.control \in Scancode \cup Button /\ e.pushed \in BOOLEAN /\ "axis" \notin DOMAIN e
    /\ "axis" \in DOMAIN e => e.axis \in Axis /\ e.value \in -2 .. 2 /\ "control" \notin DOMAIN e
<1> DEFINE CE == [control : Scancode \cup Button, pushed : BOOLEAN, modified : BOOLEAN]
           AE == [axis : Axis, value : -2 .. 2]
<1>1. \A e \in CE : /\ DOMAIN e = {"control", "pushed", "modified"}
                    /\ e.control \in Scancode \cup Button /\ e.pushed \in BOOLEAN
  OBVIOUS
<1>2. \A e \in AE : DOMAIN e = {"axis", "value"} /\ e.axis \in Axis /\ e.value \in -2 .. 2
  OBVIOUS
<1>3. I!DeviceEvent = CE \cup AE
  BY DEF I!DeviceEvent
<1> HIDE DEF CE, AE
<1>4. QED
  BY <1>1, <1>2, <1>3

LEMMA ControlEvents ==
  ASSUME NEW x \in Scancode \cup Button, NEW b \in BOOLEAN, NEW m \in BOOLEAN
  PROVE  LET e == [control |-> x, pushed |-> b, modified |-> m]
         IN /\ e \in I!DeviceEvent /\ "control" \in DOMAIN e /\ "axis" \notin DOMAIN e
            /\ e.control = x /\ e.pushed = b
BY DEF I!DeviceEvent

LEMMA AxisEvents ==
  ASSUME NEW a \in Axis, NEW v \in -2 .. 2
  PROVE  LET e == [axis |-> a, value |-> v]
         IN /\ e \in I!DeviceEvent /\ "axis" \in DOMAIN e /\ "control" \notin DOMAIN e
            /\ e.axis = a /\ e.value = v
BY DEF I!DeviceEvent

LEMMA QueueGrows ==
  ASSUME queue \in Seq (I!DeviceEvent), NEW e \in I!DeviceEvent, queue' = Append (queue, e)
  PROVE  /\ Len (queue) \in Nat /\ DOMAIN queue = 1 .. Len (queue)
         /\ queue' \in Seq (I!DeviceEvent) /\ DOMAIN queue' = 1 .. Len (queue) + 1
         /\ \A i \in 1 .. Len (queue) : queue'[i] = queue[i]
         /\ queue'[Len (queue) + 1] = e
<1> DEFINE t == Append (queue, e)
<1>1. /\ Len (queue) \in Nat /\ DOMAIN queue = 1 .. Len (queue)
      /\ t \in Seq (I!DeviceEvent) /\ DOMAIN t = 1 .. Len (queue) + 1
      /\ \A i \in 1 .. Len (queue) : t[i] = queue[i]
      /\ t[Len (queue) + 1] = e
  BY AppendProperties, LenProperties
<1>2. QED
  BY <1>1

LEMMA QueueShrinks ==
  ASSUME queue \in Seq (I!DeviceEvent), queue # <<>>, queue' = Tail (queue)
  PROVE  /\ Len (queue) \in Nat \ {0} /\ DOMAIN queue = 1 .. Len (queue)
         /\ queue' \in Seq (I!DeviceEvent) /\ DOMAIN queue' = 1 .. Len (queue) - 1
         /\ \A i \in 1 .. Len (queue) - 1 : queue'[i] = queue[i + 1]
         /\ Head (queue) = queue[1] /\ Head (queue) \in I!DeviceEvent
<1> DEFINE t == Tail (queue)
<1>1. /\ Len (queue) \in Nat \ {0} /\ DOMAIN queue = 1 .. Len (queue)
      /\ Head (queue) = queue[1] /\ Head (queue) \in I!DeviceEvent
      /\ t \in Seq (I!DeviceEvent) /\ Len (t) = Len (queue) - 1
      /\ \A i \in 1 .. Len (t) : t[i] = queue[i + 1]
  BY HeadTailProperties, LenProperties, EmptySeq
<1>2. DOMAIN t = 1 .. Len (t)
  BY <1>1, LenProperties
<1> HIDE DEF t
<1>3. QED
  BY <1>1, <1>2 DEF t

\* A press or release of any key is queued.
LEMMA HandsGoOn ==
  ASSUME queue \in Seq (I!DeviceEvent), NEW e \in I!DeviceEvent, queue' = Append (queue, e),
         NEW a, NEW x, HandsKnown (a, x), heard' = heard,
         IF AboutControl (e, x) THEN e.pushed <=> x \in held' ELSE x \in held' <=> x \in held
  PROVE  HandsKnown (a, x)'
<1> DEFINE n == Len (queue)
<1>1. /\ n \in Nat /\ DOMAIN queue = 1 .. n /\ DOMAIN queue' = 1 .. n + 1
      /\ \A i \in 1 .. n : queue'[i] = queue[i]
      /\ queue'[n + 1] = e
  BY QueueGrows
<1> HIDE DEF n
<1>2. \A i \in 1 .. n + 1 : i \in 1 .. n \/ i = n + 1
  BY <1>1
<1>3. n + 1 \in 1 .. n + 1 /\ \A i \in 1 .. n : i \in 1 .. n + 1 /\ i < n + 1
  BY <1>1
<1>4. CASE AboutControl (e, x)
  <2>1. ~ \A i \in DOMAIN queue' : ~ AboutControl (queue'[i], x)
    BY <1>1, <1>3, <1>4
  <2>2. ASSUME NEW i \in DOMAIN queue', \A j \in DOMAIN queue' : i < j => ~ AboutControl (queue'[j], x)
        PROVE  i = n + 1
    BY <1>1, <1>2, <1>3, <1>4, <2>2
  <2>3. \A i \in DOMAIN queue' :
          AboutControl (queue'[i], x) /\ (\A j \in DOMAIN queue' : i < j => ~ AboutControl (queue'[j], x))
            => (queue'[i].pushed <=> x \in held')
    BY <1>1, <1>4, <2>2
  <2>4. QED
    BY <2>1, <2>3 DEF HandsKnown, AboutControl
<1>5. CASE ~ AboutControl (e, x)
  <2>1. (\A i \in DOMAIN queue' : ~ AboutControl (queue'[i], x)) => \A i \in DOMAIN queue : ~ AboutControl (queue[i], x)
    BY <1>1, <1>3
  <2>2. ASSUME NEW i \in DOMAIN queue', AboutControl (queue'[i], x),
               \A j \in DOMAIN queue' : i < j => ~ AboutControl (queue'[j], x)
        PROVE  queue'[i].pushed <=> x \in held'
    <3>1. i \in DOMAIN queue /\ queue'[i] = queue[i]
      BY <1>1, <1>2, <1>5, <2>2
    <3>2. \A j \in DOMAIN queue : i < j => ~ AboutControl (queue[j], x)
      BY <1>1, <1>3, <2>2
    <3>3. QED
      BY <1>5, <2>2, <3>1, <3>2 DEF HandsKnown
  <2>3. QED
    BY <1>5, <2>1, <2>2 DEF HandsKnown, AboutControl
<1>6. QED
  BY <1>4, <1>5

\* An event is polled.
LEMMA HandsPolled ==
  ASSUME queue \in Seq (I!DeviceEvent), queue # <<>>, queue' = Tail (queue), held' = held,
         NEW a, NEW x, HandsKnown (a, x),
         IF AboutControl (Head (queue), x) THEN a \in heard' <=> Head (queue).pushed
         ELSE a \in heard' <=> a \in heard
  PROVE  HandsKnown (a, x)'
<1> DEFINE n == Len (queue)
<1>1. /\ n \in Nat \ {0} /\ DOMAIN queue = 1 .. n /\ DOMAIN queue' = 1 .. n - 1
      /\ \A i \in 1 .. n - 1 : queue'[i] = queue[i + 1]
      /\ Head (queue) = queue[1]
  BY QueueShrinks
<1> HIDE DEF n
<1>2. \A i \in 1 .. n : i = 1 \/ (i - 1 \in 1 .. n - 1 /\ (i - 1) + 1 = i)
  BY <1>1
<1>3. 1 \in 1 .. n /\ \A i \in 1 .. n - 1 : i + 1 \in 1 .. n /\ 1 < i + 1
  BY <1>1
<1>4. \A i \in 1 .. n - 1 : \A j \in 1 .. n : i + 1 < j => j - 1 \in 1 .. n - 1 /\ i < j - 1 /\ (j - 1) + 1 = j
  BY <1>1
<1>5. ASSUME \A i \in DOMAIN queue' : ~ AboutControl (queue'[i], x)
      PROVE  a \in heard' <=> x \in held'
  <2>1. \A i \in 1 .. n : i # 1 => ~ AboutControl (queue[i], x)
    BY <1>1, <1>2, <1>5
  <2>2. \A i \in 1 .. n : 1 < i => ~ AboutControl (queue[i], x)
    BY <2>1
  <2>3. CASE AboutControl (Head (queue), x)
    <3>1. Head (queue).pushed <=> x \in held
      BY <1>1, <1>3, <2>2, <2>3 DEF HandsKnown
    <3>2. QED
      BY <2>3, <3>1
  <2>4. CASE ~ AboutControl (Head (queue), x)
    BY <1>1, <2>1, <2>4 DEF HandsKnown
  <2>5. QED
    BY <2>3, <2>4
<1>6. ASSUME NEW i \in DOMAIN queue', AboutControl (queue'[i], x),
             \A j \in DOMAIN queue' : i < j => ~ AboutControl (queue'[j], x)
      PROVE  queue'[i].pushed <=> x \in held'
  <2>1. i + 1 \in DOMAIN queue /\ queue'[i] = queue[i + 1]
    BY <1>1, <1>3
  <2>2. \A j \in DOMAIN queue : i + 1 < j => ~ AboutControl (queue[j], x)
    BY <1>1, <1>4, <1>6
  <2>3. QED
    BY <1>6, <2>1, <2>2 DEF HandsKnown
<1>7. QED
  BY <1>5, <1>6 DEF HandsKnown, AboutControl

\* Each setting gives an action just one control, and no control to two.
LEMMA OneControl ==
  ASSUME I!InputDevicesAssumption, I!Unambiguous, config \in Configs
  PROVE  /\ \A a \in Acts : I!Wanted (a) \in I!Control /\ I!Range (I!Names (a, config)) = {I!Wanted (a)}
         /\ \A a, b \in Acts : I!Wanted (a) = I!Wanted (b) => a = b
         /\ \A a \in Acts, k, l \in Scancode : KeyTrans[k] = I!Wanted (a) /\ KeyTrans[l] = I!Wanted (a) => k = l
<1>1. ASSUME NEW a \in Acts
      PROVE  I!Wanted (a) \in I!Control /\ I!Wanted (a) \in I!Range (I!Names (a, config))
  <2>1. Default[a] \in I!Control
    BY <1>1 DEF I!InputDevicesAssumption, I!Control, Acts
  <2>2. config[a] \in Seq (I!Control \cup {"unknown"})
    BY <1>1 DEF I!InputDevicesAssumption, Acts
  <2>3. CASE config[a] = <<>>
    <3>1. I!Names (a, config) = <<Default[a]>> /\ I!Wanted (a) = Default[a]
      BY <2>3 DEF I!Names, I!Wanted
    <3>2. QED
      BY <2>1, <3>1 DEF I!Range
  <2>4. CASE config[a] # <<>>
    <3>1. Len (config[a]) \in Nat \ {0} /\ DOMAIN config[a] = 1 .. Len (config[a])
      BY <2>2, <2>4, EmptySeq, LenProperties
    <3>2. 1 \in DOMAIN config[a]
      BY <3>1
    <3>3. config[a][1] \in I!Control \cup {"unknown"}
      BY <2>2, <3>1, <3>2, ElementOfSeq
    <3>4. I!Names (a, config) = [i \in DOMAIN config[a] |-> IF config[a][i] = "unknown" THEN Default[a] ELSE config[a][i]]
      BY <2>4 DEF I!Names
    <3>5. 1 \in DOMAIN I!Names (a, config) /\ I!Names (a, config)[1] = I!Wanted (a)
      BY <2>4, <3>2, <3>4 DEF I!Wanted
    <3>6. I!Wanted (a) \in I!Control
      BY <2>1, <2>4, <3>3 DEF I!Wanted
    <3>7. QED
      BY <3>5, <3>6 DEF I!Range
  <2>5. QED
    BY <2>3, <2>4
<1>2. \A a, b \in Acts :
        /\ \A x, y \in I!Range (I!Names (a, config)) : x = y
        /\ a # b => I!Range (I!Names (a, config)) \cap I!Range (I!Names (b, config)) = {}
        /\ \A k, l \in Scancode : KeyTrans[k] = KeyTrans[l] /\ KeyTrans[k] \in I!Range (I!Names (a, config)) => k = l
  BY DEF I!Unambiguous, Acts
<1>3. \A a \in Acts : I!Range (I!Names (a, config)) = {I!Wanted (a)}
  BY <1>1, <1>2
<1>4. QED
  BY <1>1, <1>2, <1>3

\* So the mapping gives a control to an action just when it is the one wanted.
LEMMA ControlsMapped ==
  ASSUME I!InputDevicesAssumption, I!Unambiguous, config \in Configs, mapping = I!MapControls (config)
  PROVE  Mapped /\ mapping \in [I!Control -> Acts \cup {None}]
<1> DEFINE takers (x) == {i \in DOMAIN Actions : x \in I!Range (I!Names (Actions[i], config))}
<1>1. /\ \A a \in Acts : I!Wanted (a) \in I!Control /\ I!Range (I!Names (a, config)) = {I!Wanted (a)}
      /\ \A a, b \in Acts : I!Wanted (a) = I!Wanted (b) => a = b
  BY OneControl
<1>2. Acts = {Actions[i] : i \in DOMAIN Actions} /\ None \notin Acts
      /\ (\A i, j \in DOMAIN Actions : Actions[i] = Actions[j] => i = j)
      /\ \A i \in DOMAIN Actions : i \in Nat
  <2>1. /\ None \notin Acts /\ Actions \in Seq (STRING)
        /\ \A i, j \in DOMAIN Actions : Actions[i] = Actions[j] => i = j
    BY DEF I!InputDevicesAssumption, Acts
  <2>2. \A i \in DOMAIN Actions : i \in Nat
    BY <2>1, LenProperties
  <2>3. QED
    BY <2>1, <2>2 DEF Acts, I!Range
<1>3. \A x : takers (x) = {i \in DOMAIN Actions : I!Wanted (Actions[i]) = x}
  BY <1>1, <1>2
<1>4. ASSUME NEW x \in I!Control
      PROVE  mapping[x] = IF takers (x) = {} THEN None ELSE Actions[I!Max (takers (x))]
  BY <1>4 DEF I!MapControls
<1>5. ASSUME NEW i \in DOMAIN Actions
      PROVE  I!Max ({i}) = i
  BY <1>2, <1>5 DEF I!Max
<1> HIDE DEF takers
<1>6. ASSUME NEW x \in I!Control
      PROVE  mapping[x] \in Acts \cup {None} /\ \A a \in Acts : mapping[x] = a <=> I!Wanted (a) = x
  <2>1. CASE takers (x) = {}
    BY <1>2, <1>3, <1>4, <2>1
  <2>2. CASE takers (x) # {}
    <3>1. PICK i \in DOMAIN Actions : i \in takers (x) /\ I!Wanted (Actions[i]) = x
      BY <1>3, <2>2
    <3>2. \A j \in takers (x) : j = i
      BY <1>1, <1>2, <1>3, <3>1
    <3>3. takers (x) = {i}
      BY <3>1, <3>2
    <3>4. mapping[x] = Actions[i] /\ Actions[i] \in Acts
      BY <1>2, <1>4, <1>5, <2>2, <3>1, <3>3
    <3>5. QED
      BY <1>1, <3>1, <3>4
  <2>3. QED
    BY <2>1, <2>2
<1>7. mapping = [x \in I!Control |-> mapping[x]]
  BY DEF I!MapControls
<1>8. QED
  BY <1>6, <1>7 DEF Mapped

\* An axis moves, or another event is queued.
LEMMA LeadsGoOn ==
  ASSUME queue \in Seq (I!DeviceEvent), NEW e \in I!DeviceEvent, queue' = Append (queue, e),
         NEW a, NEW p, Leads (a, p),
         IF AboutAxis (e, a) THEN e.value = axis'[a] /\ SameSide (axis[a], e.value) ELSE axis'[a] = axis[a]
  PROVE  Leads (a, p)'
<1> DEFINE n == Len (queue)
           Earliest (i) == AboutAxis (queue'[i], a) /\ \A j \in DOMAIN queue' : j < i => ~ AboutAxis (queue'[j], a)
           Latest (i) == AboutAxis (queue'[i], a) /\ \A j \in DOMAIN queue' : i < j => ~ AboutAxis (queue'[j], a)
           Following (i, k) ==
             /\ AboutAxis (queue'[i], a) /\ AboutAxis (queue'[k], a) /\ i < k
             /\ \A j \in DOMAIN queue' : i < j /\ j < k => ~ AboutAxis (queue'[j], a)
<1>1. /\ n \in Nat /\ DOMAIN queue = 1 .. n /\ DOMAIN queue' = 1 .. n + 1
      /\ \A i \in 1 .. n : queue'[i] = queue[i]
      /\ queue'[n + 1] = e
  BY QueueGrows
<1> HIDE DEF n
<1>2. \A i \in 1 .. n + 1 : i \in 1 .. n \/ i = n + 1
  BY <1>1
<1>3. n + 1 \in 1 .. n + 1 /\ \A i \in 1 .. n : i \in 1 .. n + 1 /\ i < n + 1 /\ ~ (n + 1 < i)
  BY <1>1
<1>4. ~ (n + 1 < n + 1) /\ \A i, k \in 1 .. n + 1 : i < k => i \in 1 .. n
  BY <1>1
<1>5. ASSUME \A i \in DOMAIN queue' : ~ AboutAxis (queue'[i], a)
      PROVE  p = axis'[a]
  <2>1. ~ AboutAxis (e, a) /\ \A i \in DOMAIN queue : ~ AboutAxis (queue[i], a)
    BY <1>1, <1>3, <1>5
  <2>2. QED
    BY <2>1 DEF Leads
<1>6. ASSUME NEW i \in DOMAIN queue', Earliest (i)
      PROVE  SameSide (p, queue'[i].value)
  <2>1. CASE i \in 1 .. n
    <3>1. FirstOf (a, i)
      BY <1>1, <1>3, <1>6, <2>1 DEF FirstOf
    <3>2. QED
      BY <1>1, <2>1, <3>1 DEF Leads
  <2>2. CASE i = n + 1
    <3>1. \A j \in DOMAIN queue : ~ AboutAxis (queue[j], a)
      BY <1>1, <1>3, <1>6, <2>2
    <3>2. p = axis[a] /\ AboutAxis (e, a)
      BY <1>1, <1>6, <2>2, <3>1 DEF Leads
    <3>3. QED
      BY <1>1, <2>2, <3>2
  <2>3. QED
    BY <1>1, <1>2, <2>1, <2>2
<1>7. ASSUME NEW i \in DOMAIN queue', Latest (i)
      PROVE  queue'[i].value = axis'[a]
  <2>1. CASE AboutAxis (e, a)
    <3>1. i = n + 1
      BY <1>1, <1>2, <1>3, <1>7, <2>1
    <3>2. QED
      BY <1>1, <2>1, <3>1
  <2>2. CASE ~ AboutAxis (e, a)
    <3>1. i \in 1 .. n
      BY <1>1, <1>2, <1>7, <2>2
    <3>2. LastOf (a, i)
      BY <1>1, <1>3, <1>7, <3>1 DEF LastOf
    <3>3. QED
      BY <1>1, <2>2, <3>1, <3>2 DEF Leads
  <2>3. QED
    BY <2>1, <2>2
<1>8. ASSUME NEW i \in DOMAIN queue', NEW k \in DOMAIN queue', Following (i, k)
      PROVE  SameSide (queue'[i].value, queue'[k].value)
  <2>1. i \in 1 .. n
    BY <1>1, <1>4, <1>8
  <2>2. CASE k \in 1 .. n
    <3>1. NextOf (a, i, k)
      BY <1>1, <1>3, <1>8, <2>1, <2>2 DEF NextOf
    <3>2. QED
      BY <1>1, <2>1, <2>2, <3>1 DEF Leads
  <2>3. CASE k = n + 1
    <3>1. LastOf (a, i)
      BY <1>1, <1>3, <1>8, <2>1, <2>3 DEF LastOf
    <3>2. queue[i].value = axis[a] /\ AboutAxis (e, a)
      BY <1>1, <1>8, <2>1, <2>3, <3>1 DEF Leads
    <3>3. QED
      BY <1>1, <2>1, <2>3, <3>2
  <2>4. QED
    BY <1>1, <1>2, <2>2, <2>3
<1>9. QED
  BY <1>5, <1>6, <1>7, <1>8 DEF Leads, FirstOf, LastOf, NextOf, AboutAxis, SameSide

\* An event is polled: the table follows the axis by one event.
LEMMA LeadsPolled ==
  ASSUME queue \in Seq (I!DeviceEvent), queue # <<>>, queue' = Tail (queue), axis' = axis,
         NEW a, NEW p, Leads (a, p), NEW q, q = IF AboutAxis (Head (queue), a) THEN Head (queue).value ELSE p
  PROVE  Leads (a, q)'
<1> DEFINE n == Len (queue)
           Earliest (i) == AboutAxis (queue'[i], a) /\ \A j \in DOMAIN queue' : j < i => ~ AboutAxis (queue'[j], a)
           Latest (i) == AboutAxis (queue'[i], a) /\ \A j \in DOMAIN queue' : i < j => ~ AboutAxis (queue'[j], a)
           Following (i, k) ==
             /\ AboutAxis (queue'[i], a) /\ AboutAxis (queue'[k], a) /\ i < k
             /\ \A j \in DOMAIN queue' : i < j /\ j < k => ~ AboutAxis (queue'[j], a)
<1>1. /\ n \in Nat \ {0} /\ DOMAIN queue = 1 .. n /\ DOMAIN queue' = 1 .. n - 1
      /\ \A i \in 1 .. n - 1 : queue'[i] = queue[i + 1]
      /\ Head (queue) = queue[1]
  BY QueueShrinks
<1> HIDE DEF n
<1>2. \A j \in 1 .. n : j = 1 \/ \E m \in 1 .. n - 1 : j = m + 1 /\ queue'[m] = queue[j]
  <2> SUFFICES ASSUME NEW j \in 1 .. n, j # 1
               PROVE  \E m \in 1 .. n - 1 : j = m + 1 /\ queue'[m] = queue[j]
    OBVIOUS
  <2>1. j - 1 \in 1 .. n - 1 /\ j = (j - 1) + 1
    BY <1>1
  <2>2. QED
    BY <1>1, <2>1
<1>3. 1 \in 1 .. n /\ \A i \in 1 .. n - 1 : i + 1 \in 1 .. n /\ 1 < i + 1 /\ ~ (i + 1 < 1)
  BY <1>1
<1>4. /\ \A i, m \in 1 .. n - 1 : i + 1 < m + 1 <=> i < m
      /\ \A i \in 1 .. n - 1 : ~ (i + 1 < 1)
      /\ ~ (1 < 1)
  BY <1>1
<1>5. ASSUME NEW i \in DOMAIN queue', Latest (i)
      PROVE  queue'[i].value = axis[a]
  <2>1. \A j \in 1 .. n : i + 1 < j => ~ AboutAxis (queue[j], a)
    <3> SUFFICES ASSUME NEW j \in 1 .. n, i + 1 < j
                 PROVE  ~ AboutAxis (queue[j], a)
      OBVIOUS
    <3>1. PICK m \in 1 .. n - 1 : j = m + 1 /\ queue'[m] = queue[j]
      BY <1>1, <1>2, <1>4
    <3>2. QED
      BY <1>1, <1>4, <3>1, <1>5
  <2>2. LastOf (a, i + 1)
    BY <1>1, <1>3, <1>5, <2>1 DEF LastOf
  <2>3. QED
    BY <1>1, <1>3, <2>2 DEF Leads
<1>6. ASSUME NEW i \in DOMAIN queue', NEW k \in DOMAIN queue', Following (i, k)
      PROVE  SameSide (queue'[i].value, queue'[k].value)
  <2>1. \A j \in 1 .. n : i + 1 < j /\ j < k + 1 => ~ AboutAxis (queue[j], a)
    <3> SUFFICES ASSUME NEW j \in 1 .. n, i + 1 < j, j < k + 1
                 PROVE  ~ AboutAxis (queue[j], a)
      OBVIOUS
    <3>1. PICK m \in 1 .. n - 1 : j = m + 1 /\ queue'[m] = queue[j]
      BY <1>1, <1>2, <1>4
    <3>2. QED
      BY <1>1, <1>4, <3>1, <1>6
  <2>2. NextOf (a, i + 1, k + 1)
    BY <1>1, <1>3, <1>4, <1>6, <2>1 DEF NextOf
  <2>3. QED
    BY <1>1, <1>3, <2>2 DEF Leads
<1>7. CASE AboutAxis (Head (queue), a)
  <2>1. ASSUME \A i \in DOMAIN queue' : ~ AboutAxis (queue'[i], a)
        PROVE  q = axis[a]
    <3>1. \A j \in 1 .. n : 1 < j => ~ AboutAxis (queue[j], a)
      BY <1>1, <1>2, <1>4, <2>1
    <3>2. LastOf (a, 1)
      BY <1>1, <1>7, <3>1 DEF LastOf
    <3>3. QED
      BY <1>1, <1>3, <1>7, <3>2 DEF Leads
  <2>2. ASSUME NEW i \in DOMAIN queue', Earliest (i)
        PROVE  SameSide (q, queue'[i].value)
    <3>1. \A j \in 1 .. n : 1 < j /\ j < i + 1 => ~ AboutAxis (queue[j], a)
      <4> SUFFICES ASSUME NEW j \in 1 .. n, 1 < j, j < i + 1
                   PROVE  ~ AboutAxis (queue[j], a)
        OBVIOUS
      <4>1. PICK m \in 1 .. n - 1 : j = m + 1 /\ queue'[m] = queue[j]
        BY <1>1, <1>2, <1>4
      <4>2. QED
        BY <1>1, <1>4, <4>1, <2>2
    <3>2. NextOf (a, 1, i + 1)
      BY <1>1, <1>3, <1>7, <2>2, <3>1 DEF NextOf
    <3>3. QED
      BY <1>1, <1>3, <1>7, <3>2 DEF Leads
  <2>3. QED
    BY <1>5, <1>6, <1>7, <2>1, <2>2 DEF Leads, FirstOf, LastOf, NextOf, AboutAxis, SameSide
<1>8. CASE ~ AboutAxis (Head (queue), a)
  <2>1. ASSUME \A i \in DOMAIN queue' : ~ AboutAxis (queue'[i], a)
        PROVE  q = axis[a]
    <3>1. \A j \in 1 .. n : ~ AboutAxis (queue[j], a)
      BY <1>1, <1>2, <1>8, <2>1
    <3>2. QED
      BY <1>1, <1>8, <3>1 DEF Leads
  <2>2. ASSUME NEW i \in DOMAIN queue', Earliest (i)
        PROVE  SameSide (q, queue'[i].value)
    <3>1. \A j \in 1 .. n : j < i + 1 => ~ AboutAxis (queue[j], a)
      <4> SUFFICES ASSUME NEW j \in 1 .. n, j < i + 1, j # 1
                   PROVE  ~ AboutAxis (queue[j], a)
        BY <1>1, <1>8
      <4>1. PICK m \in 1 .. n - 1 : j = m + 1 /\ queue'[m] = queue[j]
        BY <1>1, <1>2, <1>4
      <4>2. QED
        BY <1>1, <1>4, <4>1, <2>2
    <3>2. FirstOf (a, i + 1)
      BY <1>1, <1>3, <2>2, <3>1 DEF FirstOf
    <3>3. QED
      BY <1>1, <1>3, <1>8, <3>2 DEF Leads
  <2>3. QED
    BY <1>5, <1>6, <1>8, <2>1, <2>2 DEF Leads, FirstOf, LastOf, NextOf, AboutAxis, SameSide
<1>9. QED
  BY <1>7, <1>8

LEMMA SettingsStay ==
  ASSUME UNCHANGED I!mappingVars
  PROVE  /\ \A a : I!Wanted (a)' = I!Wanted (a)
         /\ Mapped => Mapped'
         /\ mapping \in [I!Control -> Acts \cup {None}] => (mapping \in [I!Control -> Acts \cup {None}])'
<1>1. config' = config /\ mapping' = mapping
  BY DEF I!mappingVars
<1>2. \A a : I!Wanted (a)' = I!Wanted (a)
  BY <1>1 DEF I!Wanted
<1>3. Mapped => Mapped'
  BY <1>1, <1>2 DEF Mapped
<1>4. QED
  BY <1>1, <1>2, <1>3

\* A key or button says which action it is.
LEMMA ControlKnown ==
  ASSUME I!InputDevicesAssumption, I!Unambiguous, config \in Configs, NEW a \in Acts,
         NEW x \in Scancode \cup Button, I!Translated (x) = I!Wanted (a)
  PROVE  \A y \in Scancode \cup Button : I!Translated (y) = I!Wanted (a) => y = x
<1>1. /\ I!Wanted (a) \in I!Control
      /\ \A k, l \in Scancode : KeyTrans[k] = I!Wanted (a) /\ KeyTrans[l] = I!Wanted (a) => k = l
  BY OneControl
<1>2. /\ \A k \in Scancode : KeyTrans[k] \in I!Key \cup {"unknown"} /\ k \notin Button
      /\ I!Key \cap Button = {} /\ "unknown" \notin I!Control /\ Button \subseteq I!Control
  BY DEF I!InputDevicesAssumption, I!Control
<1>3. SUFFICES ASSUME NEW y \in Scancode \cup Button, I!Translated (y) = I!Wanted (a)
               PROVE  y = x
  OBVIOUS
<1>4. CASE x \in Scancode /\ y \in Scancode
  BY <1>1, <1>3, <1>4 DEF I!Translated
<1>5. CASE x \notin Scancode /\ y \notin Scancode
  BY <1>3, <1>5 DEF I!Translated
<1>6. CASE x \in Scancode /\ y \notin Scancode
  BY <1>1, <1>2, <1>3, <1>6 DEF I!Translated
<1>7. CASE x \notin Scancode /\ y \in Scancode
  BY <1>1, <1>2, <1>3, <1>7 DEF I!Translated
<1>8. QED
  BY <1>4, <1>5, <1>6, <1>7

\* What is heard when a control is pushed or released.
LEMMA HeardChanges ==
  ASSUME I!InputDevicesAssumption, I!Unambiguous, Mapped, NEW x, NEW b \in BOOLEAN
  PROVE  \A a \in Acts : a \in I!Heard (x, b) <=> IF I!Wanted (a) = x THEN b ELSE a \in heard
<1>1. \A a \in Acts : I!Wanted (a) \in I!Control
  BY OneControl DEF Mapped
<1>2. None \notin Acts
  BY DEF I!InputDevicesAssumption, Acts
<1>3. SUFFICES ASSUME NEW a \in Acts
               PROVE  a \in I!Heard (x, b) <=> IF I!Wanted (a) = x THEN b ELSE a \in heard
  OBVIOUS
<1>4. CASE I!Wanted (a) = x
  <2>1. x \in I!Control /\ mapping[x] = a /\ mapping[x] # None
    BY <1>1, <1>2, <1>4 DEF Mapped
  <2>2. QED
    BY <1>4, <2>1 DEF I!Heard
<1>5. CASE I!Wanted (a) # x
  <2>1. x \in I!Control => mapping[x] # a
    BY <1>5 DEF Mapped
  <2>2. QED
    BY <1>5, <2>1 DEF I!Heard
<1>6. QED
  BY <1>4, <1>5

LEMMA HeardKnown ==
  ASSUME mapping \in [I!Control -> Acts \cup {None}], heard \subseteq Acts, NEW x, NEW b
  PROVE  I!Heard (x, b) \subseteq Acts
BY DEF I!Heard

LEMMA DevicesInit ==
  ASSUME I!InputDevicesAssumption, I!Unambiguous, I!Init
  PROVE  InputInv
<1>1. Mapped /\ mapping \in [I!Control -> Acts \cup {None}]
  BY ControlsMapped DEF I!Init
<1>2. queue = <<>> /\ held = {} /\ table = {} /\ heard = {} /\ axis = [a \in Axis |-> 0] /\ DOMAIN queue = {}
  BY DEF I!Init
<1>3. I!TypeOK
  BY <1>1, <1>2, EmptySeq DEF I!TypeOK, Acts
<1>4. Held
  BY <1>2 DEF Held, HandsKnown
<1>5. Steered
  BY <1>2 DEF Steered
<1>6. \A a \in Axis : Shows (a, 0) /\ Leads (a, 0)
  BY <1>2 DEF Shows, Leads
<1>7. Turned
  BY <1>6 DEF Turned
<1>8. QED
  BY <1>1, <1>3, <1>4, <1>5, <1>7 DEF InputInv

\* A key or button is pressed or released.
LEMMA HandsMove ==
  ASSUME I!InputDevicesAssumption, I!Unambiguous, InputInv, NEW x \in Scancode \cup Button, NEW m \in BOOLEAN,
         I!PressControl (x, m) \/ I!ReleaseControl (x, m)
  PROVE  InputInv'
<1>1. PICK b \in BOOLEAN : /\ held' = IF b THEN held \cup {x} ELSE held \ {x}
                           /\ queue' = Append (queue, [control |-> x, pushed |-> b, modified |-> m])
  BY DEF I!PressControl, I!ReleaseControl
<1>2. UNCHANGED <<axis, table, heard>> /\ UNCHANGED I!mappingVars
  BY DEF I!PressControl, I!ReleaseControl
<1> DEFINE e == [control |-> x, pushed |-> b, modified |-> m]
<1>3. /\ e \in I!DeviceEvent /\ "control" \in DOMAIN e /\ "axis" \notin DOMAIN e
      /\ e.control = x /\ e.pushed = b
  BY ControlEvents
<1>4. queue' = Append (queue, e)
  BY <1>1
<1> HIDE DEF e
<1>5. /\ mapping \in [I!Control -> Acts \cup {None}] /\ held \subseteq Scancode \cup Button
      /\ axis \in [Axis -> -2 .. 2] /\ queue \in Seq (I!DeviceEvent)
      /\ table \subseteq I!Direction /\ heard \subseteq Acts
  BY DEF InputInv, I!TypeOK, Acts
<1>6. /\ \A a : I!Wanted (a)' = I!Wanted (a)
      /\ Mapped' /\ mapping' \in [I!Control -> Acts \cup {None}]
  BY <1>2, <1>5, SettingsStay DEF InputInv
<1>7. I!TypeOK'
  <2>1. queue' \in Seq (I!DeviceEvent)
    BY <1>3, <1>4, <1>5, QueueGrows
  <2>2. held' \subseteq Scancode \cup Button
    BY <1>1, <1>5
  <2>3. QED
    BY <1>2, <1>5, <1>6, <2>1, <2>2 DEF I!TypeOK, Acts
<1>8. Held'
  <2>1. ASSUME NEW a \in Acts, NEW y \in Scancode \cup Button, HandsKnown (a, y)
        PROVE  HandsKnown (a, y)'
    <3>1. IF AboutControl (e, y) THEN e.pushed <=> y \in held' ELSE y \in held' <=> y \in held
      BY <1>1, <1>3 DEF AboutControl
    <3>2. QED
      BY <1>2, <1>3, <1>4, <1>5, <2>1, <3>1, HandsGoOn
  <2>2. QED
    BY <1>6, <2>1 DEF InputInv, Held, Acts, I!Translated
<1>9. Steered'
  BY <1>2, <1>6 DEF InputInv, Steered, Acts
<1>10. Turned'
  <2>1. ASSUME NEW a \in Axis, NEW p \in -2 .. 2, Shows (a, p), Leads (a, p)
        PROVE  Shows (a, p)' /\ Leads (a, p)'
    <3>1. Shows (a, p)'
      BY <1>2, <2>1 DEF Shows
    <3>2. ~ AboutAxis (e, a)
      BY <1>3 DEF AboutAxis
    <3>3. Leads (a, p)'
      BY <1>2, <1>3, <1>4, <1>5, <2>1, <3>2, LeadsGoOn
    <3>4. QED
      BY <3>1, <3>3
  <2>2. QED
    BY <2>1 DEF InputInv, Turned
<1>11. QED
  BY <1>6, <1>7, <1>8, <1>9, <1>10 DEF InputInv

\* An axis moves.
LEMMA AxisMoves ==
  ASSUME I!InputDevicesAssumption, ~ Flips, InputInv, NEW b \in Axis, NEW v \in -2 .. 2, I!MoveAxis (b, v)
  PROVE  InputInv'
<1>1. /\ axis' = [axis EXCEPT ![b] = v] /\ axis[b] * v >= 0
      /\ queue' = Append (queue, [axis |-> b, value |-> v])
  BY DEF I!MoveAxis
<1>2. UNCHANGED <<held, table, heard>> /\ UNCHANGED I!mappingVars
  BY DEF I!MoveAxis
<1> DEFINE e == [axis |-> b, value |-> v]
<1>3. /\ e \in I!DeviceEvent /\ "axis" \in DOMAIN e /\ "control" \notin DOMAIN e
      /\ e.axis = b /\ e.value = v
  BY AxisEvents
<1>4. queue' = Append (queue, e)
  BY <1>1
<1> HIDE DEF e
<1>5. /\ mapping \in [I!Control -> Acts \cup {None}] /\ held \subseteq Scancode \cup Button
      /\ axis \in [Axis -> -2 .. 2] /\ queue \in Seq (I!DeviceEvent)
      /\ table \subseteq I!Direction /\ heard \subseteq Acts
  BY DEF InputInv, I!TypeOK, Acts
<1>6. /\ \A a : I!Wanted (a)' = I!Wanted (a)
      /\ Mapped' /\ mapping' \in [I!Control -> Acts \cup {None}]
  BY <1>2, <1>5, SettingsStay DEF InputInv
<1>7. I!TypeOK'
  <2>1. queue' \in Seq (I!DeviceEvent)
    BY <1>3, <1>4, <1>5, QueueGrows
  <2>2. axis' \in [Axis -> -2 .. 2]
    BY <1>1, <1>5
  <2>3. QED
    BY <1>2, <1>5, <1>6, <2>1, <2>2 DEF I!TypeOK, Acts
<1>8. Held'
  <2>1. ASSUME NEW a \in Acts, NEW y \in Scancode \cup Button, HandsKnown (a, y)
        PROVE  HandsKnown (a, y)'
    <3>1. ~ AboutControl (e, y)
      BY <1>3 DEF AboutControl
    <3>2. QED
      BY <1>2, <1>3, <1>4, <1>5, <2>1, <3>1, HandsGoOn
  <2>2. QED
    BY <1>6, <2>1 DEF InputInv, Held, Acts, I!Translated
<1>9. Steered'
  BY <1>2, <1>6 DEF InputInv, Steered, Acts
<1>10. Turned'
  <2>1. SameSide (axis[b], v)
    <3>1. axis[b] \in -2 .. 2
      BY <1>5
    <3>2. \A u, w \in -2 .. 2 : u * w >= 0 => SameSide (u, w)
      <4>1. \A u, w \in Int : (u < 0 /\ w > 0) \/ (u > 0 /\ w < 0) => u * w < 0
        OBVIOUS
      <4>2. \A u \in -2 .. 2 : u \in Int
        OBVIOUS
      <4>3. QED
        BY <4>1, <4>2 DEF SameSide
    <3>3. QED
      BY <1>1, <3>1, <3>2
  <2>2. ASSUME NEW a \in Axis, NEW p \in -2 .. 2, Shows (a, p), Leads (a, p)
        PROVE  Shows (a, p)' /\ Leads (a, p)'
    <3>1. Shows (a, p)'
      BY <1>2, <2>2 DEF Shows
    <3>2. IF AboutAxis (e, a) THEN e.value = axis'[a] /\ SameSide (axis[a], e.value) ELSE axis'[a] = axis[a]
      BY <1>1, <1>3, <1>5, <2>1 DEF AboutAxis
    <3>3. Leads (a, p)'
      BY <1>3, <1>4, <1>5, <2>2, <3>2, LeadsGoOn
    <3>4. QED
      BY <3>1, <3>3
  <2>3. QED
    BY <2>2 DEF InputInv, Turned
<1>11. QED
  BY <1>6, <1>7, <1>8, <1>9, <1>10 DEF InputInv

\* A key or button that was pushed or released is polled.
LEMMA ControlPolled ==
  ASSUME I!InputDevicesAssumption, I!Unambiguous, InputInv, I!PollControl
  PROVE  InputInv'
<1> DEFINE e == Head (queue)
           x == e.control
<1>1. /\ queue # <<>> /\ queue' = Tail (queue) /\ "control" \in DOMAIN e
      /\ heard' = IF x = CapsLock /\ e.modified THEN heard ELSE I!Heard (I!Translated (x), e.pushed)
      /\ UNCHANGED table /\ held' = held /\ axis' = axis /\ UNCHANGED I!mappingVars
  BY DEF I!PollControl, I!userVars
<1>2. /\ mapping \in [I!Control -> Acts \cup {None}] /\ held \subseteq Scancode \cup Button
      /\ axis \in [Axis -> -2 .. 2] /\ queue \in Seq (I!DeviceEvent)
      /\ table \subseteq I!Direction /\ heard \subseteq Acts
  BY DEF InputInv, I!TypeOK, Acts
<1>3. e \in I!DeviceEvent /\ queue' \in Seq (I!DeviceEvent)
  BY <1>1, <1>2, QueueShrinks
<1>4. x \in Scancode \cup Button /\ e.pushed \in BOOLEAN /\ "axis" \notin DOMAIN e
  BY <1>1, <1>3, EventShapes
<1>5. /\ \A a : I!Wanted (a)' = I!Wanted (a)
      /\ Mapped' /\ mapping' \in [I!Control -> Acts \cup {None}]
  BY <1>1, <1>2, SettingsStay DEF InputInv
<1> DEFINE t == I!Translated (x)
<1>6. \A a \in Acts : a \in I!Heard (t, e.pushed) <=> IF I!Wanted (a) = t THEN e.pushed ELSE a \in heard
  BY <1>4, HeardChanges DEF InputInv
<1>7. I!Heard (t, e.pushed) \subseteq Acts
  BY <1>2, HeardKnown
<1>8. /\ \A y \in Scancode \cup Button : AboutControl (e, y) <=> y = x
      /\ \A a \in Axis : ~ AboutAxis (e, a)
  BY <1>1, <1>4 DEF AboutControl, AboutAxis
<1>9. t = IF x = CapsLock THEN KeyTrans[CapsLock] ELSE t
  BY DEF I!Translated, I!InputDevicesAssumption
<1>10. t \notin I!Direction
  <2>1. /\ \A k \in Scancode : KeyTrans[k] \in I!Key \cup {"unknown"}
        /\ I!Direction \cap (I!Key \cup Button) = {} /\ "unknown" \notin I!Control /\ I!Direction \subseteq I!Control
    BY DEF I!InputDevicesAssumption, I!Control
  <2>2. QED
    BY <1>4, <2>1 DEF I!Translated
<1>11. \A a \in Acts : I!Wanted (a) # KeyTrans[CapsLock] =>
         (a \in heard' <=> IF I!Wanted (a) = t THEN e.pushed ELSE a \in heard)
  BY <1>1, <1>6, <1>9
<1>12. \A a \in Acts : I!Wanted (a) # t => (a \in heard' <=> a \in heard)
  BY <1>1, <1>6
<1>13. heard' \subseteq Acts
  BY <1>1, <1>2, <1>7
<1>14. \A a \in Acts, y \in Scancode \cup Button :
         I!Translated (y) = I!Wanted (a) /\ I!Wanted (a) = t => y = x
  BY <1>4, ControlKnown DEF InputInv, Mapped
<1>15. I!TypeOK'
  BY <1>1, <1>2, <1>3, <1>5, <1>13 DEF I!TypeOK, Acts
<1> HIDE DEF e, x, t
<1>16. Held'
  <2>1. ASSUME NEW a \in Acts, NEW y \in Scancode \cup Button, HandsKnown (a, y),
               I!Translated (y) = I!Wanted (a), I!Wanted (a) # KeyTrans[CapsLock]
        PROVE  HandsKnown (a, y)'
    <3>1. I!Wanted (a) = t <=> y = x
      BY <1>14, <2>1 DEF t
    <3>2. IF AboutControl (e, y) THEN a \in heard' <=> e.pushed ELSE a \in heard' <=> a \in heard
      BY <1>8, <1>11, <2>1, <3>1
    <3>3. QED
      BY <1>1, <1>2, <2>1, <3>2, HandsPolled DEF e
  <2>2. ASSUME NEW a \in Acts, NEW y \in Scancode \cup Button,
               I!Translated (y) = I!Wanted (a), I!Wanted (a) \notin I!Direction \cup {KeyTrans[CapsLock]}
        PROVE  HandsKnown (a, y)
    BY <2>2 DEF InputInv, Held
  <2>3. QED
    BY <1>5, <2>1, <2>2 DEF Held, Acts, I!Translated
<1>17. Steered'
  <2>1. \A a \in Acts : I!Wanted (a) \in I!Direction => (a \in heard' <=> I!Wanted (a) \in table')
    BY <1>1, <1>10, <1>12 DEF InputInv, Steered
  <2>2. QED
    BY <1>5, <2>1 DEF Steered, Acts
<1>18. Turned'
  <2>1. ASSUME NEW a \in Axis, NEW p \in -2 .. 2, Shows (a, p), Leads (a, p)
        PROVE  Shows (a, p)' /\ Leads (a, p)'
    <3>1. Shows (a, p)'
      BY <1>1, <2>1 DEF Shows
    <3>2. ~ AboutAxis (Head (queue), a)
      BY <1>8 DEF e
    <3>3. Leads (a, p)'
      BY <1>1, <1>2, <2>1, <3>2, LeadsPolled
    <3>4. QED
      BY <3>1, <3>3
  <2>2. QED
    BY <2>1 DEF InputInv, Turned
<1>19. QED
  BY <1>5, <1>15, <1>16, <1>17, <1>18 DEF InputInv

\* The table after an event about axis b, at v now.
LEMMA TableTurns ==
  ASSUME I!InputDevicesAssumption, NEW b \in Axis, NEW v \in -2 .. 2, NEW d,
         d = IF v < 0 \/ (v = 0 /\ Fore[b] \in table) THEN Fore[b] ELSE Back[b],
         \A c : c \in table' <=> IF c = d THEN v \in {-2, 2} ELSE c \in table,
         NEW a \in Axis, NEW p \in -2 .. 2, Shows (a, p), NEW q,
         IF a = b THEN q = v /\ SameSide (p, v) ELSE q = p
  PROVE  Shows (a, q)'
<1>1. /\ Fore[a] # Back[a] /\ Fore[a] # Back[b] /\ Fore[b] # Back[a]
      /\ a # b => Fore[a] # Fore[b] /\ Back[a] # Back[b]
  BY DEF I!InputDevicesAssumption
<1>2. CASE a # b
  <2>1. Fore[a] # d /\ Back[a] # d
    BY <1>1, <1>2
  <2>2. (Fore[a] \in table' <=> Fore[a] \in table) /\ (Back[a] \in table' <=> Back[a] \in table)
    BY <2>1
  <2>3. QED
    BY <1>2, <2>2 DEF Shows
<1>3. CASE a = b /\ v < 0
  <2>1. p <= 0 /\ d = Fore[a] /\ Back[a] # d
    BY <1>1, <1>3 DEF SameSide
  <2>2. (Fore[a] \in table' <=> v = -2) /\ Back[a] \notin table'
    BY <1>3, <2>1 DEF Shows
  <2>3. QED
    BY <1>3, <2>2 DEF Shows
<1>4. CASE a = b /\ v > 0
  <2>1. p >= 0 /\ d = Back[a] /\ Fore[a] # d
    BY <1>1, <1>4 DEF SameSide
  <2>2. (Back[a] \in table' <=> v = 2) /\ Fore[a] \notin table'
    BY <1>4, <2>1 DEF Shows
  <2>3. QED
    BY <1>4, <2>2 DEF Shows
<1>5. CASE a = b /\ v = 0
  <2>1. d \notin table' /\ (d = Fore[a] \/ d = Back[a])
    BY <1>5
  <2>2. Fore[a] \notin table' /\ Back[a] \notin table'
    <3>1. CASE Fore[a] \in table
      <4>1. d = Fore[a] /\ Back[a] # d /\ Back[a] \notin table
        BY <1>1, <1>5, <3>1 DEF Shows
      <4>2. QED
        BY <2>1, <4>1
    <3>2. CASE Fore[a] \notin table
      <4>1. d = Back[a] /\ Fore[a] # d
        BY <1>1, <1>5, <3>2
      <4>2. QED
        BY <2>1, <3>2, <4>1
    <3>3. QED
      BY <3>1, <3>2
  <2>3. QED
    BY <1>5, <2>2 DEF Shows
<1>6. QED
  BY <1>2, <1>3, <1>4, <1>5

\* Where an axis has been is polled.
LEMMA AxisPolled ==
  ASSUME I!InputDevicesAssumption, I!Unambiguous, InputInv, I!PollAxis
  PROVE  InputInv'
<1> DEFINE e == Head (queue)
           b == e.axis
           v == e.value
           d == I!AxisNbr (e)
           pushed == v \in {-2, 2}
<1>1. /\ queue # <<>> /\ queue' = Tail (queue) /\ "axis" \in DOMAIN e
      /\ IF pushed = (d \in table) THEN table' = table /\ heard' = heard
         ELSE /\ table' = IF pushed THEN table \cup {d} ELSE table \ {d}
              /\ heard' = I!Heard (d, pushed)
      /\ held' = held /\ axis' = axis /\ UNCHANGED I!mappingVars
  BY DEF I!PollAxis, I!userVars
<1>2. /\ mapping \in [I!Control -> Acts \cup {None}] /\ held \subseteq Scancode \cup Button
      /\ axis \in [Axis -> -2 .. 2] /\ queue \in Seq (I!DeviceEvent)
      /\ table \subseteq I!Direction /\ heard \subseteq Acts
  BY DEF InputInv, I!TypeOK, Acts
<1>3. e \in I!DeviceEvent /\ queue' \in Seq (I!DeviceEvent)
  BY <1>1, <1>2, QueueShrinks
<1>4. b \in Axis /\ v \in -2 .. 2 /\ "control" \notin DOMAIN e
  BY <1>1, <1>3, EventShapes
<1>5. d = IF v < 0 \/ (v = 0 /\ Fore[b] \in table) THEN Fore[b] ELSE Back[b]
  BY DEF I!AxisNbr
<1>6. /\ \A a : I!Wanted (a)' = I!Wanted (a)
      /\ Mapped' /\ mapping' \in [I!Control -> Acts \cup {None}]
  BY <1>1, <1>2, SettingsStay DEF InputInv
<1>7. \A a \in Acts : a \in I!Heard (d, pushed) <=> IF I!Wanted (a) = d THEN pushed ELSE a \in heard
  <2>1. pushed \in BOOLEAN
    OBVIOUS
  <2> HIDE DEF pushed, d
  <2>2. QED
    BY <2>1, HeardChanges DEF InputInv
<1>8. I!Heard (d, pushed) \subseteq Acts
  BY <1>2, HeardKnown
<1>9. /\ \A a \in Axis : AboutAxis (e, a) <=> a = b
      /\ \A y : ~ AboutControl (e, y)
  BY <1>1, <1>4 DEF AboutControl, AboutAxis
<1>10. d \in I!Direction
  <2> HIDE DEF e, v, b, d
  <2>1. QED
    BY <1>4, <1>5 DEF I!Direction
<1> HIDE DEF e, b, v, d
<1>11. \A c : c \in table' <=> IF c = d THEN pushed ELSE c \in table
  BY <1>1
<1>12. heard' \subseteq Acts /\ \A a \in Acts : I!Wanted (a) # d => (a \in heard' <=> a \in heard)
  BY <1>1, <1>2, <1>7, <1>8
<1>13. \A a \in Acts : I!Wanted (a) = d => (a \in heard' <=> pushed)
  <2>1. SUFFICES ASSUME NEW a \in Acts, I!Wanted (a) = d
                 PROVE  a \in heard' <=> pushed
    OBVIOUS
  <2>2. a \in heard <=> d \in table
    BY <1>10, <2>1 DEF InputInv, Steered
  <2>3. QED
    BY <1>1, <1>7, <2>1, <2>2
<1>14. I!TypeOK'
  <2>1. table' \subseteq I!Direction
    BY <1>1, <1>2, <1>10
  <2>2. QED
    BY <1>1, <1>2, <1>3, <1>6, <1>12, <2>1 DEF I!TypeOK, Acts
<1>15. Held'
  <2>1. ASSUME NEW a \in Acts, NEW y \in Scancode \cup Button, HandsKnown (a, y), I!Wanted (a) \notin I!Direction
        PROVE  HandsKnown (a, y)'
    <3>1. a \in heard' <=> a \in heard
      BY <1>10, <1>12, <2>1
    <3>2. ~ AboutControl (Head (queue), y)
      BY <1>9 DEF e
    <3>3. QED
      BY <1>1, <1>2, <2>1, <3>1, <3>2, HandsPolled
  <2>2. ASSUME NEW a \in Acts, NEW y \in Scancode \cup Button,
               I!Translated (y) = I!Wanted (a), I!Wanted (a) \notin I!Direction \cup {KeyTrans[CapsLock]}
        PROVE  HandsKnown (a, y)
    BY <2>2 DEF InputInv, Held
  <2>3. QED
    BY <1>6, <2>1, <2>2 DEF Held, Acts, I!Translated
<1>16. Steered'
  <2>1. ASSUME NEW a \in Acts, I!Wanted (a) \in I!Direction
        PROVE  a \in heard' <=> I!Wanted (a) \in table'
    <3>1. a \in heard <=> I!Wanted (a) \in table
      BY <2>1 DEF InputInv, Steered
    <3>2. QED
      BY <1>11, <1>12, <1>13, <3>1
  <2>2. QED
    BY <1>6, <2>1 DEF Steered, Acts
<1>17. Turned'
  <2>1. ASSUME NEW a \in Axis
        PROVE  \E q \in -2 .. 2 : Shows (a, q)' /\ Leads (a, q)'
    <3>1. PICK p \in -2 .. 2 : Shows (a, p) /\ Leads (a, p)
      BY <2>1 DEF InputInv, Turned
    <3>2. PICK q \in -2 .. 2 : q = IF a = b THEN v ELSE p
      BY <1>4, <3>1
    <3>3. q = IF AboutAxis (Head (queue), a) THEN Head (queue).value ELSE p
      BY <1>9, <3>2 DEF e, v
    <3>4. Leads (a, q)'
      BY <1>1, <1>2, <3>1, <3>3, LeadsPolled
    <3>5. a = b => SameSide (p, v)
      <4>1. SUFFICES ASSUME a = b
                     PROVE  SameSide (p, v)
        OBVIOUS
      <4>2. Len (queue) \in Nat \ {0} /\ DOMAIN queue = 1 .. Len (queue) /\ Head (queue) = queue[1]
        BY <1>1, <1>2, QueueShrinks
      <4>3. 1 \in DOMAIN queue /\ \A j \in DOMAIN queue : ~ (j < 1)
        BY <4>2
      <4>4. FirstOf (a, 1)
        BY <1>9, <4>1, <4>2, <4>3 DEF FirstOf, e
      <4>5. QED
        BY <3>1, <4>2, <4>3, <4>4 DEF Leads, v, e
    <3>6. Shows (a, q)'
      BY <1>4, <1>5, <1>11, <3>1, <3>2, <3>5, TableTurns
    <3>7. QED
      BY <3>4, <3>6
  <2>2. QED
    BY <2>1 DEF Turned
<1>18. QED
  BY <1>6, <1>14, <1>15, <1>16, <1>17 DEF InputInv

LEMMA DevicesNext ==
  ASSUME I!InputDevicesAssumption, I!Unambiguous, ~ Flips, InputInv, I!Next
  PROVE  InputInv'
<1>1. ASSUME NEW x \in Scancode \cup Button, NEW m \in BOOLEAN, I!PressControl (x, m) \/ I!ReleaseControl (x, m)
      PROVE  InputInv'
  BY <1>1, HandsMove
<1>2. ASSUME NEW a \in Axis, NEW v \in -2 .. 2, I!MoveAxis (a, v)
      PROVE  InputInv'
  BY <1>2, AxisMoves
<1>3. CASE I!PollControl
  BY <1>3, ControlPolled
<1>4. CASE I!PollAxis
  BY <1>4, AxisPolled
<1>5. QED
  BY <1>1, <1>2, <1>3, <1>4 DEF I!Next

\* With an empty queue nothing is left to make up.
LEMMA DevicesObey ==
  ASSUME I!InputDevicesAssumption, I!Unambiguous, InputInv
  PROVE  I!TypeOK /\ I!PlayerObeys /\ I!AxisAtRest
<1>1. I!TypeOK /\ held \subseteq Scancode \cup Button /\ config \in Configs
  BY DEF InputInv, I!TypeOK, Mapped
<1>2. I!PlayerObeys
  <2>1. SUFFICES ASSUME queue = <<>>, NEW a \in Acts, I!Wanted (a) \notin I!Direction \cup {KeyTrans[CapsLock]}
                 PROVE  a \in heard <=> \E x \in held : I!Translated (x) = I!Wanted (a)
    BY DEF I!PlayerObeys, Acts
  <2>2. PICK x \in Scancode \cup Button : I!Translated (x) = I!Wanted (a)
    <3>1. I!Wanted (a) \in I!Key \cup Button
      BY <1>1, <2>1, OneControl DEF I!Control
    <3>2. Scancode \cap Button = {} /\ DOMAIN KeyTrans = Scancode
      BY DEF I!InputDevicesAssumption
    <3>3. CASE I!Wanted (a) \in I!Key
      BY <3>2, <3>3 DEF I!Key, I!Range, I!Translated
    <3>4. CASE I!Wanted (a) \in Button
      BY <3>2, <3>4 DEF I!Translated
    <3>5. QED
      BY <3>1, <3>3, <3>4
  <2>3. \A y \in Scancode \cup Button : I!Translated (y) = I!Wanted (a) => y = x
    BY <1>1, <2>2, ControlKnown
  <2>4. a \in heard <=> x \in held
    BY <2>1, <2>2 DEF InputInv, Held, HandsKnown
  <2>5. QED
    BY <1>1, <2>2, <2>3, <2>4
<1>3. I!AxisAtRest
  <2>1. SUFFICES ASSUME queue = <<>>, NEW a \in Axis
                 PROVE  /\ axis[a] = 0 => table \cap {Fore[a], Back[a]} = {}
                        /\ axis[a] = -2 => Fore[a] \in table
                        /\ axis[a] = 2 => Back[a] \in table
                        /\ \A b \in Acts, d \in {Fore[a], Back[a]} :
                             I!Wanted (b) = d => (b \in heard <=> d \in table)
    BY DEF I!AxisAtRest, Acts
  <2>2. PICK p \in -2 .. 2 : Shows (a, p) /\ Leads (a, p)
    BY DEF InputInv, Turned
  <2>3. p = axis[a]
    BY <2>1, <2>2 DEF Leads
  <2>4. Fore[a] \in I!Direction /\ Back[a] \in I!Direction
    BY DEF I!Direction
  <2>5. \A b \in Acts, d \in {Fore[a], Back[a]} : I!Wanted (b) = d => (b \in heard <=> d \in table)
    BY <2>4 DEF InputInv, Steered
  <2>6. /\ axis[a] = 0 => table \cap {Fore[a], Back[a]} = {}
        /\ axis[a] = -2 => Fore[a] \in table
        /\ axis[a] = 2 => Back[a] \in table
    BY <2>2, <2>3 DEF Shows
  <2>7. QED
    BY <2>5, <2>6
<1>4. QED
  BY <1>1, <1>2, <1>3

\* When all that was queued has been polled, the player acts as the hands do,
\* and no axis that is at rest moves anybody: for any keyboard, joystick and
\* settings, as long as the settings give each action one control of its own
\* and an axis passes the middle on its way (input/sdl2/manager_sdl.cc,
\* control_event.cc).
THEOREM PlayerAlwaysObeys == I!Unambiguous /\ ~ Flips => (Spec => []PlayerObeys)
<1> SUFFICES ASSUME I!Unambiguous, ~ Flips
             PROVE  Spec => []PlayerObeys
  OBVIOUS
<1> DEFINE Inv == scene = "devices" => InputInv
<1>1. Init => Inv
  BY InputDevicesAssumption, DevicesInit DEF Init
<1>2. Inv /\ [Next]_vars => Inv'
  <2> SUFFICES ASSUME Inv, [Next]_vars, scene' = "devices"
               PROVE  InputInv'
    OBVIOUS
  <2>1. CASE InputDevicesStep
    BY <2>1, InputDevicesAssumption, DevicesNext DEF InputDevicesStep
  <2>2. CASE scene' = scene /\ UNCHANGED inputDevicesVars
    <3>1. /\ config' = config /\ mapping' = mapping /\ held' = held /\ axis' = axis
          /\ queue' = queue /\ table' = table /\ heard' = heard /\ InputInv
      BY <2>2 DEF inputDevicesVars
    <3>2. I!TypeOK' /\ Mapped'
      BY <3>1 DEF InputInv, I!TypeOK, Mapped, I!Wanted
    <3>3. Held' /\ Steered'
      BY <3>1 DEF InputInv, Held, HandsKnown, Steered, I!Wanted, I!Translated, AboutControl
    <3>4. Turned'
      BY <3>1 DEF InputInv, Turned, Shows, Leads, FirstOf, LastOf, NextOf, AboutAxis, SameSide
    <3>5. QED
      BY <3>2, <3>3, <3>4 DEF InputInv
  <2>3. QED
    BY <2>1, <2>2 DEF Next, vars, SavedGamesStep, ConfigurationStep, ApplicationStep, SoundsStep,
                      InputDevicesStep, SpritesStep
<1>3. Inv => PlayerObeys
  BY InputDevicesAssumption, DevicesObey DEF PlayerObeys
<1>4. QED
  BY <1>1, <1>2, <1>3, PTL DEF Spec
=============================================================================
