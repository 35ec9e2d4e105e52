----------------------------- MODULE Mp3Player -----------------------------
(***************************************************************************)
(* The mp3 sensor: packets over a serial line to a player module that keeps *)
(* its own volume and loop. The sensor service starts the sensor again and  *)
(* again until it succeeds, while the mqtt client (audio_multi) or the http *)
(* server (dmx_light) asks it to play. A restart of the device leaves the   *)
(* module running as it is. A packet that was written need not arrive, and  *)
(* what is read need not be the answer: the module says that it is busy, or *)
(* that a track has ended, whenever it likes.                              *)
(***************************************************************************)
EXTENDS Integers, Sequences

CONSTANTS
    MaxVolume,      \* 30, for the sensor and for the player class
    Tracks,         \* tracks on the card
    LastOutput,     \* 3, the number of multiplexer pins, checked for a channel
    Counts,         \* _doInit() counts the tracks so often: 5
    MaxAsked,       \* bound on requests
    MaxFaults       \* bound on failed writes and reads, wrong answers, restarts

LimitsAreNatural == {MaxVolume, Tracks, LastOutput, Counts} \subseteq Nat

VARIABLES
    ready,          \* SensorIface::isInit()
    files,          \* _filesCount
    volume,         \* _volume
    looping,        \* _loopFlag
    service,        \* where _doInit() is: "idle", "source", "count", "volume"
    counted,        \* turns of its loop
    todo,           \* what is left of the request in hand
    stored,         \* the setting df_vol
    output,         \* the channel the multiplexer is set to
    module,         \* the player module: [volume, loop, track], track 0 is none
    asked, faults,  \* counters of the bounds
    doubtful        \* since a volume last got to the module, one was lost on
                    \* its way, or something else was read for it

vars == <<ready, files, volume, looping, service, counted, todo, stored,
          output, module, asked, faults, doubtful>>

Random == -2
Missing == -1
Reset == [volume |-> MaxVolume, loop |-> FALSE, track |-> 0]

-----------------------------------------------------------------------------
(* Commands                                                                *)

\* The state of the module after a packet it got.
After(command, arg) ==
    CASE command = "SET_VOLUME" -> [module EXCEPT !.volume = arg]
      [] command = "PLAY_TRACK" -> [module EXCEPT !.track = arg]
      [] command = "STOP_AUDIO" -> [module EXCEPT !.track = 0]
      [] command = "SET_LOOP_MODE" -> [module EXCEPT !.loop = TRUE]
      [] command = "RESET" -> Reset

Can == faults < MaxFaults
Fault == faults' = faults + 1

Do(op, arg) == <<[op |-> op, arg |-> arg]>>

\* The message "play" of audio_multi: the stored volume, the channel, the track.
\* A channel or a track that is missing drops the message.
PlayMessage(track, channel) ==
    IF track = Missing \/ channel = Missing THEN << >>
    ELSE Do("volume", stored) \o Do("output", channel) \o Do("play", track)

\* The topic "volume" stores what the sensor took.
VolumeMessage(v) == IF v = Missing THEN << >> ELSE Do("volumeAndStore", v)

\* Mutant: the volume is not restored when the loop is switched off.
LoopRequestOnlyResets(on) ==
    IF on THEN Do("SET_LOOP_MODE", 0) \o Do("STOP_AUDIO", 0) \o Do("looping", on)
    ELSE Do("RESET", 0) \o Do("looping", on)

\* setLoop(): off is a reset of the module and its volume again.
LoopRequest(on) ==
    IF on THEN Do("SET_LOOP_MODE", 0) \o Do("STOP_AUDIO", 0) \o Do("looping", on)
    ELSE Do("RESET", 0) \o Do("SET_VOLUME", volume) \o Do("looping", on)

-----------------------------------------------------------------------------

Init ==
    /\ ready = FALSE /\ files = -1 /\ volume = 15 % (MaxVolume + 1) /\ looping = TRUE
    /\ service = "idle" /\ counted = 0 /\ todo = << >>
    /\ stored = 0 /\ output = 1 /\ module = Reset
    /\ asked = 0 /\ faults = 0 /\ doubtful = FALSE

\* _doInit() ends: any packet that fails ends it, to be tried again.
GiveUp ==
    /\ service # "idle" /\ Can /\ Fault
    /\ service' = "idle"
    /\ UNCHANGED <<ready, files, volume, looping, counted, todo, stored, output,
                   module, asked, doubtful>>

\* _doInit(), a step for each packet: SetSource, Count as often as it asks, and
\* ReadVolume follow.
StartInit ==
    /\ service = "idle" /\ ~ready
    /\ service' = "source" /\ counted' = 0
    /\ UNCHANGED <<ready, files, volume, looping, todo, stored, output, module,
                   asked, faults, doubtful>>

SetSource ==
    /\ service = "source"
    /\ service' = "count"
    /\ UNCHANGED <<ready, files, volume, looping, counted, todo, stored, output,
                   module, asked, faults, doubtful>>

\* readTotalFiles(): neither the command nor the check sum of the answer is
\* looked at, so whatever ten bytes came first are the answer. None on the
\* card ends the start.
Count ==
    /\ service = "count"
    /\ \E n \in 0..Tracks + 1 :
          /\ IF n = Tracks THEN UNCHANGED faults ELSE Can /\ Fault
          /\ IF n = 0 THEN service' = "idle" /\ UNCHANGED <<files, counted>>
             ELSE /\ files' = n /\ counted' = counted + 1
                  /\ service' = IF counted' = Counts THEN "volume" ELSE "count"
    /\ UNCHANGED <<ready, volume, looping, todo, stored, output, module, asked, doubtful>>

\* readVolume() looks at no more of the answer.
ReadVolume ==
    /\ service = "volume"
    /\ \E v \in 0..MaxVolume + 1 :
          /\ volume' = v
          /\ IF v = module.volume THEN UNCHANGED <<faults, doubtful>>
             ELSE Can /\ Fault /\ doubtful' = TRUE
    /\ ready' = TRUE /\ service' = "idle"
    /\ UNCHANGED <<files, looping, counted, todo, stored, output, module, asked>>

-----------------------------------------------------------------------------
(* Requests                                                                *)

\* What the mqtt client or the http server asks for; setLoop(), stop() and
\* play() do nothing before the sensor is ready.
Ask ==
    /\ todo = << >> /\ asked < MaxAsked /\ asked' = asked + 1
    /\ \/ \E t \in {Random, Missing, 0, Tracks + 2}, c \in {Random, Missing, 1, LastOutput + 1} :
            todo' = PlayMessage(t, c)
       \/ \E v \in {Missing, 0, MaxVolume + 1} : todo' = VolumeMessage(v)
       \/ \E v \in {1, MaxVolume + 1} : todo' = Do("volume", v)
       \/ todo' = Do("play", 1)
       \/ ready /\ todo' = Do("STOP_AUDIO", 0)
       \/ ready /\ \E on \in BOOLEAN : todo' = LoopRequest(on)
    /\ UNCHANGED <<ready, files, volume, looping, service, counted, stored,
                   output, module, faults, doubtful>>

\* The property "Volume" of audio_multi only stores.
StoreVolume ==
    /\ asked < MaxAsked /\ asked' = asked + 1
    /\ stored' \in {1, MaxVolume + 1}
    /\ UNCHANGED <<ready, files, volume, looping, service, counted, todo,
                   output, module, faults, doubtful>>

Now(op) == todo # << >> /\ Head(todo).op = op /\ todo' = Tail(todo)
Arg == Head(todo).arg
Legal(v) == 0 <= v /\ v <= MaxVolume

\* setVolume(), and for the topic "volume" the setting after it. The packet that
\* the driver took for sending gets to the module or not.
SetVolume ==
    /\ Now("volume") \/ Now("volumeAndStore")
    /\ IF ready /\ Legal(Arg)
       THEN \/ /\ volume' = Arg
               /\ stored' = IF Head(todo).op = "volume" THEN stored ELSE Arg
               /\ \/ /\ module' = After("SET_VOLUME", Arg) /\ doubtful' = FALSE
                     /\ UNCHANGED faults
                  \/ Can /\ Fault /\ doubtful' = TRUE /\ UNCHANGED module
            \/ Can /\ Fault /\ UNCHANGED <<module, volume, stored, doubtful>>
       ELSE UNCHANGED <<module, volume, stored, faults, doubtful>>
    /\ UNCHANGED <<ready, files, looping, service, counted, output, asked>>

\* _enableChannel()
SetOutput ==
    /\ Now("output")
    /\ output' \in IF Arg = Random THEN 0..LastOutput
                   ELSE IF Arg \in 0..LastOutput THEN {Arg} ELSE {output}
    /\ UNCHANGED <<ready, files, volume, looping, service, counted, stored, module,
                   asked, faults, doubtful>>

\* play(): a random track is taken below the number of tracks.
Play ==
    /\ Now("play")
    /\ \E t \in IF Arg = Random THEN 0..files - 1 ELSE {Arg} :
          IF ready /\ t \in 0..files
          THEN \/ module' = After("PLAY_TRACK", t) /\ UNCHANGED faults
               \/ Can /\ Fault /\ UNCHANGED module
          ELSE UNCHANGED <<module, faults>>
    /\ UNCHANGED <<ready, files, volume, looping, service, counted, stored, output,
                   asked, doubtful>>

\* A random track before the tracks were counted: play() refuses it.
PlayUncounted ==
    /\ Now("play") /\ Head(todo).arg = Random /\ files = -1
    /\ UNCHANGED <<ready, files, volume, looping, service, counted, stored, output,
                   module, asked, faults, doubtful>>

\* A packet whose failure nobody looks at. writeVolume() sends no illegal one.
SendPacket ==
    /\ \E command \in {"STOP_AUDIO", "SET_LOOP_MODE", "RESET", "SET_VOLUME"} :
          /\ Now(command)
          /\ \/ /\ command = "SET_VOLUME" => Legal(Arg)
                /\ module' = After(command, Arg)
                /\ doubtful' = (doubtful /\ command # "SET_VOLUME")
                /\ UNCHANGED faults
             \/ /\ Can /\ Fault
                /\ doubtful' = (doubtful \/ command = "SET_VOLUME")
                /\ UNCHANGED module
             \/ /\ command = "SET_VOLUME" /\ ~Legal(Arg)
                /\ UNCHANGED <<module, faults, doubtful>>
    /\ UNCHANGED <<ready, files, volume, looping, service, counted, stored, output, asked>>

SetLooping ==
    /\ Now("looping")
    /\ looping' = Arg
    /\ UNCHANGED <<ready, files, volume, service, counted, stored, output, module,
                   asked, faults, doubtful>>

Restart ==
    /\ Can /\ Fault
    /\ ready' = FALSE /\ files' = -1 /\ volume' = 15 % (MaxVolume + 1) /\ looping' = TRUE
    /\ service' = "idle" /\ counted' = 0 /\ todo' = << >> /\ output' = 1
    /\ doubtful' = FALSE
    /\ UNCHANGED <<stored, module, asked>>

Next == \/ GiveUp \/ StartInit \/ SetSource \/ Count \/ ReadVolume
        \/ Ask \/ StoreVolume \/ SetVolume \/ SetOutput \/ Play \/ PlayUncounted
        \/ SendPacket \/ SetLooping \/ Restart

Spec == Init /\ [][Next]_vars

-----------------------------------------------------------------------------
(* Properties                                                              *)

\* The volume the sensor tells is the volume the module plays at, through resets
\* of the module and restarts of the device, and one volume that gets to the
\* module makes it so again after whatever was lost on the line, refused by it or
\* taken for an answer on it before.
VolumeIsTrue ==
    ready /\ todo = << >> /\ ~doubtful => volume = module.volume
=============================================================================
