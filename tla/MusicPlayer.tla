---------------------------- MODULE MusicPlayer ----------------------------
(* plumos-music-player: the list found on the cards, the main loop that takes *)
(* keys and draws, the audio thread that decodes, advances through the list   *)
(* and writes to the output, both working on one player_state under a lock.   *)
(*                                                                            *)
(* A frame stands for many PCM frames; what a decoder library does is reduced *)
(* to where a seek lands.  Volume, equalizer and status lines are left out:   *)
(* they change what a frame sounds like, never which frame is played.         *)
EXTENDS Integers, Sequences

CONSTANTS
    Files,          \* file -> [frames, header (length the decoder knows, or 0), packet, preferred
                    \* (mp3, flac, wav), opens (decoders), tag and attached (pictures in it, or
                    \* NoArt), rank (by track_compare), depth]
    Roots,          \* the directories scanned, in order, each the set of files below it;
                    \* on a card without case "music" and "MUSIC" are one directory
    MaxTracks, MaxDepth, Rows,      \* MUSIC_MAX_TRACKS, 8, MUSIC_LIST_ROWS
    Chunk,          \* frames of one read, MUSIC_AUDIO_CHUNK_FRAMES
    SeekStep,       \* frames of 5 seconds
    Gamepads,       \* the input devices, each with its class: 1 V90S gamepad, 2 A30, 3 MMF, 4 other
    Autoplay, TimedExit,    \* PLUMOS_MUSIC_AUTOPLAY, PLUMOS_MUSIC_EXIT_AFTER_MS
    MaxKeys, MaxDeviceChanges   \* bounds of the instance

FileType == [frames : Nat \ {0}, header : Nat, packet : Nat \ {0}, preferred : BOOLEAN,
             opens : SUBSET {"miniaudio", "ffmpeg"}, tag : STRING, attached : STRING,
             rank : Nat, depth : Nat]
ASSUME FilesAssumption == \A f \in DOMAIN Files : Files[f] \in FileType
ASSUME RootsAssumption == \A r \in DOMAIN Roots : Roots[r] \subseteq DOMAIN Files
ASSUME LimitsAssumption ==
    /\ MaxTracks \in Nat /\ Rows \in Nat \ {0} /\ Chunk \in Nat \ {0} /\ SeekStep \in Nat \ {0}
    /\ MaxKeys \in Nat /\ MaxDeviceChanges \in Nat

VARIABLES
    tracks, selected, current, scroll,
    decoder,        \* decoder_kind
    at,             \* the next frame the decoder returns
    position, length, paused, seek,     \* position_frames, length_frames, paused, seek_delta_seconds
    art,            \* state.art: the picture, or NoArt
    input,          \* the input device opened, or "none"
    texture, fresh, \* what main draws, and whether its generation is that of art
    running, fastExit,
    thread,         \* "loop", "write": a chunk is read and the lock released, "reopen", "done"
    output,         \* the ALSA or OSS output is open
    device,         \* "ready", "gone", or "stuck": a write blocks
    process,        \* "up" until main returns or calls _exit
    pressedB,       \* ghost: the user asked to leave
    keys, deviceChanges

playerVars == <<tracks, selected, current, scroll, decoder, at, position, length, paused, seek, art, fresh,
          input, texture, running, fastExit, thread, output, device, process, pressedB, keys, deviceChanges>>
list == <<tracks, selected, current, scroll>>
play == <<decoder, at, position, length, paused, seek>>
picture == <<art, fresh>>
audio == <<thread, output>>
world == <<device, deviceChanges>>
exit == <<running, fastExit, process, pressedB>>
screen == <<input, texture>>

Count == Len(tracks)
File(i) == Files[tracks[i + 1]]         \* the code counts tracks from 0
Ready == decoder # "none"
NoArt == "no art"
Least(a, b) == IF a < b THEN a ELSE b

(* ------------------------------ the list --------------------------------- *)

(* scan_dir_recursive and scan_music: what every root leads to, up to         *)
(* MaxTracks, sorted by track_compare.  A file below two roots is listed      *)
(* twice.  At the limit the later roots and, within one, readdir's order      *)
(* decide what is left out.                                                   *)
Entries == {e \in (DOMAIN Roots) \X (DOMAIN Files) : e[2] \in Roots[e[1]] /\ Files[e[2]].depth <= MaxDepth}
Before(e, f) == Files[e[2]].rank <= Files[f[2]].rank
Listings ==
    UNION {{s \in [1..n -> Entries] :
              /\ \A i, j \in 1..n : i < j => s[i] # s[j] /\ Before(s[i], s[j])
              /\ \A e \in Entries :
                    \/ \E i \in 1..n : s[i] = e
                    \/ n = MaxTracks /\ \A i \in 1..n : s[i][1] <= e[1]} : n \in 0..MaxTracks}
Scanned == {[i \in DOMAIN s |-> s[i][2]] : s \in Listings}

(* ----------------------------- decoders ---------------------------------- *)

(* load_track_locked tries miniaudio first for mp3, flac and wav, FFmpeg for  *)
(* everything, and miniaudio last for other names.                            *)
FFmpegOpens(f) == "ffmpeg" \in f.opens
MiniaudioOpens(f) == "miniaudio" \in f.opens
Opened(f) == IF f.preferred /\ MiniaudioOpens(f) THEN "miniaudio"
             ELSE IF FFmpegOpens(f) THEN "ffmpeg"
             ELSE IF MiniaudioOpens(f) THEN "miniaudio"
             ELSE "none"

(* One read returns a chunk, or what is left of the file: FFmpeg decodes      *)
(* packets until it has one.                                                  *)
ReadEnd(f, a) == Least(a + Chunk, f.frames)

(* Where a seek lands: miniaudio on the frame, FFmpeg on the packet before it *)
(* (AVSEEK_FLAG_BACKWARD) or, past the end, on the last one.                  *)
PacketStart(f, frame) == LET last == (f.frames - 1) \div f.packet
                         IN  Least(frame \div f.packet, last) * f.packet
Pending(f, a) == IF a % f.packet = 0 \/ a >= f.frames THEN 0 ELSE Least(f.packet - (a % f.packet), f.frames - a)

MutantLanding(f, frame) ==      \* no ffmpeg_decoder_clear_pending: the old packet is heard first
    IF decoder = "miniaudio" THEN Least(frame, f.frames)
    ELSE PacketStart(f, frame) - Pending(f, at)

Landing(f, frame) == IF decoder = "miniaudio" THEN Least(frame, f.frames) ELSE PacketStart(f, frame)

(* ------------------------- load, unload and seek ------------------------- *)

Replaced(image) == art' = image /\ fresh' = FALSE

(* load_album_art_locked: the picture of the tag, or one FFmpeg finds.         *)
ArtOf(f) == LET found == IF f.tag # NoArt THEN f.tag ELSE f.attached
            IN  IF found = "damaged" THEN NoArt ELSE found

Unload ==
    /\ decoder' = "none"
    /\ at' = 0 /\ position' = 0 /\ length' = 0 /\ paused' = FALSE /\ seek' = 0
    /\ Replaced(NoArt)

(* load_track_locked unloads first; a track that does not open leaves nothing *)
(* playing, and current and selected where they were.                         *)
LoadTrack(i) ==
    LET f == File(i)
    IN  IF Opened(f) = "none" THEN Unload /\ UNCHANGED <<selected, current>>
        ELSE /\ decoder' = Opened(f)
             /\ at' = 0 /\ position' = 0 /\ length' = f.header /\ paused' = FALSE /\ seek' = 0
             /\ Replaced(ArtOf(f))
             /\ current' = i /\ selected' = i

Target ==
    LET t == position + seek * SeekStep
    IN  IF t < 0 THEN 0 ELSE IF length > 0 /\ t > length THEN length ELSE t

(* handle_seek_locked: the state after it, [position, at, seek].               *)
MutantSought ==                 \* the request stays when the seek was made
    IF seek = 0 THEN {[position |-> position, at |-> at, seek |-> 0]}
    ELSE {[position |-> Target, at |-> Landing(File(current), Target), seek |-> seek],
          [position |-> position, at |-> at, seek |-> 0]}

Sought ==
    IF seek = 0 THEN {[position |-> position, at |-> at, seek |-> 0]}
    ELSE {[position |-> Target, at |-> Landing(File(current), Target), seek |-> 0],
          [position |-> position, at |-> at, seek |-> 0]}       \* the decoder cannot seek

(* --------------------------- the audio thread ---------------------------- *)

(* What one turn does under the lock: a pending seek, one read, and at the    *)
(* end the next track of the list, or the end of playing.                     *)
DecodeChunk ==
    /\ thread = "loop" /\ running /\ process = "up"
    /\ Ready /\ ~paused
    /\ \E s \in Sought :
         IF s.at < File(current).frames
         THEN /\ at' = ReadEnd(File(current), s.at)
              /\ position' = s.position + (at' - s.at)
              /\ seek' = s.seek
              /\ thread' = "write"
              /\ UNCHANGED <<decoder, length, paused, picture, list, output>>
         ELSE /\ IF current + 1 < Count THEN LoadTrack(current + 1)
                 ELSE Unload /\ UNCHANGED <<selected, current>>
              /\ thread' = IF output THEN "loop" ELSE "reopen"
              /\ UNCHANGED <<tracks, scroll, output>>
    /\ UNCHANGED <<screen, exit, world, keys>>

SleepTurn ==
    /\ thread = "loop" /\ running /\ process = "up"
    /\ ~Ready \/ paused
    /\ thread' = IF output THEN "loop" ELSE "reopen"
    /\ UNCHANGED <<list, play, picture, screen, exit, output, world, keys>>

(* music_audio_output_write, with the lock released.  The chunk of a write    *)
(* that fails is lost; a chunk read while no output is open is dropped too.   *)
WriteChunk ==
    /\ thread = "write" /\ process = "up"
    /\ IF ~output THEN thread' = "reopen" /\ UNCHANGED output
       ELSE /\ device # "stuck"
            /\ thread' = "loop"
            /\ output' = (device = "ready")
    /\ UNCHANGED <<list, play, picture, screen, exit, world, keys>>

(* open_configured_audio                                                      *)
OpenOutput ==
    /\ thread = "reopen" /\ process = "up"
    /\ output' = (device # "gone")
    /\ thread' = "loop"
    /\ UNCHANGED <<list, play, picture, screen, exit, world, keys>>

EndThread ==
    /\ thread = "loop" /\ ~running /\ process = "up"
    /\ ~output \/ device # "stuck"          \* snd_pcm_drain
    /\ thread' = "done" /\ output' = FALSE
    /\ UNCHANGED <<list, play, picture, screen, exit, world, keys>>

(* ----------------------------- the main loop ----------------------------- *)

(* find_gamepad_event, once a second until a device opens.                    *)
OpenInput ==
    /\ running /\ process = "up" /\ input = "none"
    /\ input' \in {g \in DOMAIN Gamepads : \A h \in DOMAIN Gamepads : Gamepads[g] <= Gamepads[h]}
    /\ UNCHANGED <<list, play, picture, texture, exit, audio, world, keys>>

Key == running /\ process = "up" /\ input # "none" /\ keys < MaxKeys /\ keys' = keys + 1
QuietKey == Key /\ UNCHANGED <<screen, audio, world>>

SelectDelta(d) ==
    /\ QuietKey /\ Count > 0
    /\ selected' = (selected + d) % Count
    /\ scroll' = IF selected' < scroll THEN selected'
                 ELSE IF selected' >= scroll + Rows THEN selected' - Rows + 1 ELSE scroll
    /\ UNCHANGED <<tracks, current, play, picture, exit>>

RequestSeek(d) ==
    /\ QuietKey /\ Ready
    /\ seek' = seek + d
    /\ UNCHANGED <<list, decoder, at, position, length, paused, picture, exit>>

TogglePlay ==
    /\ QuietKey
    /\ \/ /\ Ready /\ selected = current
          /\ paused' = ~paused
          /\ UNCHANGED <<selected, current, decoder, at, position, length, seek, picture>>
       \/ ~(Ready /\ selected = current) /\ Count > 0 /\ LoadTrack(selected)
    /\ UNCHANGED <<tracks, scroll, exit>>

PlayRelative(d) ==
    /\ QuietKey /\ Count > 0
    /\ LoadTrack(((IF current >= 0 THEN current ELSE selected) + d) % Count)
    /\ UNCHANGED <<tracks, scroll, exit>>

(* B.  EXIT_AFTER_MS ends the loop too, without fast_exit_requested.           *)
MutantRequestFastExit == running' = FALSE /\ UNCHANGED fastExit
RequestFastExit == running' = FALSE /\ fastExit' = TRUE

PressB ==
    /\ QuietKey /\ RequestFastExit /\ pressedB' = TRUE
    /\ UNCHANGED <<list, play, picture, process>>

ExitTimer ==
    /\ TimedExit /\ running /\ process = "up"
    /\ running' = FALSE
    /\ UNCHANGED <<list, play, picture, screen, fastExit, process, pressedB, audio, world, keys>>

(* render_player: the art is copied when its number is another one.           *)
Draw ==
    /\ process = "up" /\ ~fresh
    /\ texture' = art /\ fresh' = TRUE
    /\ UNCHANGED <<list, play, art, input, exit, audio, world, keys>>

(* The end of main: _exit at once, or after the thread was joined.            *)
Leave ==
    /\ ~running /\ process = "up"
    /\ \/ fastExit /\ UNCHANGED <<play, picture>>
       \/ ~fastExit /\ thread = "done" /\ Unload
    /\ process' = "gone"
    /\ UNCHANGED <<list, screen, running, fastExit, pressedB, audio, world, keys>>

(* The output of the device: unplugged, replugged, a driver that blocks.      *)
DeviceChanges ==
    /\ deviceChanges < MaxDeviceChanges \/ device = "stuck"
    /\ deviceChanges' = deviceChanges + 1
    /\ device' \in {"ready", "gone", "stuck"} \ {device}
    /\ UNCHANGED <<list, play, picture, screen, exit, audio, keys>>

(* ---------------------------- specification ------------------------------ *)

PlayerInit ==
    /\ tracks \in Scanned
    /\ scroll = 0
    /\ LET first == Autoplay /\ Count > 0 /\ Opened(File(0)) # "none"
       IN  /\ selected = 0 /\ current = (IF first THEN 0 ELSE -1)
           /\ decoder = (IF first THEN Opened(File(0)) ELSE "none")
           /\ length = (IF first THEN File(0).header ELSE 0)
           /\ art = (IF first THEN ArtOf(File(0)) ELSE NoArt)
    /\ at = 0 /\ position = 0 /\ paused = FALSE /\ seek = 0
    /\ fresh = FALSE /\ texture = NoArt /\ input = "none"
    /\ running = TRUE /\ fastExit = FALSE /\ process = "up" /\ pressedB = FALSE
    /\ thread = "reopen" /\ output = FALSE
    /\ device = "ready" /\ keys = 0 /\ deviceChanges = 0

Main == \/ \E d \in {-1, 1} : SelectDelta(d) \/ RequestSeek(d) \/ PlayRelative(d)
        \/ TogglePlay \/ OpenInput \/ PressB \/ ExitTimer \/ Draw \/ Leave
AudioThread == DecodeChunk \/ SleepTurn \/ WriteChunk \/ OpenOutput \/ EndThread
Stopped == process = "gone" /\ UNCHANGED playerVars

PlayerNext == Main \/ AudioThread \/ DeviceChanges \/ Stopped

(* Main's loop polls for 10 ms and draws, so it always comes to its end; the  *)
(* thread's turns go on unless a write blocks.                                *)
Fairness == WF_playerVars(Leave) /\ WF_playerVars(AudioThread)
PlayerSpec == PlayerInit /\ [][PlayerNext]_playerVars /\ Fairness

(* ------------------------------ properties ------------------------------- *)

(* How much longer than its frames the decoder believes a file to be.         *)
Excess(f) == IF f.header > f.frames THEN f.header - f.frames ELSE 0

(* The time shown is the time heard: with a known length, the position under  *)
(* the progress bar is never behind the next frame of the decoder and at most *)
(* one packet before it, or as much as the length is too long, however often  *)
(* the user seeks, pauses and changes track between the turns of the audio    *)
(* thread (handle_seek_locked, ffmpeg_decoder_seek_to_pcm_frame).             *)
PositionNear ==
    Ready /\ length > 0 => position - at \in 0 .. File(current).packet + Excess(File(current))

(* A list that plays and is left alone comes to its end: whatever seeks were  *)
(* asked for and whether or not an output is open, the thread goes through    *)
(* the tracks and stops (audio_thread_main).                                  *)
PlayEnds == (Ready /\ ~paused /\ running) ~> (~Ready \/ paused \/ ~running \/ device = "stuck")

(* B leaves the player even when the audio thread hangs in a write to an      *)
(* output that does not answer: main does not wait for it.                    *)
BLeaves == pressedB ~> process = "gone"
=============================================================================
