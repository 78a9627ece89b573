--------------------------- MODULE MCMusicPlayer ---------------------------
(* Instance of MusicPlayer: a mp3 with a known length, a file only FFmpeg     *)
(* opens, one nothing opens; the two names of the music directory are one     *)
(* directory, as on the card.                                                 *)
EXTENDS MusicPlayer

MCFiles == [song |-> [frames |-> 5, header |-> 5, packet |-> 2, preferred |-> TRUE, opens |-> {"miniaudio", "ffmpeg"},
                      tag |-> "cover", attached |-> NoArt, rank |-> 1, depth |-> 0],
            podcast |-> [frames |-> 8, header |-> 9, packet |-> 3, preferred |-> FALSE, opens |-> {"ffmpeg"},
                         tag |-> NoArt, attached |-> "photo", rank |-> 2, depth |-> 1],
            stream |-> [frames |-> 4, header |-> 0, packet |-> 2, preferred |-> FALSE, opens |-> {"miniaudio"},
                         tag |-> "damaged", attached |-> "photo", rank |-> 3, depth |-> 0],
            broken |-> [frames |-> 1, header |-> 0, packet |-> 1, preferred |-> TRUE, opens |-> {},
                        tag |-> NoArt, attached |-> NoArt, rank |-> 4, depth |-> 0],
            deep |-> [frames |-> 1, header |-> 0, packet |-> 1, preferred |-> TRUE, opens |-> {},
                      tag |-> NoArt, attached |-> NoArt, rank |-> 0, depth |-> 9]]
MCGamepads == [keyboard |-> 4, gamepad |-> 1]
MCRoots == <<{"podcast", "deep"}, {"song"}, {"song"}, {"stream"}, {"broken"}, {"song"}>>
=============================================================================
