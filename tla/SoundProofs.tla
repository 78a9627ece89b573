----------------------------- MODULE SoundProofs -----------------------------
(***************************************************************************)
(* Proofs about what is played.  AudioRouter: for every number of cards and *)
(* every buffer, the positions of the plug-in, of alsa-lib and of the card  *)
(* agree.  MusicPlayer: for every list of files, the time shown is the time *)
(* heard, as exactly as a decoder can seek.                                 *)
(***************************************************************************)
EXTENDS AudioRouter, MusicPlayer, TLAPS

(* What the steps of the plug-in need: the frames handed over, modulo the    *)
(* buffer, are submitted_ptr, also while a transfer is written.             *)
Handed ==
    io \in {"prepared", "running"} =>
        /\ queued \in 0 .. Buffer - Slack
        /\ dq <= queued + call.done
        /\ submitted = Appl

(* The transfer in progress fits in the buffer.                             *)
Fits ==
    ~Idle =>
        /\ io \in {"prepared", "running"}
        /\ call.done <= call.size
        /\ queued + call.size <= Buffer - Slack

RouterInv ==
    /\ lastHw \in 0 .. Buffer - 1 /\ queued \in Int
    /\ dq \in Nat /\ (dev = "running" => dq > 0) /\ (dev = "gone" => dq = 0)
    /\ call \in [size : Nat, done : Nat, again : BOOLEAN, mixed : BOOLEAN]
    /\ Handed /\ Fits

LEMMA BufferHolds ==
    /\ Buffer \in Nat \ {0} /\ Slack \in 0 .. Buffer - 1
    /\ Period \in Nat \ {0}
<1>1. Min({Buffer, HwBuffer}) \in {Buffer, HwBuffer}
      /\ Min({Buffer, HwBuffer}) <= Buffer
  <2>1. \E x \in {Buffer, HwBuffer} : \A y \in {Buffer, HwBuffer} : x <= y
    BY BufferAssumption
  <2> QED
    BY <2>1 DEF Min
<1> QED
  BY <1>1, BufferAssumption

(* Positions modulo the buffer.                                             *)
LEMMA Wraps ==
    ASSUME NEW b \in Nat, b > 0, NEW x \in Int, 0 <= x, x < 2 * b
    PROVE  x % b = IF x < b THEN x ELSE x - b
<1>1. CASE x < b
  BY <1>1
<1>2. CASE x >= b
  BY <1>2
<1> QED
  BY <1>1, <1>2

LEMMA WrapsTo ==
    ASSUME NEW b \in Nat, b > 0, NEW x \in Int, NEW y \in 0 .. b - 1, x = y \/ x = y + b
    PROVE  x % b = y
<1>1. 0 <= x /\ x < 2 * b
  OBVIOUS
<1>2. x % b = IF x < b THEN x ELSE x - b
  BY <1>1, Wraps
<1> QED
  BY <1>2

LEMMA WrapsFrom ==
    ASSUME NEW b \in Nat, b > 0, NEW x \in Int, 0 <= x, x < 2 * b
    PROVE  x % b \in 0 .. b - 1 /\ (x = x % b \/ x = (x % b) + b)
<1>1. x % b = IF x < b THEN x ELSE x - b
  BY Wraps
<1> QED
  BY <1>1

(* What alsa-lib makes of a position with d frames still to be played: s is  *)
(* submitted_ptr, hw the position reported, n by how much it moved.          *)
LEMMA Advances ==
    ASSUME NEW b \in Nat, b > 0, NEW last \in 0 .. b - 1, NEW q \in 0 .. b, NEW d \in 0 .. q,
           NEW s \in 0 .. b - 1, last + q = s \/ last + q = s + b,
           NEW hw \in 0 .. b - 1, s + b - d = hw \/ s + b - d = hw + b,
           NEW n \in 0 .. b - 1, hw + b - last = n \/ hw + b - last = n + b
    PROVE  /\ q - n \in {d, q} /\ q - n >= d
           /\ hw + (q - n) = s \/ hw + (q - n) = s + b
  OBVIOUS

LEMMA Submits ==
    ASSUME NEW b \in Nat \ {0}, NEW last \in 0 .. b - 1, NEW q \in 0 .. b, NEW n \in Nat, q + n <= b
    PROVE  (((last + q) % b) + n) % b = (last + (q + n)) % b
<1> DEFINE s == (last + q) % b
<1>1. last + q \in Int /\ 0 <= last + q /\ last + q < 2 * b /\ last + (q + n) \in Int /\ 0 <= last + (q + n) /\ last + (q + n) < 2 * b
  OBVIOUS
<1>2. s = IF last + q < b THEN last + q ELSE last + q - b
  BY <1>1, Wraps
<1>3. (last + (q + n)) % b = IF last + (q + n) < b THEN last + (q + n) ELSE last + (q + n) - b
  BY <1>1, Wraps
<1> HIDE DEF s
<1> DEFINE x == s + n
<1>4. x \in Int /\ 0 <= x /\ x < 2 * b /\ x = s + n
  BY <1>2
<1> HIDE DEF x
<1>5. x % b = IF x < b THEN x ELSE x - b
  BY <1>4, Wraps
<1>6. (s + n) % b = (last + (q + n)) % b
  BY <1>2, <1>3, <1>4, <1>5
<1> QED
  BY <1>6 DEF s

LEMMA RouterInit == Init => RouterInv
  BY BufferHolds DEF Init, RouterInv, Handed, Fits, Idle, NoCall

(* The callbacks and the cards leave the transfer alone.                    *)
LEMMA PlayKeeps == RouterInv /\ Play => RouterInv'
  BY DEF RouterInv, Play, Handed, Fits, Appl, Idle, client, route, speed

LEMMA CardsKeep == RouterInv /\ Environment => RouterInv'
<1> SUFFICES ASSUME RouterInv, Environment PROVE RouterInv'
  OBVIOUS
<1>1. UNCHANGED <<client, submitted, call>> /\ (dq' = dq \/ dq' = 0) /\ (dev' = "running" => dev = dev' /\ dq' = dq)
      /\ (dev' = "gone" => dq' = 0)
  BY DEF Environment, Suspend, Unplug, Plug, OtherProgram, Refuses, pcm, RouterInv
<1> QED
  BY <1>1 DEF RouterInv, Handed, Fits, Appl, Idle, client

LEMMA PrepareKeeps == RouterInv /\ Prepare => RouterInv'
<1> SUFFICES ASSUME RouterInv, Prepare PROVE RouterInv'
  OBVIOUS
<1>1. Idle /\ Idle' /\ call' = NoCall /\ lastHw' = 0 /\ queued' = 0
  BY DEF Prepare, Idle
<1>2. \/ io' = "setup" /\ UNCHANGED pcm
      \/ io' = "prepared" /\ dev' = "prepared" /\ dq' = 0 /\ submitted' = 0
  BY DEF Prepare, Rewind, pcm
<1>3. 0 % Buffer = 0
  BY BufferHolds
<1> QED
  BY <1>1, <1>2, <1>3, BufferHolds DEF RouterInv, Handed, Fits, Appl, NoCall, pcm

LEMMA StopsKeep == RouterInv /\ (Start \/ Stop \/ Drain) => RouterInv'
  BY DEF RouterInv, Start, Stop, Drain, Handed, Fits, Appl, Idle, NoCall, client, route, speed, pcm

LEMMA CloseKeeps == RouterInv /\ (Close \/ Open \/ PlaysOn) => RouterInv'
  BY BufferHolds DEF RouterInv, Close, Open, PlaysOn, Handed, Fits, Appl, Idle, NoCall, client, route, speed, pcm

(* The recovery of the PCM and the new start of its position.               *)
LEMMA ResyncKeeps ==
    ASSUME RouterInv, io \in {"prepared", "running"}, ResyncPrepared
    PROVE  submitted' = submitted
  BY DEF RouterInv, Handed, ResyncPrepared

LEMMA PointerKeeps == RouterInv /\ Pointer => RouterInv'
<1> SUFFICES ASSUME RouterInv, Pointer PROVE RouterInv'
  OBVIOUS
<1>1. Idle /\ call' = call /\ io \in {"prepared", "running"} /\ call = NoCall
  BY DEF Pointer, Idle
<1>2. queued \in 0 .. Buffer /\ dq \in 0 .. queued /\ submitted = Appl
  BY <1>1, BufferHolds DEF RouterInv, Handed, NoCall
<1>3. CASE io' = "xrun" /\ UNCHANGED <<lastHw, queued, pcm, submitted>>
  BY <1>1, <1>3 DEF RouterInv, Handed, Fits, Idle, pcm
<1>4. ASSUME NEW d \in 0 .. queued, Advance(Position(d)), submitted' = submitted,
             UNCHANGED io, dq' = d, dev' = "running" => dq' > 0,
             dev' = "gone" => dq' = 0
      PROVE  RouterInv'
  <2>0. Buffer \in Nat /\ Buffer > 0 /\ lastHw \in 0 .. Buffer - 1
    BY BufferHolds DEF RouterInv
  <2>1. /\ lastHw' \in 0 .. Buffer - 1
        /\ queued' \in {d, queued} /\ queued' >= d
        /\ submitted = (lastHw' + queued') % Buffer
    <3> DEFINE hw == (submitted + Buffer - d) % Buffer
               n == (hw + Buffer - lastHw) % Buffer
    <3>1. lastHw' = hw /\ queued' = queued - n
      BY <1>4 DEF Advance, Position
    <3>2. submitted \in 0 .. Buffer - 1
          /\ (lastHw + queued = submitted \/ lastHw + queued = submitted + Buffer)
      BY <1>2, <2>0, WrapsFrom DEF Appl
    <3>3. hw \in 0 .. Buffer - 1
          /\ (submitted + Buffer - d = hw \/ submitted + Buffer - d = hw + Buffer)
      <4>1. submitted + Buffer - d \in Int /\ 0 <= submitted + Buffer - d
            /\ submitted + Buffer - d < 2 * Buffer
        BY <1>2, <2>0, <3>2
      <4> QED
        BY <2>0, <4>1, WrapsFrom
    <3> HIDE DEF hw
    <3>4. n \in 0 .. Buffer - 1
          /\ (hw + Buffer - lastHw = n \/ hw + Buffer - lastHw = n + Buffer)
      <4>1. hw + Buffer - lastHw \in Int /\ 0 <= hw + Buffer - lastHw
            /\ hw + Buffer - lastHw < 2 * Buffer
        BY <2>0, <3>3
      <4> QED
        BY <2>0, <4>1, WrapsFrom
    <3> HIDE DEF n
    <3>5. /\ queued - n \in {d, queued} /\ queued - n >= d
          /\ hw + (queued - n) = submitted \/ hw + (queued - n) = submitted + Buffer
      BY <1>2, <2>0, <3>2, <3>3, <3>4, Advances
    <3>6. hw + (queued - n) \in Int
      BY <1>2, <3>3, <3>4
    <3>7. (hw + (queued - n)) % Buffer = submitted
      BY <2>0, <3>2, <3>5, <3>6, WrapsTo
    <3> QED
      BY <3>1, <3>3, <3>5, <3>7
  <2>2. queued' \in 0 .. Buffer - Slack
    BY <1>1, <1>2, <1>4, <2>1, BufferHolds DEF RouterInv, Handed
  <2>3. call'.done = 0 /\ Idle'
    BY <1>1 DEF Idle, NoCall
  <2> QED
    BY <1>1, <1>2, <1>4, <2>1, <2>2, <2>3 DEF RouterInv, Handed, Fits, Appl
<1>5. CASE Recoverable /\ RecoverPhysical /\ UNCHANGED <<io, submitted>> /\ Advance(Position(0))
  BY <1>2, <1>4, <1>5 DEF RecoverPhysical
<1>6. CASE ResyncPrepared /\ Advance(Position(dq)) /\ UNCHANGED <<io, pcm>>
  BY <1>1, <1>2, <1>4, <1>6, ResyncKeeps DEF pcm, RouterInv
<1> QED
  BY <1>3, <1>5, <1>6 DEF Pointer

LEMMA PollKeeps == RouterInv /\ PollRevents => RouterInv'
<1> SUFFICES ASSUME RouterInv, PollRevents PROVE RouterInv'
  OBVIOUS
<1>1. UNCHANGED <<client, call>> /\ io \in {"prepared", "running"}
  BY DEF PollRevents
<1>2. submitted' = submitted
  BY <1>1, ResyncKeeps DEF PollRevents
<1>3. (dq' = dq /\ dev' = dev) \/ (dq' = 0 /\ dev' = "prepared")
  BY DEF PollRevents, RecoverPhysical, pcm
<1> QED
  BY <1>1, <1>2, <1>3 DEF RouterInv, Handed, Fits, Appl, Idle, client

(* A transfer.                                                              *)
LEMMA AdoptKeeps ==
    ASSUME NEW r, Adopt(r)
    PROVE  (dq' = dq /\ dev' = dev) \/ (dq' = 0 /\ dev' = "prepared")
  BY DEF Adopt, pcm

LEMMA TransferKeeps ==
    ASSUME RouterInv, NEW size \in 1 .. Buffer, NEW quick \in BOOLEAN, Transfer(size, quick)
    PROVE  RouterInv'
<1>1. /\ Idle /\ io \in {"prepared", "running"} /\ size <= Buffer - queued - Slack
      /\ UNCHANGED <<client, submitted>> /\ call = NoCall
  BY DEF Transfer, Idle
<1>2. CASE UNCHANGED <<pcm, call>>
  BY <1>1, <1>2 DEF RouterInv, Handed, Fits, Appl, Idle, client, pcm
<1>3. CASE \E r : Adopt(r) /\ Convert(size, FALSE)
  <2>1. (dq' = dq /\ dev' = dev) \/ (dq' = 0 /\ dev' = "prepared")
    BY <1>3, AdoptKeeps
  <2>2. call' = [size |-> size, done |-> 0, again |-> FALSE, mixed |-> physical' = Internal]
    BY <1>3 DEF Convert
  <2>3. /\ call' \in [size : Nat, done : Nat, again : BOOLEAN, mixed : BOOLEAN]
        /\ call'.size = size /\ call'.done = 0
    BY <2>2, BufferHolds
  <2> QED
    BY <1>1, <2>1, <2>3, BufferHolds DEF RouterInv, Handed, Fits, Appl, client, NoCall
<1> QED
  BY <1>2, <1>3 DEF Transfer

LEMMA WriteKeeps == RouterInv /\ WriteStep => RouterInv'
<1> SUFFICES ASSUME RouterInv, WriteStep PROVE RouterInv'
  OBVIOUS
<1>0. call \in [size : Nat, done : Nat, again : BOOLEAN, mixed : BOOLEAN]
  BY DEF RouterInv
<1>1. CASE WriteFrame
  <2>1. ~Idle /\ call.done < call.size /\ dq' = dq + 1 /\ UNCHANGED <<client, submitted>>
    BY <1>1 DEF WriteFrame, Writing
  <2>2. /\ call' \in [size : Nat, done : Nat, again : BOOLEAN, mixed : BOOLEAN]
        /\ call'.size = call.size /\ call'.done = call.done + 1
    BY <1>0, <1>1 DEF WriteFrame
  <2>3. dq' > 0 /\ dev' # "gone"
    BY <1>1, <2>1 DEF RouterInv, WriteFrame
  <2> QED
    BY <2>1, <2>2, <2>3 DEF RouterInv, Handed, Fits, Appl, client
<1>2. CASE DropExcess
  <2>1. ~Idle /\ call.done < call.size /\ UNCHANGED <<client, submitted, pcm>>
    BY <1>2 DEF DropExcess, Writing
  <2>2. /\ call' \in [size : Nat, done : Nat, again : BOOLEAN, mixed : BOOLEAN]
        /\ call'.size = call.size /\ call'.done = call.size
    BY <1>0, <1>2 DEF DropExcess
  <2> QED
    BY <1>0, <2>1, <2>2 DEF RouterInv, Handed, Fits, Appl, client, pcm
<1>3. CASE WriteRecovers
  BY <1>0, <1>3 DEF WriteRecovers, RecoverPhysical, Writing, RouterInv, Handed, Fits, Appl, client, Idle
<1>4. CASE WriteFails
  <2>1. ~Idle /\ UNCHANGED <<client, submitted>> /\ dev = "gone"
    BY <1>4 DEF WriteFails, Writing
  <2>2. PICK r \in SwitchRoute(TRUE) : r.card # NoCard /\ Adopt(r) /\ Convert(call.size, TRUE)
    BY <1>4 DEF WriteFails
  <2>3. /\ call' \in [size : Nat, done : Nat, again : BOOLEAN, mixed : BOOLEAN]
        /\ call'.size = call.size /\ call'.done = 0
    BY <1>0, <2>2 DEF Convert
  <2>4. dq' = 0 /\ dev' = "prepared"
    <3>1. r.new
      BY <2>2 DEF SwitchRoute, OpenPhysical, Failed
    <3> QED
      BY <2>2, <3>1 DEF Adopt
  <2> QED
    BY <2>1, <2>3, <2>4 DEF RouterInv, Handed, Fits, Appl, client
<1>5. CASE TransferFails
  <2>1. ~Idle /\ UNCHANGED <<client, submitted, pcm>> /\ call' = NoCall
    BY <1>5 DEF TransferFails, Writing
  <2>2. dq' = 0 /\ dev' = "gone"
    BY <1>5, <2>1 DEF TransferFails, pcm, RouterInv
  <2>3. Idle' /\ call'.done = 0 /\ call' \in [size : Nat, done : Nat, again : BOOLEAN, mixed : BOOLEAN]
    BY <2>1 DEF NoCall, Idle
  <2>4. Handed'
    BY <2>1, <2>2, <2>3, BufferHolds DEF RouterInv, Handed, Fits, Appl, client
  <2> QED
    BY <2>1, <2>2, <2>3, <2>4 DEF RouterInv, Fits, client
<1>6. CASE TransferReturns
  <2>1. /\ ~Idle /\ call.done = call.size /\ UNCHANGED <<io, lastHw, pcm>>
        /\ submitted' = (submitted + call.size) % Buffer /\ queued' = queued + call.size
        /\ call' = NoCall
    BY <1>6 DEF TransferReturns
  <2>2. /\ call.size \in Nat /\ queued + call.size <= Buffer - Slack
        /\ queued \in 0 .. Buffer /\ lastHw \in 0 .. Buffer - 1 /\ submitted = Appl
        /\ dq <= queued + call.size /\ io \in {"prepared", "running"}
    BY <1>0, <2>1, BufferHolds DEF RouterInv, Handed, Fits
  <2>3. submitted' = Appl'
    <3>1. (((lastHw + queued) % Buffer) + call.size) % Buffer
            = (lastHw + (queued + call.size)) % Buffer
      <4>1. queued + call.size <= Buffer
        BY <2>2, BufferHolds
      <4> QED
        BY <2>2, <4>1, Submits, BufferHolds
    <3> QED
      BY <2>1, <2>2, <3>1 DEF Appl
  <2>4. queued' \in 0 .. Buffer - Slack
    BY <2>1, <2>2, BufferHolds
  <2>5. Idle' /\ call'.done = 0 /\ call' \in [size : Nat, done : Nat, again : BOOLEAN, mixed : BOOLEAN]
    BY <2>1 DEF NoCall, Idle
  <2> QED
    BY <2>1, <2>2, <2>3, <2>4, <2>5 DEF RouterInv, Handed, Fits, pcm
<1> QED
  BY <1>1, <1>2, <1>3, <1>4, <1>5, <1>6 DEF WriteStep

LEMMA RouterNext == RouterInv /\ [Next]_vars => RouterInv'
<1> SUFFICES ASSUME RouterInv, [Next]_vars PROVE RouterInv'
  OBVIOUS
<1>1. CASE Transfers
  BY <1>1, TransferKeeps DEF Transfers
<1>2. CASE UNCHANGED vars
  BY <1>2 DEF vars, client, pcm, RouterInv, Handed, Fits, Appl, Idle
<1> QED
  BY <1>1, <1>2, PlayKeeps, CardsKeep, PrepareKeeps, StopsKeep, CloseKeeps, PointerKeeps,
     PollKeeps, WriteKeeps DEF Next

LEMMA RouterHolds == Spec => []RouterInv
  BY RouterInit, RouterNext, PTL DEF Spec

(* For every number of cards and every buffer, period and probe interval:    *)
(* no route change, recovery, dropped excess or repeated transfer lets       *)
(* submitted_ptr drift from the frames handed over, and alsa-lib's position  *)
(* never passes the program's (plumos_pointer, resync_prepared_physical).    *)
THEOREM PositionsAgree == Spec => []PositionBounds
<1>1. RouterInv => PositionBounds
  BY DEF RouterInv, Handed, PositionBounds, Idle, NoCall
<1> QED
  BY <1>1, RouterHolds, PTL

-----------------------------------------------------------------------------
(* The music player.                                                        *)

(* The track that plays is one of the list, its length is known of it, and   *)
(* the position is ahead of the decoder by no more than a seek leaves.      *)
Near ==
    Ready =>
        /\ current \in 0 .. Count - 1
        /\ length = File(current).header
        /\ position >= at
        /\ length > 0 => position - at <= File(current).packet + Excess(File(current))

PlayerInv ==
    /\ tracks \in Seq(DOMAIN Files)
    /\ selected \in Nat /\ (Count > 0 => selected < Count)
    /\ current \in -1 .. Count - 1
    /\ position \in Nat /\ at \in Nat /\ seek \in Int
    /\ Near

LEMMA FileFields ==
    ASSUME tracks \in Seq(DOMAIN Files), NEW i \in 0 .. Count - 1
    PROVE  /\ File(i).frames \in Nat \ {0} /\ File(i).packet \in Nat \ {0}
           /\ File(i).header \in Nat
           /\ Excess(File(i)) \in Nat
<1>1. i + 1 \in DOMAIN tracks
  BY DEF Count
<1>2. tracks[i + 1] \in DOMAIN Files
  BY <1>1
<1>3. File(i) \in FileType
  BY <1>2, FilesAssumption DEF File
<1> DEFINE f == File(i)
<1> HIDE DEF f
<1>4. f.frames \in Nat \ {0} /\ f.packet \in Nat \ {0} /\ f.header \in Nat
  BY <1>3 DEF FileType, f
<1>5. Excess(f) \in Nat
  BY <1>4 DEF Excess
<1> QED
  BY <1>4, <1>5 DEF f

(* Where a seek lands.                                                      *)
LEMMA Packets ==
    ASSUME NEW p \in Nat \ {0}, NEW t \in Nat
    PROVE  t \div p \in Nat /\ p * (t \div p) <= t /\ t < p * (t \div p) + p
  OBVIOUS

LEMMA PacketNear ==
    ASSUME NEW f, f.frames \in Nat \ {0}, f.packet \in Nat \ {0}, NEW t \in Nat
    PROVE  /\ PacketStart(f, t) \in Nat
           /\ PacketStart(f, t) <= t
           /\ t - PacketStart(f, t) <= f.packet + (IF t > f.frames THEN t - f.frames ELSE 0)
<1> DEFINE p == f.packet
           n == f.frames
           q == t \div p
           last == (n - 1) \div p
<1>0. p \in Nat \ {0} /\ n \in Nat \ {0} /\ n - 1 \in Nat
  OBVIOUS
<1>1. q \in Nat /\ p * q <= t /\ t < p * q + p
  BY Packets
<1>2. last \in Nat /\ p * last <= n - 1 /\ n - 1 < p * last + p
  BY <1>0, Packets
<1>3. PacketStart(f, t) = IF q < last THEN q * p ELSE last * p
  BY DEF PacketStart, Least
<1> HIDE DEF p, n, q, last
<1>4. CASE q <= last
  <2>1. PacketStart(f, t) = p * q
    BY <1>0, <1>1, <1>2, <1>3, <1>4
  <2>2. p * q \in Nat
    BY <1>0, <1>1
  <2> QED
    BY <1>0, <1>1, <2>1, <2>2 DEF p, n
<1>5. CASE q > last
  <2>1. PacketStart(f, t) = p * last
    BY <1>0, <1>1, <1>2, <1>3, <1>5
  <2>2. p * last \in Nat
    BY <1>0, <1>2
  <2>3. p * q >= p * last + p
    <3>1. q >= last + 1
      BY <1>1, <1>2, <1>5
    <3>2. p * q >= p * (last + 1)
      BY <1>0, <1>1, <1>2, <3>1
    <3> QED
      BY <1>0, <1>1, <1>2, <3>2
  <2>4. t >= n
    BY <1>0, <1>1, <1>2, <2>2, <2>3
  <2> QED
    BY <1>0, <1>1, <1>2, <2>1, <2>2, <2>3, <2>4 DEF p, n
<1> QED
  BY <1>1, <1>2, <1>4, <1>5

(* What handle_seek_locked leaves.                                          *)
LEMMA SeekNear ==
    ASSUME PlayerInv, Ready, NEW s \in Sought
    PROVE  /\ s.position \in Nat /\ s.at \in Nat /\ s.seek \in Int
           /\ s.position >= s.at
           /\ s.at < File(current).frames /\ length > 0 =>
                 s.position - s.at <= File(current).packet + Excess(File(current))
<1> DEFINE f == File(current)
<1>1. /\ current \in 0 .. Count - 1 /\ length = f.header
      /\ position \in Nat /\ at \in Nat /\ seek \in Int /\ position >= at
      /\ length > 0 => position - at <= f.packet + Excess(f)
  BY DEF PlayerInv, Near
<1>2. f.frames \in Nat \ {0} /\ f.packet \in Nat \ {0} /\ f.header \in Nat /\ Excess(f) \in Nat
  BY <1>1, FileFields DEF PlayerInv
<1> HIDE DEF f
<1>3. CASE s.position = position /\ s.at = at /\ s.seek = 0
  BY <1>1, <1>2, <1>3 DEF f
<1>4. CASE s.position = Target /\ s.at = Landing(f, Target) /\ s.seek = 0
  <2>1. SeekStep \in Nat /\ seek * SeekStep \in Int
    BY <1>1, LimitsAssumption
  <2>2. Target \in Nat /\ (length > 0 => Target <= length)
    BY <1>1, <1>2, <2>1 DEF Target
  <2> DEFINE t == Target
  <2>3. t \in Nat /\ (length > 0 => t <= f.header)
    BY <1>1, <2>2
  <2>4. s.position = t /\ s.at = Landing(f, t) /\ s.seek = 0
    BY <1>4
  <2> HIDE DEF t
  <2>5. CASE decoder = "miniaudio"
    <3>1. s.at = IF t < f.frames THEN t ELSE f.frames
      BY <2>4, <2>5 DEF Landing, Least
    <3> QED
      BY <1>2, <2>3, <2>4, <3>1 DEF f
  <2>6. CASE decoder # "miniaudio"
    <3>1. s.at = PacketStart(f, t)
      BY <2>4, <2>6 DEF Landing
    <3>2. /\ s.at \in Nat /\ s.at <= t
          /\ t - s.at <= f.packet + (IF t > f.frames THEN t - f.frames ELSE 0)
      BY <1>2, <2>3, <3>1, PacketNear
    <3>3. length > 0 => (IF t > f.frames THEN t - f.frames ELSE 0) <= Excess(f)
      BY <1>2, <2>3 DEF Excess
    <3> QED
      BY <1>2, <2>3, <2>4, <3>2, <3>3 DEF f
  <2> QED
    BY <2>5, <2>6
<1>5. \/ s.position = position /\ s.at = at /\ s.seek = 0
      \/ s.position = Target /\ s.at = Landing(f, Target) /\ s.seek = 0
  BY DEF Sought, f
<1> QED
  BY <1>3, <1>4, <1>5

(* Loading a track and giving it up.                                        *)
LEMMA UnloadKeeps ==
    ASSUME PlayerInv, Unload, UNCHANGED <<tracks, selected, current>>
    PROVE  PlayerInv'
  BY DEF PlayerInv, Unload, Near, Ready, Count

LEMMA LoadKeeps ==
    ASSUME PlayerInv, NEW i \in 0 .. Count - 1, LoadTrack(i), UNCHANGED tracks
    PROVE  PlayerInv'
<1>1. CASE Opened(File(i)) = "none"
  BY <1>1, UnloadKeeps DEF LoadTrack
<1>2. CASE Opened(File(i)) # "none"
  <2>1. /\ at' = 0 /\ position' = 0 /\ seek' = 0 /\ current' = i /\ selected' = i
        /\ length' = File(i).header
    BY <1>2 DEF LoadTrack
  <2>2. File(i).packet \in Nat /\ Excess(File(i)) \in Nat
    BY FileFields DEF PlayerInv
  <2>3. Count \in Nat /\ Count' = Count /\ File(current)' = File(i) 
    BY <2>1 DEF Count, PlayerInv, File
  <2>4. Near'
    BY <2>1, <2>2, <2>3 DEF Near
  <2> QED
    BY <2>1, <2>3, <2>4 DEF PlayerInv
<1> QED
  BY <1>1, <1>2

LEMMA DecodeKeeps == PlayerInv /\ DecodeChunk => PlayerInv'
<1> SUFFICES ASSUME PlayerInv, DecodeChunk PROVE PlayerInv'
  OBVIOUS
<1>0. Ready /\ Count \in Nat /\ current \in 0 .. Count - 1
  BY DEF DecodeChunk, PlayerInv, Near, Count
<1>1. PICK s \in Sought :
         IF s.at < File(current).frames
         THEN /\ at' = ReadEnd(File(current), s.at)
              /\ position' = s.position + (at' - s.at)
              /\ seek' = s.seek
              /\ UNCHANGED <<decoder, length, list>>
         ELSE /\ IF current + 1 < Count THEN LoadTrack(current + 1)
                 ELSE Unload /\ UNCHANGED <<selected, current>>
              /\ UNCHANGED tracks
  BY DEF DecodeChunk
<1>2. /\ s.position \in Nat /\ s.at \in Nat /\ s.seek \in Int
      /\ s.position >= s.at
      /\ s.at < File(current).frames /\ length > 0 =>
            s.position - s.at <= File(current).packet + Excess(File(current))
  BY <1>0, SeekNear
<1>3. CASE s.at < File(current).frames
  <2>1. /\ at' = ReadEnd(File(current), s.at) /\ position' = s.position + (at' - s.at)
        /\ seek' = s.seek
        /\ UNCHANGED <<tracks, selected, current, decoder, length>>
    BY <1>1, <1>3 DEF list
  <2>2. File(current).frames \in Nat /\ File(current).packet \in Nat /\ Excess(File(current)) \in Nat
    BY <1>0, FileFields DEF PlayerInv
  <2>3. at' \in Nat /\ at' >= s.at
    BY <1>2, <1>3, <2>1, <2>2, LimitsAssumption DEF ReadEnd, Least
  <2>4. position' \in Nat /\ position' - at' = s.position - s.at /\ position' >= at'
    BY <1>2, <2>1, <2>3
  <2>5. Count' = Count /\ File(current)' = File(current) /\ Ready' = Ready
    BY <2>1 DEF Count, File, Ready
  <2>6. Near'
    BY <1>0, <1>2, <1>3, <2>1, <2>4, <2>5 DEF Near, PlayerInv
  <2> QED
    BY <1>2, <2>1, <2>3, <2>4, <2>5, <2>6 DEF PlayerInv
<1>4. CASE ~(s.at < File(current).frames) /\ current + 1 < Count
  BY <1>0, <1>1, <1>4, LoadKeeps
<1>5. CASE ~(s.at < File(current).frames) /\ ~(current + 1 < Count)
  BY <1>1, <1>5, UnloadKeeps
<1> QED
  BY <1>3, <1>4, <1>5

(* The steps that leave the list, the decoder and the position alone.        *)
LEMMA QuietKeeps ==
    ASSUME PlayerInv, UNCHANGED <<tracks, selected, current, decoder, at, position, length, seek>>
    PROVE  PlayerInv'
  BY DEF PlayerInv, Near, Ready, Count, File

LEMMA ThreadKeeps == PlayerInv /\ AudioThread => PlayerInv'
<1> SUFFICES ASSUME PlayerInv, AudioThread PROVE PlayerInv'
  OBVIOUS
<1>1. CASE DecodeChunk
  BY <1>1, DecodeKeeps
<1>2. CASE ~DecodeChunk
  <2>1. UNCHANGED <<list, play>>
    BY <1>2 DEF AudioThread, SleepTurn, WriteChunk, OpenOutput, EndThread
  <2> QED
    BY <2>1, QuietKeeps DEF list, play
<1> QED
  BY <1>1, <1>2

(* The keys.                                                                *)
LEMMA Turns ==
    ASSUME NEW n \in Nat \ {0}, NEW x \in Int
    PROVE  x % n \in 0 .. n - 1
  OBVIOUS

LEMMA SelectKeeps ==
    ASSUME PlayerInv, NEW d \in {-1, 1}, SelectDelta(d)
    PROVE  PlayerInv'
<1>1. Count \in Nat \ {0} /\ selected' = (selected + d) % Count /\ UNCHANGED <<tracks, current, play>>
  BY DEF SelectDelta, PlayerInv, Count
<1>2. selected' \in 0 .. Count - 1
  <2>1. selected + d \in Int
    BY DEF PlayerInv
  <2> QED
    BY <1>1, <2>1, Turns
<1>3. Count' = Count /\ File(current)' = File(current)
  BY <1>1 DEF Count, File
<1> QED
  BY <1>1, <1>2, <1>3 DEF PlayerInv, Near, Ready, play

LEMMA SeekKeeps ==
    ASSUME PlayerInv, NEW d \in {-1, 1}, RequestSeek(d)
    PROVE  PlayerInv'
<1>1. UNCHANGED <<tracks, selected, current, decoder, at, position, length>> /\ seek' \in Int
  BY DEF RequestSeek, list, PlayerInv
<1> QED
  BY <1>1 DEF PlayerInv, Near, Ready, Count, File

LEMMA RelativeKeeps ==
    ASSUME PlayerInv, NEW d \in {-1, 1}, PlayRelative(d)
    PROVE  PlayerInv'
<1> DEFINE x == (IF current >= 0 THEN current ELSE selected) + d
<1>1. Count \in Nat \ {0} /\ x \in Int
  BY DEF PlayRelative, PlayerInv, Count
<1>2. LoadTrack(x % Count) /\ UNCHANGED tracks
  BY DEF PlayRelative
<1> HIDE DEF x
<1>3. x % Count \in 0 .. Count - 1
  BY <1>1, Turns
<1> QED
  BY <1>2, <1>3, LoadKeeps

LEMMA ToggleKeeps == PlayerInv /\ TogglePlay => PlayerInv'
<1> SUFFICES ASSUME PlayerInv, TogglePlay PROVE PlayerInv'
  OBVIOUS
<1>0. UNCHANGED tracks
  BY DEF TogglePlay
<1>1. CASE UNCHANGED <<selected, current, decoder, at, position, length, seek>>
  BY <1>0, <1>1, QuietKeeps
<1>2. CASE Count > 0 /\ LoadTrack(selected)
  <2>1. selected \in 0 .. Count - 1
    BY <1>2 DEF PlayerInv, Count
  <2> QED
    BY <1>0, <1>2, <2>1, LoadKeeps
<1> QED
  BY <1>1, <1>2 DEF TogglePlay

LEMMA MainKeeps == PlayerInv /\ Main => PlayerInv'
<1> SUFFICES ASSUME PlayerInv, Main PROVE PlayerInv'
  OBVIOUS
<1>1. CASE OpenInput \/ PressB \/ ExitTimer \/ Draw
  <2>1. UNCHANGED <<list, play>>
    BY <1>1 DEF OpenInput, PressB, ExitTimer, Draw
  <2> QED
    BY <2>1, QuietKeeps DEF list, play
<1>2. CASE Leave
  <2>1. UNCHANGED list /\ (UNCHANGED play \/ Unload)
    BY <1>2 DEF Leave
  <2> QED
    BY <2>1, QuietKeeps, UnloadKeeps DEF list, play
<1> QED
  BY <1>1, <1>2, SelectKeeps, SeekKeeps, RelativeKeeps, ToggleKeeps DEF Main

LEMMA PlayerNextKeeps == PlayerInv /\ [PlayerNext]_playerVars => PlayerInv'
<1> SUFFICES ASSUME PlayerInv, [PlayerNext]_playerVars PROVE PlayerInv'
  OBVIOUS
<1>1. CASE DeviceChanges
  <2>1. UNCHANGED <<list, play>>
    BY <1>1 DEF DeviceChanges
  <2> QED
    BY <2>1, QuietKeeps DEF list, play
<1>2. CASE UNCHANGED playerVars
  BY <1>2, QuietKeeps DEF playerVars
<1> QED
  BY <1>1, <1>2, MainKeeps, ThreadKeeps DEF PlayerNext, Stopped

LEMMA PlayerStarts == PlayerInit => PlayerInv
<1> SUFFICES ASSUME PlayerInit PROVE PlayerInv
  OBVIOUS
<1>1. PICK n \in 0 .. MaxTracks : \E s \in [1..n -> Entries] : tracks = [i \in DOMAIN s |-> s[i][2]]
  BY DEF PlayerInit, Scanned, Listings
<1>2. PICK s \in [1..n -> Entries] : tracks = [i \in DOMAIN s |-> s[i][2]]
  BY <1>1
<1>3. \A i \in 1..n : s[i][2] \in DOMAIN Files
  BY DEF Entries
<1>4. tracks \in [1..n -> DOMAIN Files]
  BY <1>2, <1>3
<1>5. n \in Nat
  BY LimitsAssumption
<1>6. tracks \in Seq(DOMAIN Files) /\ Len(tracks) = n
  BY <1>4, <1>5
<1>7. Near
  <2>1. ASSUME Ready PROVE /\ current \in 0 .. Count - 1 /\ length = File(current).header
                           /\ position = 0 /\ at = 0
    BY <1>5, <1>6, <2>1 DEF PlayerInit, Ready, Count
  <2>2. ASSUME Ready PROVE File(current).packet \in Nat /\ Excess(File(current)) \in Nat
    BY <1>6, <2>1, <2>2, FileFields
  <2> QED
    BY <2>1, <2>2 DEF Near
<1> QED
  BY <1>5, <1>6, <1>7 DEF PlayerInit, PlayerInv, Count

LEMMA PlayerHolds == PlayerSpec => []PlayerInv
  BY PlayerStarts, PlayerNextKeeps, PTL DEF PlayerSpec

(* For every list, packet size, chunk and step: the time shown is at most    *)
(* one packet ahead of the frame decoded next, or as much as the length that *)
(* the decoder reports is too long (handle_seek_locked, load_track_locked).  *)
THEOREM TimeIsHeard == PlayerSpec => []PositionNear
<1>1. PlayerInv => PositionNear
  <2> SUFFICES ASSUME PlayerInv, Ready, length > 0
               PROVE  position - at \in 0 .. File(current).packet + Excess(File(current))
    BY DEF PositionNear
  <2>1. /\ current \in 0 .. Count - 1 /\ position \in Nat /\ at \in Nat /\ position >= at
        /\ position - at <= File(current).packet + Excess(File(current))
    BY DEF PlayerInv, Near
  <2>2. File(current).packet \in Nat /\ Excess(File(current)) \in Nat
    BY <2>1, FileFields DEF PlayerInv
  <2> QED
    BY <2>1, <2>2
<1> QED
  BY <1>1, PlayerHolds, PTL
=============================================================================
