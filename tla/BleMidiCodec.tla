---------------------------- MODULE BleMidiCodec ----------------------------
(***************************************************************************)
(* MIDI bytes to Bluetooth LE packets and back (ble_midi_pkt_codec.c, and  *)
(* the ring buffers of ring_buffer_lib.c, which hold whole packets and     *)
(* whole messages only).                                                   *)
(*                                                                         *)
(* A packet is a header, which has the upper bits of the time, and then    *)
(* messages: a byte with the lower bits of the time, a status byte, data.  *)
(* What repeats may be left out.  The sizes are parameters: time has       *)
(* LowSize * HighSize values (128 * 64 in the code).                       *)
(***************************************************************************)
EXTENDS Integers, SequencesExt

CONSTANTS
  LowSize, HighSize,
  Mtu,       (* bytes a packet has room for                                 *)
  Capacity,  (* packets the ring has room for, 10                           *)
  Received   (* messages of the host there is room for, 100                 *)

(* With less room a message would not fit into an empty packet. *)
CodecAssumption ==
  /\ {LowSize, HighSize, Capacity, Received} \subseteq Nat \ {0}
  /\ Mtu \in Nat /\ Mtu > 5

SmallestOf(m, n) == IF m < n THEN m ELSE n
Never == -1  (* the "illegal" time 0xffff *)
IsStatus(b) == b >= 128
Header(t) == 128 + ((t \div LowSize) % HighSize)
TimestampLow(t) == 128 + (t % LowSize)

(* How many bytes a message with this status byte has. *)
MessageSize(s) ==
  CASE s \in {241, 243} \/ s \in 192..223 -> 2
    [] s = 242 \/ s < 192 \/ s \in 224..239 -> 3
    [] OTHER -> 1

-----------------------------------------------------------------------------
(* The encoder: the message being collected (its kind, its bytes, how many *)
(* it is to have, and how many have come), the last status byte of a       *)
(* channel, the packet being filled and the status bytes it repeats.       *)

NewEncoder ==
  [kind |-> "common", bytes |-> <<0, 0, 0>>, nbytes |-> 0, next |-> 0,
   time |-> Never, previous |-> Never, running |-> 0,
   pkt |-> <<>>, pktRunning |-> 0, pktPrevious |-> 0,
   stopped |-> FALSE, ready |-> FALSE, ring |-> <<>>]

(* ring_buffer_push() of a packet: it is dropped if there is no room. *)
PushPacket(e) ==
  [e EXCEPT !.ring = IF Len(@) < Capacity THEN Append(@, e.pkt) ELSE @,
            !.pkt = <<>>, !.pktRunning = 0, !.pktPrevious = 0]

WithHeader(pkt, t) == IF pkt = <<>> THEN <<Header(t)>> ELSE pkt

(* midi_service_stream_flush_rt_midi_to_pkt(), one message: each is        *)
(* flushed when it comes.                                                  *)
PutRealTime(e, status, now) ==
  LET f == IF Len(e.pkt) + 2 >= Mtu THEN PushPacket(e) ELSE e IN
  [f EXCEPT !.pkt = WithHeader(@, now) \o <<TimestampLow(now), status>>,
            !.pktPrevious = status]

(* midi_service_stream_encode_bt_pkt() *)
EncodeBtPkt(e) ==
  LET isChannel == e.kind = "channel"
      requiresByte0 == ~isChannel \/ e.pktRunning # e.bytes[1]
      timestamped == \/ /\ e.kind # "sysex"
                        /\ requiresByte0 \/ e.previous # e.time
                     \/ isChannel /\ e.pktPrevious # e.pktRunning
      first == IF requiresByte0 THEN 1 ELSE 2
      total == e.nbytes + (IF timestamped THEN 1 ELSE 0) - (first - 1)
      overflow == Len(e.pkt) + total >= Mtu
      f == IF overflow THEN PushPacket(e) ELSE e
  IN IF e.nbytes = 0 THEN e
     ELSE [f EXCEPT
       !.pktRunning = IF isChannel THEN e.bytes[1] ELSE @,
       !.pktPrevious = IF IsStatus(e.bytes[1]) THEN e.bytes[1] ELSE @,
       !.pkt = WithHeader(@, e.time)
               \o (IF timestamped \/ overflow THEN <<TimestampLow(e.time)>> ELSE <<>>)
               \o SubSeq(e.bytes, first, e.nbytes)]

EncodeFullBtPkt(e) == [EncodeBtPkt(e) EXCEPT !.next = 0]

(* midi_service_stream_discard_stream() *)
DiscardStream(e) ==
  [e EXCEPT !.next = 0, !.pkt = <<>>, !.previous = Never, !.running = 0,
            !.kind = "common", !.nbytes = 0, !.time = Never, !.stopped = TRUE]

InSysex(e) == e.kind \in {"sysex", "sysex start"}

-----------------------------------------------------------------------------
(* ble_midi_pkt_codec_push_midi(), by the bytes that come. *)

StartSysex(e, now) ==
  [e EXCEPT !.previous = now, !.kind = "sysex start", !.nbytes = 1,
            !.running = 0, !.bytes[1] = 240, !.next = 1]

EndSysex(e) ==
  LET f == IF e.next # 0 THEN EncodeBtPkt(e) ELSE e IN
  IF ~InSysex(e) THEN DiscardStream(e)
  ELSE [EncodeFullBtPkt([f EXCEPT !.time = e.previous, !.bytes[1] = 247,
                                  !.kind = "common", !.nbytes = 1])
        EXCEPT !.running = 0]

RealTime(e, status, now) ==
  LET f == IF InSysex(e) /\ e.nbytes > 0
           THEN [EncodeFullBtPkt(e) EXCEPT !.kind = "sysex", !.nbytes = 0]
           ELSE e
  IN PutRealTime(f, status, now)

CommonStatus(e, status, now) ==
  LET f == [e EXCEPT !.bytes[1] = status, !.previous = now, !.time = now,
                     !.running = 0, !.kind = "common",
                     !.nbytes = MessageSize(status)]
  IN IF MessageSize(status) = 1
     THEN [EncodeFullBtPkt(f) EXCEPT !.nbytes = 0]
     ELSE [f EXCEPT !.next = 1]

ChannelStatus(e, status, now) ==
  [e EXCEPT !.running = status, !.bytes[1] = status, !.previous = now,
            !.time = now, !.next = 1, !.kind = "channel",
            !.nbytes = MessageSize(status)]

StatusByte(e, b, now) ==
  CASE b = 240 -> StartSysex(e, now)
    [] b = 247 -> EndSysex(e)
    [] b >= 248 -> RealTime(e, b, now)
    [] b \in 241..246 -> CommonStatus(e, b, now)
    [] OTHER -> ChannelStatus(e, b, now)

SysexByte(e, b) ==
  LET f == [e EXCEPT !.bytes[e.next + 1] = b, !.next = @ + 1, !.nbytes = @ + 1]
  IN IF f.next < 3 THEN f
     ELSE [EncodeFullBtPkt(f) EXCEPT !.time = f.previous, !.kind = "sysex",
                                     !.nbytes = 0]

(* A channel message without a status byte repeats the last one's. *)
RunningByte(e, b, now) ==
  LET f == [e EXCEPT !.bytes[2] = b, !.time = now, !.next = 2] IN
  IF e.running = 0 \/ e.running # e.bytes[1] THEN DiscardStream(e)
  ELSE IF e.nbytes = 2 THEN EncodeFullBtPkt(f) ELSE f

NextByte(e, b) ==
  LET f == [e EXCEPT !.bytes[e.next + 1] = b, !.next = @ + 1] IN
  IF e.next >= e.nbytes THEN DiscardStream(e)
  ELSE IF f.next < f.nbytes THEN f
  ELSE [EncodeFullBtPkt(f) EXCEPT
          !.nbytes = IF e.kind = "channel" THEN @ ELSE 0]

DataByte(e, b, now) ==
  IF InSysex(e) THEN SysexByte(e, b)
  ELSE IF e.kind = "channel" /\ e.next = 0 THEN RunningByte(e, b, now)
  ELSE NextByte(e, b)

(* What is encoded at the end of the call goes into the ring, and is ready *)
(* to be sent; an error in the stream ends the call at once.               *)
PushMidi(e, bytes, now) ==
  LET Push(f, b) == IF f.stopped THEN f
                    ELSE IF IsStatus(b) THEN StatusByte(f, b, now)
                    ELSE DataByte(f, b, now)
      f == FoldLeft(Push, [e EXCEPT !.ready = FALSE], bytes)
  IN IF f.stopped THEN [f EXCEPT !.stopped = FALSE]
     ELSE IF f.pkt # <<>> THEN [PushPacket(f) EXCEPT !.ready = TRUE]
     ELSE f

-----------------------------------------------------------------------------
(* The decoder: how much of the packet it has read, what it takes itself   *)
(* to be in, the time of the last message, the status byte data may        *)
(* repeat, the messages, and whether it has given up.                      *)
(*                                                                         *)
(* The ring of the messages has room for this many more: room.             *)

Bit(n, i) == (n \div 2^i) % 2
BitOr(m, n) ==
  MapThenSumSet(LAMBDA i : IF Bit(m, i) + Bit(n, i) > 0 THEN 2^i ELSE 0, 0..13)

(* midi_service_timestamp_decode() *)
DecodeTimestamp(d, b) ==
  LET high == IF d.low > b THEN d.high + 1 ELSE d.high IN
  [d EXCEPT !.high = high, !.low = b, !.time = BitOr(high, b - 128),
            !.pos = @ + 1]

(* midi_service_stream_push() *)
PushMessage(d, bytes, room) ==
  IF Len(d.out) < room
  THEN [d EXCEPT !.out = Append(@, [bytes |-> bytes, time |-> d.time])]
  ELSE [d EXCEPT !.stopped = TRUE]

(* ble_midi_pkt_codec_decode_sysex_data(): everything up to the next       *)
(* status byte, three bytes to a message.                                  *)
DecodeSysexData(d, pkt, first, room) ==
  LET end == CHOOSE n \in d.pos..Len(pkt) :
               /\ \A i \in d.pos + 1..n : ~IsStatus(pkt[i])
               /\ n = Len(pkt) \/ IsStatus(pkt[n + 1])
      bytes == first \o SubSeq(pkt, d.pos + 1, end)
      chunks == [i \in 1..((Len(bytes) + 2) \div 3) |->
                  SubSeq(bytes, 3 * i - 2, SmallestOf(3 * i, Len(bytes)))]
      Push(f, chunk) == IF f.stopped THEN f ELSE PushMessage(f, chunk, room)
  IN FoldLeft(Push, [d EXCEPT !.pos = end, !.kind = "sysex"], chunks)

(* A time and a status byte, outside of system exclusive data. *)
DecodeStatus(d, pkt, room) ==
  LET t == DecodeTimestamp(d, pkt[d.pos + 1])
      status == pkt[d.pos + 2]
      isChannel == status < 240
      end == t.pos + MessageSize(status)
      f == [t EXCEPT !.pos = @ + 1,
                     !.running = IF isChannel THEN status ELSE @]
  IN IF status = 240 THEN DecodeSysexData(f, pkt, <<status>>, room)
     ELSE IF end <= Len(pkt)
     THEN PushMessage([f EXCEPT !.pos = end,
                                !.kind = IF isChannel THEN "channel" ELSE "other"],
                      SubSeq(pkt, t.pos + 1, end), room)
     ELSE [f EXCEPT !.stopped = ~isChannel,
                    !.kind = IF MessageSize(status) = 2 THEN "other" ELSE @]

(* A real-time message within system exclusive data. *)
DecodeRealTimeInSysex(d, pkt, room) ==
  LET t == DecodeTimestamp(d, pkt[d.pos + 1])
      f == PushMessage([t EXCEPT !.pos = @ + 1], <<pkt[d.pos + 2]>>, room)
      g == [f EXCEPT !.time = d.time]
  IN IF f.stopped THEN f ELSE DecodeSysexData(g, pkt, <<>>, room)

(* Data that repeats the last status byte, and with it a time or not. *)
DecodeRunning(d, pkt, room) ==
  LET end == d.pos + MessageSize(d.running) - 1 IN
  PushMessage([d EXCEPT !.pos = end, !.kind = "channel"],
              <<d.running>> \o SubSeq(pkt, d.pos + 1, end), room)

GiveUp(d) == [d EXCEPT !.stopped = TRUE]

(* One round of the loop.  What it does not recognize it leaves as it is.  *)
DecodeStep(d, pkt, room) ==
  LET n == Len(pkt)
      here == IsStatus(pkt[d.pos + 1])
      next == IsStatus(pkt[d.pos + 2])
      fits == d.pos + MessageSize(d.running) <= n
      fitsUntimed == d.pos + MessageSize(d.running) - 1 <= n
  IN IF d.pos + 1 >= n THEN d ELSE
     CASE here /\ next /\ d.kind # "sysex" -> DecodeStatus(d, pkt, room)
       [] here /\ next /\ d.kind = "sysex" ->
            IF pkt[d.pos + 2] >= 248 THEN DecodeRealTimeInSysex(d, pkt, room)
            ELSE IF pkt[d.pos + 2] = 247 THEN [d EXCEPT !.kind = "other"]
            ELSE d
       [] here /\ ~next ->
            IF d.running # 0 /\ fits
            THEN DecodeRunning(DecodeTimestamp(d, pkt[d.pos + 1]), pkt, room)
            ELSE GiveUp(d)
       [] ~here /\ ~next ->
            IF d.kind = "channel" /\ fitsUntimed
            THEN DecodeRunning(d, pkt, room)
            ELSE GiveUp(d)
       [] OTHER -> d

(* ble_midi_pkt_codec_ble_midi_decode_push(): a packet may begin in the    *)
(* middle of system exclusive data.  Two rounds for each byte are enough.  *)
Decode(pkt, room) ==
  LET start == [pos |-> 1, kind |-> "other", time |-> 0,
                high |-> IF pkt = <<>> THEN 0 ELSE (pkt[1] - 128) * LowSize, low |-> 0,
                running |-> 0, out |-> <<>>, stopped |-> FALSE]
      first == IF IsStatus(pkt[2]) THEN start
               ELSE DecodeSysexData(start, pkt, <<>>, room)
      round[i \in 0..2 * Len(pkt)] ==
        IF i = 0 THEN first
        ELSE LET d == round[i - 1] IN
             IF d.stopped \/ d.pos >= Len(pkt) THEN d
             ELSE DecodeStep(d, pkt, room)
  IN IF Len(pkt) < 2 \/ pkt[1] \notin 128..191 THEN [start EXCEPT !.stopped = TRUE]
     ELSE round[2 * Len(pkt)]

Hangs(pkt, room) ==
  LET d == Decode(pkt, room) IN ~d.stopped /\ d.pos < Len(pkt)
=============================================================================
