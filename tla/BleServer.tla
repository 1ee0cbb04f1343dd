------------------------------ MODULE BleServer ------------------------------
(***************************************************************************)
(* The drum as a Bluetooth LE MIDI device (ble_server.cpp, and the library *)
(* below it: ble_midi_server.c, midi_service_server.c and                  *)
(* midi_service_stream_handler.c).                                         *)
(*                                                                         *)
(* The MIDI library writes one byte at a time in the main loop; the        *)
(* Bluetooth stack calls back in interrupts, also between two bytes of a   *)
(* message.  The stack and the host are external.  There is one connection *)
(* (BLE_MIDI_SERVER_MAX_CONNECTIONS).                                      *)
(***************************************************************************)
EXTENDS BleMidiCodec

CONSTANTS
  Messages,     (* what the drum plays, as the bytes of the messages        *)
  HostMessages  (* what the host may put into a packet                      *)

NoHandle == 0  (* HCI_CON_HANDLE_INVALID; the connection has the handle 1   *)

VARIABLES
  selected,    (* the transport is started                                  *)
  initialized,
  stack,       (* the power state of the Bluetooth stack                    *)
  link,        (* the connection, as the stack knows it                     *)
  attached,    (* connection_handle of the context                          *)
  con_handle,  (* the one the server writes to                              *)
  encoder,     (* of the context                                            *)
  from_ble,    (* messages of the host; nobody reads them                   *)
  requested,   (* the stack will call midi_can_send()                       *)
  crashed,     (* a call through a null pointer                             *)
  clock,       (* the time the packets tell, 13 bits                        *)
  writing,     (* <<the message being written>>: its bytes that are left,   *)
               (* and whether the others went to this subscription          *)
  due,         (* the messages the host is to hear (history)                *)
  told         (* the messages of the host there was room for (history)     *)

server == <<selected, initialized, stack, crashed>>
connection == <<link, attached, con_handle>>
codec == <<encoder, from_ble, requested>>
history == <<due, told>>
vars == <<server, connection, codec, clock, writing, history>>

(* A plausible slip: the message being collected is kept. *)
InitDataOfTheRings ==
  /\ encoder' = [encoder EXCEPT !.ring = <<>>] /\ from_ble' = <<>>
  /\ due' = <<>> /\ told' = <<>>
  /\ writing' = [i \in DOMAIN writing |-> [writing[i] EXCEPT !.whole = FALSE]]

(* ble_midi_pkt_codec_init_data() *)
InitData ==
  /\ encoder' = NewEncoder /\ from_ble' = <<>>
  /\ due' = <<>> /\ told' = <<>>
  /\ writing' = [i \in DOMAIN writing |-> [writing[i] EXCEPT !.whole = FALSE]]

-----------------------------------------------------------------------------
(* begin(), ble_midi_server_init(): nothing happens while the stack is     *)
(* still shutting down.                                                    *)
Start ==
  /\ ~selected /\ selected' = TRUE
  /\ IF initialized
     THEN UNCHANGED <<initialized, stack, connection, codec, writing, history>>
     ELSE /\ initialized' = TRUE /\ stack' = "starting"
          /\ con_handle' = NoHandle /\ attached' = NoHandle
          /\ InitData
          /\ UNCHANGED <<link, requested>>
  /\ UNCHANGED <<crashed, clock>>

(* stop(), ble_midi_server_deinit() *)
Stop ==
  /\ selected /\ writing = <<>>
  /\ selected' = FALSE
  /\ stack' = IF initialized THEN "halting" ELSE stack
  /\ UNCHANGED <<initialized, crashed, connection, codec, clock, writing, history>>

(* write() *)
Write(b) ==
  LET e == PushMidi(encoder, <<b>>, clock) IN
  IF con_handle # NoHandle /\ con_handle = attached
  THEN /\ encoder' = e
       /\ requested' = (requested \/ e.ready)
  ELSE UNCHANGED <<encoder, requested>>

IsServed == con_handle # NoHandle

(* A note begins with its status byte ... *)
BeginMessage ==
  /\ selected /\ writing = <<>>
  /\ \E m \in Messages :
       /\ Write(m[1])
       /\ writing' = <<[message |-> m, left |-> Tail(m), time |-> clock,
                        whole |-> IsServed]>>
  /\ UNCHANGED <<server, connection, from_ble, clock, history>>

(* ... and ends with its last byte.  If there is room it is to be heard.   *)
ContinueMessage ==
  /\ writing # <<>>
  /\ LET w == writing[1]
         whole == w.whole /\ IsServed IN
     /\ Write(w.left[1])
     /\ IF Len(w.left) > 1
        THEN /\ writing' = <<[w EXCEPT !.left = Tail(@), !.whole = whole]>>
             /\ UNCHANGED due
        ELSE /\ writing' = <<>>
             /\ due' = IF whole /\ Len(encoder.ring) < Capacity
                       THEN Append(due, [bytes |-> w.message, time |-> w.time])
                       ELSE due
  /\ UNCHANGED <<server, connection, from_ble, clock, told>>

Tick ==
  /\ clock' = (clock + 1) % (LowSize * HighSize)
  /\ UNCHANGED <<server, connection, codec, writing, history>>

-----------------------------------------------------------------------------
(* Callbacks of the stack. *)

StackWorks ==
  /\ stack = "starting" /\ stack' = "working"
  /\ UNCHANGED <<selected, initialized, crashed, connection, codec, clock, writing, history>>

StackOff ==
  /\ stack = "halting" /\ link = NoHandle
  /\ stack' = "off" /\ initialized' = FALSE
  /\ UNCHANGED <<selected, crashed, connection, codec, clock, writing, history>>

(* ATT_EVENT_CONNECTED *)
Connect ==
  /\ stack = "working" /\ link = NoHandle
  /\ link' = 1
  /\ attached' = IF attached = NoHandle THEN 1 ELSE attached
  /\ UNCHANGED <<server, con_handle, codec, clock, writing, history>>

(* The host enables notifications. *)
Subscribe ==
  /\ link # NoHandle
  /\ IF attached = link
     THEN con_handle' = link /\ InitData
     ELSE UNCHANGED <<con_handle, encoder, from_ble, writing, history>>
  /\ UNCHANGED <<server, link, attached, requested, clock>>

(* It disables them: the context forgets the connection. *)
Unsubscribe ==
  /\ link # NoHandle
  /\ IF attached = link
     THEN attached' = NoHandle /\ con_handle' = NoHandle
     ELSE UNCHANGED <<attached, con_handle>>
  /\ UNCHANGED <<server, link, codec, clock, writing, history>>

(* ATT_EVENT_DISCONNECTED and HCI_EVENT_DISCONNECTION_COMPLETE *)
Disconnect ==
  /\ link # NoHandle
  /\ link' = NoHandle /\ con_handle' = NoHandle
  /\ attached' = IF attached = link THEN NoHandle ELSE attached
  /\ requested' = FALSE
  /\ UNCHANGED <<server, encoder, from_ble, clock, writing, history>>

(* midi_can_send() *)
CanSend ==
  /\ requested /\ link # NoHandle
  /\ IF encoder.ring = <<>> THEN UNCHANGED <<encoder, due>>
     ELSE encoder' = [encoder EXCEPT !.ring = Tail(@)] /\ due' = Tail(due)
  /\ requested' = (Len(encoder.ring) > 1 /\ attached # NoHandle)
  /\ UNCHANGED <<server, connection, from_ble, clock, writing, told>>

(* How the host packs messages of one time.  It leaves out the status byte *)
(* and the time of a message with two data bytes that repeat.              *)
HostPacket(ms) ==
  LET Repeats(i) == /\ i > 1 /\ ms[i][1] = ms[i - 1][1]
                    /\ ms[i][1] < 240 /\ MessageSize(ms[i][1]) = 3
      Part(i) == IF Repeats(i) THEN Tail(ms[i]) ELSE <<TimestampLow(clock)>> \o ms[i]
  IN <<Header(clock)>> \o FlattenSeq([i \in DOMAIN ms |-> Part(i)])

(* The host writes one or two messages.  A context there is not is used. *)
HostWrites ==
  /\ link # NoHandle
  /\ \E n \in 1..2 : \E ms \in [1..n -> HostMessages] :
       LET room == Received - Len(from_ble)
           timed == [i \in 1..n |-> [bytes |-> ms[i], time |-> clock]] IN
       IF attached = link
       THEN /\ from_ble' = from_ble \o Decode(HostPacket(ms), room).out
            /\ told' = told \o SubSeq(timed, 1, SmallestOf(n, room))
            /\ UNCHANGED crashed
       ELSE crashed' = TRUE /\ UNCHANGED <<from_ble, told>>
  /\ UNCHANGED <<selected, initialized, stack, connection, encoder, requested,
                 clock, writing, due>>

-----------------------------------------------------------------------------
Init ==
  /\ selected = FALSE /\ initialized = FALSE /\ stack = "off" /\ crashed = FALSE
  /\ link = NoHandle /\ attached = NoHandle /\ con_handle = NoHandle
  /\ encoder = NewEncoder /\ from_ble = <<>> /\ requested = FALSE
  /\ clock = 0 /\ writing = <<>> /\ due = <<>> /\ told = <<>>

Next ==
  /\ ~crashed
  /\ \/ Start \/ Stop \/ BeginMessage \/ ContinueMessage \/ Tick
     \/ StackWorks \/ StackOff \/ Connect \/ Subscribe \/ Unsubscribe
     \/ Disconnect \/ CanSend \/ HostWrites

Spec == Init /\ [][Next]_vars

-----------------------------------------------------------------------------
(* Each packet in the ring tells one message, with its time: those that    *)
(* were written whole to this subscription while there was room, in order. *)
(* A message the subscription began or ended in the middle of leaves       *)
(* nothing, and nothing is taken for the data of another message           *)
(* (midi_service_stream_write, ble_midi_pkt_codec_push_midi).              *)
PacketsTellTheNotes ==
  /\ Len(encoder.ring) = Len(due)
  /\ \A i \in DOMAIN due : /\ Decode(encoder.ring[i], 2).out = <<due[i]>>
                           /\ ~Hangs(encoder.ring[i], 2)

(* No packet waits for a call that nobody asked for: the ring of a         *)
(* subscribed host is empty or midi_can_send() will be called.             *)
PacketsGoOut == IsServed /\ encoder.ring # <<>> => requested

(* The messages of the host arrive, each once, as far as there is room     *)
(* (ble_midi_pkt_codec_ble_midi_decode_push).                              *)
HostIsUnderstood == from_ble = told
=============================================================================
