----------------------------- MODULE NetworkUsb -----------------------------
(***************************************************************************)
(* The network over USB (boards/rp2040/network_usb.cpp): the callbacks of  *)
(* the USB stack, which keep one received frame, update(), which gives it  *)
(* to the IP stack, and the output, which runs the USB stack again and     *)
(* again until a frame fits: then the callbacks run while the received     *)
(* frame is being handled.                                                 *)
(*                                                                         *)
(* External: the network driver of the USB stack.  It holds the frames     *)
(* that came in until the callback takes one, and calls it when a transfer *)
(* came in and when it is told to renew.  With one buffer (RNDIS) it takes *)
(* no transfer until the frame is taken and the reception renewed, with    *)
(* more of them (NCM) it takes them as long as there is room.  What it     *)
(* sends it needs no room for unless the host stops reading for a time.    *)
(***************************************************************************)
EXTENDS Naturals

CONSTANT Buffers   (* frames the driver holds *)

NetworkUsbAssumption == Buffers \in Nat \ {0}

VARIABLES
  mounted, suspended,  (* the state of the bus, as the USB stack knows it   *)
  usb_link_up,
  received_frame,      (* there is one                                      *)
  handling,            (* ethernet_input() has the frame                    *)
  sending,             (* linkoutput_fn() waits for room                    *)
  holds,               (* frames the driver holds                           *)
  armed,               (* it lets transfers in                              *)
  lost                 (* there was no memory for the last frame (history)  *)

bus == <<mounted, suspended, usb_link_up>>
driver == <<holds, armed>>
vars == <<bus, received_frame, handling, sending, driver, lost>>

Ready == mounted /\ ~suspended                             (* tud_ready() *)
TaskRuns == ~handling \/ sending

-----------------------------------------------------------------------------
(* tud_network_recv_cb() with one of the n frames the driver holds:        *)
(* pbuf_alloc() may fail, and then the frame counts as taken, too.  What   *)
(* lets transfers in again is room, with one buffer only a renewal.        *)
ReceiveCb(n, frame) ==
  IF frame \/ n = 0
  THEN received_frame' = frame /\ holds' = n /\ armed' = (n < Buffers) /\ UNCHANGED lost
  ELSE \E got \in BOOLEAN :
         /\ received_frame' = got /\ lost' = ~got
         /\ holds' = n - 1 /\ armed' = (Buffers > 1)

(* A transfer came in (tud_task()). *)
FrameArrives ==
  /\ TaskRuns /\ Ready /\ armed
  /\ ReceiveCb(holds + 1, received_frame)
  /\ UNCHANGED <<bus, handling, sending>>

ApplyLinkState(isUp) == usb_link_up' = isUp

(* tud_mount_cb(), tud_umount_cb(), tud_suspend_cb(), tud_resume_cb() *)
BusChanges ==
  /\ TaskRuns
  /\ \/ ~mounted /\ mounted' = TRUE /\ suspended' = FALSE /\ ApplyLinkState(TRUE)
     \/ mounted /\ mounted' = FALSE /\ suspended' = FALSE /\ ApplyLinkState(FALSE)
     \/ /\ mounted /\ ~suspended
        /\ suspended' = TRUE /\ ApplyLinkState(FALSE) /\ UNCHANGED mounted
     \/ /\ suspended
        /\ suspended' = FALSE /\ ApplyLinkState(TRUE) /\ UNCHANGED mounted
  /\ UNCHANGED <<received_frame, handling, sending, driver, lost>>

(* tud_network_init_cb(): the host configures the interface (again).  The  *)
(* leftover is freed even if it is just being handled.                     *)
InitCb ==
  /\ TaskRuns /\ mounted
  /\ received_frame' = FALSE
  /\ holds' = 0 /\ armed' = TRUE /\ lost' = FALSE
  /\ UNCHANGED <<bus, handling, sending>>

-----------------------------------------------------------------------------
(* update() *)
HandleFrame ==
  /\ received_frame /\ ~handling
  /\ handling' = TRUE
  /\ UNCHANGED <<bus, received_frame, sending, driver, lost>>

(* linkoutput_fn(): a frame is sent at once, dropped if the bus is not     *)
(* ready, or waits for room.                                               *)
OutputWaits ==
  /\ handling /\ ~sending /\ Ready
  /\ sending' = TRUE
  /\ UNCHANGED <<bus, received_frame, handling, driver, lost>>

OutputEnds ==
  /\ sending /\ sending' = FALSE
  /\ UNCHANGED <<bus, received_frame, handling, driver, lost>>

(* A plausible slip: the reception is not renewed. *)
FrameHandledNotRenewed ==
  /\ handling /\ ~sending
  /\ handling' = FALSE
  /\ received_frame' = FALSE
  /\ armed' = (Buffers > 1 /\ holds < Buffers)
  /\ UNCHANGED <<bus, sending, holds, lost>>

(* The frame is gone, then tud_network_recv_renew().  Whatever the         *)
(* callback stored meanwhile is gone, too.                                 *)
FrameHandled ==
  /\ handling /\ ~sending
  /\ handling' = FALSE
  /\ ReceiveCb(holds, FALSE)
  /\ UNCHANGED <<bus, sending>>

Init ==
  /\ mounted = FALSE /\ suspended = FALSE /\ usb_link_up = FALSE
  /\ received_frame = FALSE /\ handling = FALSE /\ sending = FALSE
  /\ holds = 0 /\ armed = TRUE
  /\ lost = FALSE

Next ==
  \/ FrameArrives \/ BusChanges \/ InitCb
  \/ HandleFrame \/ OutputWaits \/ OutputEnds \/ FrameHandled

Spec == Init /\ [][Next]_vars

-----------------------------------------------------------------------------
(* The board does not become deaf: frames come in, or one is there that    *)
(* update() will handle and renew the reception after, whatever the bus    *)
(* does meanwhile - unless the last frame was dropped for lack of memory.  *)
ReceptionGoesOn == armed \/ received_frame \/ handling \/ lost
=============================================================================
