-------------------------------- MODULE Dhcp --------------------------------
(***************************************************************************)
(* The DHCP server of the USB network (lib/networking/dhserver.c) with the *)
(* few addresses of network_usb.cpp, and clients that follow the protocol: *)
(* they discover and request, renew, leave, come back for their address,   *)
(* and repeat what was not answered.  The link keeps the order, but loses  *)
(* packets.                                                                *)
(*                                                                         *)
(* A client is told by its hardware address; the address of the server,    *)
(* the options of the answers and their destination (always a broadcast,   *)
(* or the address the client has) are left out.  dhcp_data keeps the rest  *)
(* of the last packet behind a shorter one: the options of clients come    *)
(* first and are padded, so that what they do not overwrite holds no       *)
(* option.                                                                 *)
(***************************************************************************)
EXTENDS Naturals, Sequences

CONSTANTS
  Clients,
  Entries,   (* the number of addresses, 1..Entries                         *)
  MaxQueue   (* packets of the clients that wait                            *)

NoClient == "none"
NoAddress == 0
Addresses == 1..Entries

DhcpAssumption ==
  /\ NoClient \notin Clients
  /\ Entries \in Nat \ {0} /\ MaxQueue \in Nat \ {0}

VARIABLES
  entries,   (* address -> the client that has it                           *)
  client,    (* what it does, and the address it has or asks for            *)
  requests,  (* packets to the server; live: the client waits for it yet    *)
  answers,   (* packets to the clients                                      *)
  forgotten  (* clients whose lease the server freed and did not renew      *)
             (* (history)                                                   *)

vars == <<entries, client, requests, answers, forgotten>>

-----------------------------------------------------------------------------
IsVacant(a) == entries[a] = NoClient
First(S) == CHOOSE a \in S : \A b \in S : a <= b
EntryByMac(c) == {a \in Addresses : entries[a] = c}
VacantAddress == {a \in Addresses : IsVacant(a)}

Answer(kind, c, a, live) == [kind |-> kind, to |-> c, addr |-> a, live |-> live]

(* DHCP_DISCOVER: an address is offered, and not reserved.  pbuf_alloc()   *)
(* may fail.                                                               *)
Discover(m) ==
  LET fits == IF EntryByMac(m.from) # {} THEN EntryByMac(m.from) ELSE VacantAddress
  IN  /\ \/ /\ fits # {}
            /\ answers' = Append(answers, Answer("offer", m.from, First(fits), m.live))
         \/ UNCHANGED answers
      /\ UNCHANGED <<entries, forgotten>>

(* A plausible slip: an address is given away again. *)
RequestTaken(m) ==
  LET freed == [a \in Addresses |-> IF entries[a] = m.from THEN NoClient ELSE entries[a]]
  IN  IF m.addr = NoAddress
      THEN UNCHANGED <<entries, answers, forgotten>>
      ELSE IF m.addr \in Addresses
      THEN /\ entries' = [freed EXCEPT ![m.addr] = m.from]
           /\ answers' = Append(answers, Answer("ack", m.from, m.addr, m.live))
           /\ forgotten' = forgotten \ {m.from}
      ELSE entries' = freed /\ UNCHANGED <<answers, forgotten>>

(* DHCP_REQUEST: one without an address (a renewal) is ignored.  The lease *)
(* of the client is freed before anything is known of the new one; one     *)
(* that cannot be given is not refused, there is no answer.                *)
Request(m) ==
  LET freed == [a \in Addresses |-> IF entries[a] = m.from THEN NoClient ELSE entries[a]]
      Freed == /\ entries' = freed
               /\ forgotten' = IF freed # entries THEN forgotten \cup {m.from}
                               ELSE forgotten
               /\ UNCHANGED answers
  IN  IF m.addr = NoAddress
      THEN UNCHANGED <<entries, answers, forgotten>>
      ELSE IF m.addr \in Addresses /\ freed[m.addr] = NoClient
      THEN \/ /\ entries' = [freed EXCEPT ![m.addr] = m.from]
              /\ answers' = Append(answers, Answer("ack", m.from, m.addr, m.live))
              /\ forgotten' = forgotten \ {m.from}
           \/ Freed                                  (* pbuf_alloc() failed *)
      ELSE Freed

(* udp_recv_proc(); a release and the other kinds are ignored. *)
UdpRecvProc ==
  /\ requests # <<>> /\ Len(answers) < MaxQueue
  /\ requests' = Tail(requests)
  /\ CASE Head(requests).kind = "discover" -> Discover(Head(requests))
       [] Head(requests).kind = "request" -> Request(Head(requests))
       [] OTHER -> UNCHANGED <<entries, answers, forgotten>>
  /\ UNCHANGED client

-----------------------------------------------------------------------------
(* The clients.  A new transaction outdates the packets of the last.       *)
Outdated(c, packets) ==
  [i \in DOMAIN packets |-> IF packets[i].from = c
                            THEN [packets[i] EXCEPT !.live = FALSE] ELSE packets[i]]
OutdatedAnswers(c) ==
  [i \in DOMAIN answers |-> IF answers[i].to = c
                            THEN [answers[i] EXCEPT !.live = FALSE] ELSE answers[i]]

Send(c, kind, a, isNew) ==
  /\ Len(requests) < MaxQueue
  /\ requests' = Append(IF isNew THEN Outdated(c, requests) ELSE requests,
                        [kind |-> kind, from |-> c, addr |-> a, live |-> TRUE])
  /\ answers' = IF isNew THEN OutdatedAnswers(c) ELSE answers
  /\ UNCHANGED <<entries, forgotten>>

Becomes(c, phase, a) == client' = [client EXCEPT ![c] = [phase |-> phase, addr |-> a]]

(* It starts, or gives up what it tried. *)
StartDiscovery(c) ==
  /\ client[c].phase # "bound"
  /\ Becomes(c, "selecting", NoAddress)
  /\ Send(c, "discover", NoAddress, TRUE)

(* It was here before and asks for the address of that time, which may be *)
(* one of another network.                                                *)
Reboot(c) ==
  /\ client[c].phase = "init"
  /\ \E a \in Addresses \cup {Entries + 1} :
       /\ client[c].addr \in {NoAddress, a}
       /\ Becomes(c, "requesting", a)
       /\ Send(c, "request", a, TRUE)

Repeat(c) ==
  /\ client[c].phase = "requesting"
  /\ Send(c, "request", client[c].addr, FALSE)
  /\ UNCHANGED client

Renew(c) ==
  /\ client[c].phase = "bound"
  /\ Send(c, "request", NoAddress, FALSE)
  /\ UNCHANGED client

(* It releases its address, or its lease ends, or it is unplugged. *)
Leave(c) ==
  /\ client[c].phase = "bound"
  /\ Becomes(c, "init", client[c].addr)
  /\ \/ Send(c, "release", client[c].addr, TRUE)
     \/ /\ requests' = Outdated(c, requests) /\ answers' = OutdatedAnswers(c)
        /\ UNCHANGED <<entries, forgotten>>

Hear ==
  LET m == Head(answers) c == m.to
  IN  /\ answers # <<>>
      /\ CASE m.live /\ m.kind = "offer" /\ client[c].phase = "selecting" ->
                /\ Len(requests) < MaxQueue
                /\ Becomes(c, "requesting", m.addr)
                /\ requests' = Append(requests, [kind |-> "request", from |-> c,
                                                 addr |-> m.addr, live |-> TRUE])
           [] m.live /\ m.kind = "ack" /\ client[c].phase = "requesting"
              /\ client[c].addr = m.addr ->
                Becomes(c, "bound", m.addr) /\ UNCHANGED requests
           [] OTHER -> UNCHANGED <<client, requests>>
      /\ answers' = Tail(answers)
      /\ UNCHANGED <<entries, forgotten>>

Lose ==
  /\ \/ requests # <<>> /\ requests' = Tail(requests) /\ UNCHANGED answers
     \/ answers # <<>> /\ answers' = Tail(answers) /\ UNCHANGED requests
  /\ UNCHANGED <<entries, client, forgotten>>

-----------------------------------------------------------------------------
Init ==
  /\ entries = [a \in Addresses |-> NoClient]
  /\ client = [c \in Clients |-> [phase |-> "init", addr |-> NoAddress]]
  /\ requests = <<>> /\ answers = <<>>
  /\ forgotten = {}

Next ==
  \/ UdpRecvProc \/ Hear \/ Lose
  \/ \E c \in Clients : StartDiscovery(c) \/ Reboot(c) \/ Repeat(c) \/ Renew(c) \/ Leave(c)

Spec == Init /\ [][Next]_vars

-----------------------------------------------------------------------------
Bound(c) == client[c].phase = "bound"

(* The server knows who has an address: no lease of a client is given to   *)
(* another, however requests cross, are repeated and lost - but for one    *)
(* that was freed by a repeated request that then could not be answered.   *)
LeasesAreKept ==
  \A c \in Clients : Bound(c) /\ c \notin forgotten => entries[client[c].addr] = c
=============================================================================
