----------------------------- MODULE WebSession -----------------------------
(***************************************************************************)
(* The web pages and the firmware, over WebSockets (connection.ts,         *)
(* connection-state.tsx, config.tsx, file-upload.tsx, icon-bar.tsx and     *)
(* webui.cpp).                                                             *)
(*                                                                         *)
(* A page shows a copy of the configuration.  It changes the copy when its *)
(* user changes a setting, and sends the change; most changes are not      *)
(* answered.  A whole configuration comes when the page asks for it, and   *)
(* replaces the copy whatever has happened to it meanwhile.                *)
(*                                                                         *)
(* The configuration is one value.  A text message comes in frames, and a  *)
(* frame in pieces: its cut says in how many each.                         *)
(***************************************************************************)
EXTENDS Integers, SequencesExt

CONSTANTS
  Pages,
  Values,    (* of the configuration                                        *)
  Requests,  (* what changes it: a command, its value, and how the message  *)
             (* is cut                                                      *)
  MaxSent,   (* bound: messages of a page that wait                         *)
  MaxQueued  (* of the firmware for a page; beyond it they are dropped      *)

(* A page has one socket in use, and one it has closed may still close. *)
Sockets == Pages \X {1, 2}
NoSocket == <<"none", 0>>
NoConfig == "none"  (* before the first answer, and in a broken file *)

WebAssumption ==
  /\ NoConfig \notin Values
  /\ {MaxSent, MaxQueued} \subseteq Nat \ {0}
  /\ \A r \in Requests :
       /\ r.cmd \in {"set", "pad", "setConfig"} /\ r.value \in Values
       /\ r.cut # <<>> /\ \A f \in DOMAIN r.cut : r.cut[f] \in Nat \ {0}

VARIABLES
  value, isConfigDirty,  (* of the firmware                                 *)
  file,                  (* the configuration in the file                   *)
  resetDue,              (* the board will restart                          *)
  sock,                  (* socket -> its state                             *)
  sent,                  (* socket -> messages to the firmware              *)
  answers,               (* socket -> messages to the page                  *)
  pending,               (* socket -> pieces (pendingWsTextByClient)        *)
  websock,               (* page -> its socket                              *)
  timer,                 (* pages that will connect again                   *)
  connected,             (* pages that show they are connected              *)
  waiting,               (* pages that wait for the result of an upload     *)
  shown, shownDirty,     (* page -> its copy                                *)
  stale,                 (* pages whose copy another page, a lost message   *)
                         (* or an answer that was overtaken made old        *)
                         (* (history)                                       *)
  old                    (* socket -> how many of the answers were sent     *)
                         (* before the last change (history)                *)

firmware == <<value, isConfigDirty, file, resetDue>>
network == <<sock, sent, answers, pending>>
page == <<websock, timer, connected, waiting, shown, shownDirty>>
history == <<stale, old>>
vars == <<firmware, network, page, history>>

PageOf(s) == s[1]
IsUsed(s) == websock[PageOf(s)] = s

-----------------------------------------------------------------------------
(* Pages. *)

(* send(): what is sent while the socket is not open is gone. *)
Message(cmd, v, cut) == [cmd |-> cmd, value |-> v, cut |-> cut, come |-> 0]
SendOn(s, m) ==
  sent' = IF s \in Sockets /\ sock[s] = "open"
          THEN [sent EXCEPT ![s] = Append(@, m)] ELSE sent
HasRoom(s) == s \in Sockets => Len(sent[s]) < MaxSent

(* What is sent when the other end is gone does not arrive either. *)
StaleIfLost(p) ==
  IF websock[p] \in Sockets /\ sock[websock[p]] = "open" THEN stale ELSE stale \cup {p}

(* A setting is changed.  Settings, mappings and general ones are not      *)
(* answered ("set"), the name, role and connectors of a pad are ("pad").   *)
Change(p) ==
  /\ p \in connected /\ HasRoom(websock[p])
  /\ \E r \in Requests :
       /\ r.cmd # "setConfig"
       /\ shown' = [shown EXCEPT ![p] = r.value]
       /\ SendOn(websock[p], Message(r.cmd, r.value, r.cut))
  /\ shownDirty' = [shownDirty EXCEPT ![p] = TRUE]
  /\ stale' = StaleIfLost(p)
  /\ UNCHANGED <<firmware, sock, answers, pending, websock, timer, connected, waiting, old>>

(* The buttons for saving and restoring work if the page shows changes. *)
SaveOrRestore(p) ==
  /\ shownDirty[p] /\ HasRoom(websock[p])
  /\ \E c \in {"saveConfig", "restoreConfig"} :
       SendOn(websock[p], Message(c, NoConfig, <<1>>))
  /\ UNCHANGED <<firmware, sock, answers, pending, page, history>>

(* sendSetConfigCommand() *)
Upload(p) ==
  /\ HasRoom(websock[p])
  /\ \E r \in Requests :
       r.cmd = "setConfig" /\ SendOn(websock[p], Message(r.cmd, r.value, r.cut))
  /\ waiting' = waiting \cup {p}
  /\ shownDirty' = [shownDirty EXCEPT ![p] = TRUE]
  /\ stale' = StaleIfLost(p)
  /\ UNCHANGED <<firmware, sock, answers, pending, websock, timer, connected, shown, old>>

UploadTimeout(p) ==
  /\ p \in waiting /\ waiting' = waiting \ {p}
  /\ UNCHANGED <<firmware, network, websock, timer, connected, shown, shownDirty, history>>

(* connectInternal() *)
ConnectInternal(p) ==
  \E s \in Sockets :
    /\ PageOf(s) = p /\ sock[s] = "free"
    /\ sock' = [sock EXCEPT ![s] = "connecting"]
    /\ websock' = [websock EXCEPT ![p] = s]

(* connect(), and the time to connect again is over. *)
Connect(p) ==
  /\ websock[p] = NoSocket \/ p \in timer
  /\ ConnectInternal(p)
  /\ timer' = timer \ {p}
  /\ UNCHANGED <<firmware, sent, answers, pending, connected, waiting, shown, shownDirty, history>>

(* disconnect(): nobody is told. *)
Disconnect(p) ==
  LET s == websock[p] IN
  /\ s # NoSocket
  /\ websock' = [websock EXCEPT ![p] = NoSocket] /\ timer' = timer \ {p}
  /\ sock' = [sock EXCEPT ![s] = IF @ = "open" THEN "closing"
                                   ELSE IF @ = "free" THEN "free" ELSE "broken"]
  /\ UNCHANGED <<firmware, sent, answers, pending, connected, waiting, shown, shownDirty, history>>

(* onopen: the page asks for the configuration. *)
OnOpen(s) ==
  /\ sock[s] = "connecting"
  /\ sock' = [sock EXCEPT ![s] = "open"]
  /\ IF IsUsed(s)
     THEN /\ connected' = connected \cup {PageOf(s)}
          /\ sent' = [sent EXCEPT ![s] = <<Message("getConfig", NoConfig, <<1>>)>>]
     ELSE UNCHANGED <<connected, sent>>
  /\ UNCHANGED <<firmware, answers, pending, websock, timer, waiting, shown, shownDirty, history>>

(* onclose: the socket in use is replaced after a second. *)
OnClose(s) ==
  /\ sock[s] = "broken" \/ (sock[s] = "closing" /\ sent[s] = <<>>)
  /\ sock' = [sock EXCEPT ![s] = "free"]
  /\ sent' = [sent EXCEPT ![s] = <<>>]
  /\ answers' = [answers EXCEPT ![s] = <<>>]
  /\ pending' = [pending EXCEPT ![s] = <<>>]
  /\ old' = [old EXCEPT ![s] = 0]
  /\ IF IsUsed(s)
     THEN connected' = connected \ {PageOf(s)} /\ timer' = timer \cup {PageOf(s)}
     ELSE UNCHANGED <<connected, timer>>
  /\ UNCHANGED <<firmware, websock, waiting, shown, shownDirty, stale>>

IsChange(m) == m.cmd \in {"set", "pad", "saveConfig", "setConfig"}

(* A plausible slip: what comes from a socket that was given up counts. *)
ListensAlways(s) == sock[s] \in {"open", "closing", "broken"}

Listens(s) == IsUsed(s) /\ sock[s] \in {"open", "broken"}

(* onmessage: of the socket in use. *)
OnMessage(s) ==
  /\ answers[s] # <<>> /\ sock[s] # "free"
  /\ LET m == Head(answers[s])
         p == PageOf(s)
         overtaken == old[s] > 0 \/ \E i \in DOMAIN sent[s] : IsChange(sent[s][i])
     IN /\ answers' = [answers EXCEPT ![s] = Tail(@)]
        /\ old' = [old EXCEPT ![s] = IF @ > 0 THEN @ - 1 ELSE 0]
        /\ CASE ~Listens(s) -> UNCHANGED <<sent, waiting, shown, shownDirty, stale>>
             [] Listens(s) /\ m.kind = "config" ->
                  /\ shown' = [shown EXCEPT ![p] = m.value]
                  /\ shownDirty' = [shownDirty EXCEPT ![p] = m.dirty]
                  /\ stale' = IF overtaken THEN stale \cup {p} ELSE stale \ {p}
                  /\ UNCHANGED <<sent, waiting>>
             [] Listens(s) /\ m.kind = "setConfigResult" ->
                  /\ waiting' = waiting \ {p}
                  /\ IF p \in waiting /\ m.value = "success"
                     THEN SendOn(s, Message("getConfig", NoConfig, <<1>>))
                     ELSE UNCHANGED sent
                  /\ UNCHANGED <<shown, shownDirty, stale>>
  /\ UNCHANGED <<firmware, sock, pending, websock, timer, connected>>

-----------------------------------------------------------------------------
(* The firmware. *)

(* An answer to one client, if there is room for it. *)
Dropped(s) == Len(answers[s]) >= MaxQueued
Answer(s, m) ==
  answers' = IF Dropped(s) THEN answers ELSE [answers EXCEPT ![s] = Append(@, m)]

Config(v, dirty) == [kind |-> "config", value |-> v, dirty |-> dirty]
Result(r) == [kind |-> "setConfigResult", value |-> r, dirty |-> FALSE]

(* The configurations under way are old now, and what the pages show,      *)
(* except for the page whose change it was.                                *)
Outdate(pages) ==
  /\ old' = [s \in Sockets |-> Len(answers[s])]
  /\ stale' = stale \cup pages
Others(s) == IF IsUsed(s) THEN Pages \ {PageOf(s)} ELSE Pages

GetConfig(s) ==
  /\ Answer(s, Config(value, isConfigDirty))
  /\ UNCHANGED <<firmware, history>>

(* setSettings, setMappings and setGeneral *)
Set(s, v) ==
  /\ value' = v /\ isConfigDirty' = TRUE
  /\ Outdate(Others(s))
  /\ UNCHANGED <<file, resetDue, answers>>

(* setPadConfig and blePair *)
SetPadConfig(s, v) ==
  /\ value' = v /\ isConfigDirty' = TRUE
  /\ Answer(s, Config(v, TRUE))
  /\ Outdate(Others(s))
  /\ UNCHANGED <<file, resetDue>>

(* saveConfig: changes count as saved also if the file was cut off. *)
SaveConfig(s) ==
  /\ \E v \in {value, NoConfig} : file' = v
  /\ isConfigDirty' = FALSE
  /\ Answer(s, Config(value, FALSE))
  /\ Outdate(Others(s) \cup (IF Dropped(s) THEN {PageOf(s)} ELSE {}))
  /\ UNCHANGED <<value, resetDue>>

(* setConfig: if the file could be written the board restarts later.       *)
SetConfig(s, v) ==
  /\ \E success \in BOOLEAN :
       /\ file' = IF success THEN v ELSE NoConfig
       /\ resetDue' = (resetDue \/ success)
       /\ Answer(s, Result(IF success THEN "success" ELSE "failed"))
  /\ isConfigDirty' = FALSE
  /\ Outdate(Pages)
  /\ UNCHANGED value

(* handleTextMessage(), handleCommand() *)
HandleCommand(s, m) ==
  CASE m.cmd = "getConfig" -> GetConfig(s)
    [] m.cmd = "set" -> Set(s, m.value)
    [] m.cmd = "pad" -> SetPadConfig(s, m.value)
    [] m.cmd = "saveConfig" -> SaveConfig(s)
    [] m.cmd = "setConfig" -> SetConfig(s, m.value)

-----------------------------------------------------------------------------
(* Pieces of a message. *)

Total(cut) == FoldLeft(LAMBDA m, n : m + n, 0, cut)
Piece(m, i) == [cmd |-> m.cmd, value |-> m.value, number |-> i]
IsWhole(text, m) == text = [i \in 1..Total(m.cut) |-> Piece(m, i)]

(* handleTextMessage(): what is not a whole message is an error. *)
HandleTextMessage(s, text, m) ==
  IF IsWhole(text, m) THEN HandleCommand(s, m)
  ELSE UNCHANGED <<firmware, answers, history>>

(* A plausible slip: one buffer for all clients. *)
ClientIsAny(s) == CHOOSE t \in Sockets : TRUE

Client(s) == s  (* client->id() *)

(* WS_EVT_DATA: something of the first message that waits. *)
Arrives(s) == sent[s] # <<>> /\ sock[s] \in {"open", "closing"}

(* The next piece.  The last frame, if it comes in one piece, is taken for *)
(* a whole message, also if other frames came before: it cannot be parsed. *)
OnPiece(s) ==
  /\ Arrives(s) /\ Head(sent[s]).cmd # "restoreConfig"
  /\ LET m == Head(sent[s])
         i == m.come + 1
         isLast == i = Total(m.cut)
         isCompleteFrame == isLast /\ Last(m.cut) = 1
         text == IF i = 1 THEN <<Piece(m, i)>>
                 ELSE Append(pending[Client(s)], Piece(m, i))
     IN /\ sent' = [sent EXCEPT ![s] = IF isLast THEN Tail(@)
                                      ELSE [@ EXCEPT ![1].come = i]]
        /\ pending' = [pending EXCEPT ![Client(s)] = IF isLast THEN <<>> ELSE text]
        /\ IF isCompleteFrame /\ i > 1
           THEN stale' = stale \cup {PageOf(s)} /\ UNCHANGED <<firmware, answers, old>>
           ELSE IF isLast THEN HandleTextMessage(s, text, m)
           ELSE UNCHANGED <<firmware, answers, history>>
  /\ UNCHANGED <<sock, page>>

(* WS_EVT_DISCONNECT: the connection breaks; the page hears of it later.   *)
Break(s) ==
  /\ sock[s] \in {"connecting", "open", "closing"}
  /\ sock' = [sock EXCEPT ![s] = "broken"]
  /\ sent' = [sent EXCEPT ![s] = <<>>]
  /\ pending' = [pending EXCEPT ![s] = <<>>]
  /\ stale' = stale \cup {PageOf(s)}
  /\ UNCHANGED <<firmware, answers, page, old>>

(* reset(): what waits in the network is lost. *)
Restart ==
  /\ resetDue' = FALSE
  /\ value' = file /\ isConfigDirty' = FALSE
  /\ sock' = [s \in Sockets |-> IF sock[s] = "free" THEN "free" ELSE "broken"]
  /\ sent' = [s \in Sockets |-> <<>>] /\ pending' = [s \in Sockets |-> <<>>]
  /\ Outdate(Pages)
  /\ UNCHANGED <<file, answers, page>>

(* Of requestReset(): at once, or a second later. *)
RestoreConfig(s) == Arrives(s) /\ Head(sent[s]).cmd = "restoreConfig" /\ Restart
Reset == resetDue /\ Restart

-----------------------------------------------------------------------------
Init ==
  /\ value \in Values /\ file = value /\ isConfigDirty = FALSE /\ resetDue = FALSE
  /\ sock = [s \in Sockets |-> "free"]
  /\ sent = [s \in Sockets |-> <<>>] /\ answers = [s \in Sockets |-> <<>>]
  /\ pending = [s \in Sockets |-> <<>>]
  /\ websock = [p \in Pages |-> NoSocket]
  /\ timer = {} /\ connected = {} /\ waiting = {}
  /\ shown = [p \in Pages |-> NoConfig] /\ shownDirty = [p \in Pages |-> FALSE]
  /\ stale = Pages /\ old = [s \in Sockets |-> 0]

Next ==
  \/ \E p \in Pages : \/ Change(p) \/ SaveOrRestore(p) \/ Upload(p)
                      \/ UploadTimeout(p) \/ Connect(p) \/ Disconnect(p)
  \/ \E s \in Sockets : \/ OnOpen(s) \/ OnClose(s) \/ OnMessage(s)
                        \/ OnPiece(s) \/ RestoreConfig(s) \/ Break(s)
  \/ Reset

Spec == Init /\ [][Next]_vars

-----------------------------------------------------------------------------
IsAtRest(s) ==
  /\ s \in Sockets /\ sock[s] \in {"open", "closing", "broken"}
  /\ sent[s] = <<>> /\ answers[s] = <<>>

(* When everything under way has arrived, a page shows the configuration   *)
(* of the firmware, and whether it is saved, unless another page changed   *)
(* it, a message was lost, or an answer came after a later change of the   *)
(* page.  Answers to a socket that was given up do not count, and the      *)
(* pieces of one client are not mixed with another's (Connection,          *)
(* WebUI::onWsEvent, WebUI::handleCommand).                                *)
PagesShowTheConfig ==
  \A p \in Pages \ stale :
    IsAtRest(websock[p]) => shown[p] = value /\ shownDirty[p] = isConfigDirty
=============================================================================
