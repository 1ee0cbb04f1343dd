------------------------------- MODULE Monitor -------------------------------
(***************************************************************************)
(* DrumMonitor (monitor.cpp, monitor.h): shows the page the signal around  *)
(* the hits of one pad, the monitored pad, or of a latency test.           *)
(*                                                                         *)
(* A hit is shown some ms after it happened, so that the signal after it   *)
(* can be seen: until then it waits in monitoredPadHitInfo and             *)
(* nextHitSendTimeMs.  It is shown earlier if the ring is full or the next *)
(* scan begins.  Between two iterations of the main loop the page may      *)
(* select another pad, start and stop a latency test, or press "Trigger".  *)
(*                                                                         *)
(* Of the history only the places of the trigger in the window of the last *)
(* entries are kept here (1 is the oldest entry): MonitorHistory shows     *)
(* that the ring is such a window.                                         *)
(*                                                                         *)
(* There are one drum (or cymbal) and one pedal.  The messages about the   *)
(* other pads, without history, depend on nothing here and are left out.   *)
(***************************************************************************)
EXTENDS Integers, Sequences

CONSTANTS
  HistoryCount,    (* entries of the window, MONITOR_HISTORY_COUNT          *)
  ClockSize,       (* millis() counts modulo this number, 2^32              *)
  MaxLoopMs,       (* the longest iteration of the main loop                *)
  DrumWaitMs,      (* mask and decay time of the drum                       *)
  PedalWaitMs,     (* 100 ms                                                *)
  LatencyWaitMs    (* 3 ms                                                  *)

ASSUME MonitorAssumption ==
  /\ HistoryCount \in Nat \ {0, 1}
  /\ ClockSize \in Nat \ {0}
  /\ MaxLoopMs \in Nat \ {0}
  /\ \A wait \in {DrumWaitMs, PedalWaitMs, LatencyWaitMs} :
       wait \in Nat /\ wait + MaxLoopMs < ClockSize
  (* The window fills up far sooner than the clock wraps around. *)
  /\ 2 * HistoryCount * MaxLoopMs < ClockSize

Clock == 0..(ClockSize - 1)
Pads == {"drum", "pedal"}

(* What a message can be about; "trigger" is the button of the page. *)
Hits == {"hit", "choke", "trigger", "pedal", "latency"}

(* LatencyTestState; a preview waits for a hit again and again. *)
LatencyTestStates == {"INACTIVE", "PREVIEW", "WAIT_FOR_HIT", "SENDING_RESULT"}

VARIABLES
  now,             (* millis()                                              *)
  drum,            (* the drum is in its scan; its last event was a choke   *)
  monitoredPad,
  latencyTest,
  isTriggeredByUser,
  history,
  monitoredPadHitInfo,
  nextHitSendTimeMs,
  lastScanning,    (* lastSensingState was Scan                             *)
  message,         (* the message of this step                              *)
  unshown,         (* the hits since the last message, the first two        *)
                   (* (history variable)                                    *)
  shown,           (* those since the one before it (history variable)      *)
  disturbed        (* since the last message a command or a scan without a  *)
                   (* result came while a trigger was marked, or a hit of a *)
                   (* latency test got the time 0, for none (history)       *)

waiting == <<monitoredPadHitInfo, nextHitSendTimeMs>>
selection == <<monitoredPad, latencyTest>>
vars == <<now, drum, selection, isTriggeredByUser, history, waiting, lastScanning,
          message, unshown, shown, disturbed>>

(* The first two hits of a history tell whether there was more than one.   *)
Logs == {<<>>} \cup {<<hit>> : hit \in Hits} \cup (Hits \X Hits)

Logged(log, hit) ==
  IF hit = "none" \/ Len(log) = 2 THEN log ELSE Append(log, hit)

NoMessage == [hit |-> "none", start |-> 0, end |-> 0]

Places == 0..HistoryCount
NoTrigger == [start |-> 0, end |-> 0]

(* MonitorHistory, without the entries.                                    *)
IsTriggerStartPosSet(h) == h.start # 0

(* A plausible slip: off by one, at a place that is not in the window. *)
IsFullLate(h) == IsTriggerStartPosSet(h) /\ h.start < 1

IsFull(h) == h.start = 1
SetTriggerStartPos(h) == [start |-> HistoryCount, end |-> HistoryCount]
SetTriggerEndPos(h) == [h EXCEPT !.end = HistoryCount]

(* So many new entries: the window slides, but not beyond the trigger.     *)
AddEntries(h, count) ==
  LET slide == IF count < h.start THEN count ELSE h.start - 1
  IN IF IsTriggerStartPosSet(h)
     THEN [start |-> h.start - slide, end |-> h.end - slide] ELSE h

(* None if the last entry was too recent; a gap before the entry, and      *)
(* perhaps the sample before it doubled, if it was long ago.               *)
NewEntries(timing) ==
  CASE timing = "early" -> {0} [] timing = "regular" -> {1} [] timing = "late" -> {2, 3}

IsLatencyTestActive == latencyTest # "INACTIVE"

MessageOf(h, hit) == [hit |-> hit, start |-> h.start, end |-> h.end]

TypeOK ==
  /\ now \in Clock
  /\ drum \in [isScanning : BOOLEAN, lastWasChoke : BOOLEAN]
  /\ monitoredPad \in Pads \cup {"none"}
  /\ latencyTest \in LatencyTestStates
  /\ isTriggeredByUser \in BOOLEAN
  /\ history \in [start : Places, end : Places]
  /\ monitoredPadHitInfo \in Hits \cup {"none"}
  /\ nextHitSendTimeMs \in Clock
  /\ lastScanning \in BOOLEAN
  /\ \/ message = NoMessage
     \/ message \in [hit : Hits \cup {"none"}, start : 1..HistoryCount,
                     end : 1..HistoryCount]
  /\ {unshown, shown} \subseteq Logs
  /\ disturbed \in BOOLEAN

Init ==
  /\ now \in Clock
  /\ drum = [isScanning |-> FALSE, lastWasChoke |-> FALSE]
  /\ monitoredPad = "none"
  /\ latencyTest = "INACTIVE"
  /\ isTriggeredByUser = FALSE
  /\ history = NoTrigger
  /\ monitoredPadHitInfo = "none"
  /\ nextHitSendTimeMs = 0
  /\ lastScanning = FALSE
  /\ message = NoMessage
  /\ unshown = <<>>
  /\ shown = <<>>
  /\ disturbed = FALSE

-----------------------------------------------------------------------------
(* waitOrSendHitMessage().                                                 *)

IsTimeToSend(time, sendTime) == sendTime # 0 /\ time >= sendTime

SendTime(time, wait) == (time + wait) % ClockSize

(* A plausible slip: the trigger stays marked when it was shown. *)
SendAndKeepMarks(h, hit) ==
  /\ message' = MessageOf(h, hit)
  /\ nextHitSendTimeMs' = 0
  /\ history' = h

Send(h, hit) ==
  /\ message' = MessageOf(h, hit)
  /\ nextHitSendTimeMs' = 0
  /\ history' = NoTrigger

WaitOrSendHitMessage(h, hit, sendTime, time, sendNow) ==
  /\ monitoredPadHitInfo' = hit
  /\ \/ /\ sendNow \/ IsTimeToSend(time, sendTime)
        /\ Send(h, hit)
     \/ /\ ~(sendNow \/ IsTimeToSend(time, sendTime))
        /\ message' = NoMessage
        /\ history' = h
        /\ nextHitSendTimeMs' = sendTime

(* The message of this step, if any, shows the hits "before"; "later" is a *)
(* hit that it does not show, or none.  After a disturbance it only        *)
(* matters whether there were any.                                         *)
Observe(before, later, disturbance) ==
  LET isSent == message' # NoMessage
      rest == Logged(IF isSent THEN <<>> ELSE before, later)
  IN /\ disturbed' = (disturbance \/ (disturbed /\ ~isSent))
     /\ shown' = IF isSent /\ ~disturbed THEN before ELSE <<>>
     /\ unshown' = IF disturbed' /\ rest # <<>> THEN <<"trigger">> ELSE rest

-----------------------------------------------------------------------------
(* The pads, as the monitor finds them: a hit or a choke ends a scan and   *)
(* is seen in one iteration.  A choke right after a choke is dropped.      *)

DrumEvents == {"none", "scan", "hit", "choke"}

(* A scan is far shorter than the time that the ring holds. *)
Sense(h, event) ==
  /\ drum.isScanning =>
       CASE event = "scan" -> monitoredPad # "drum" \/ ~IsFull(h)
         [] event = "hit" -> TRUE
         [] event = "choke" -> ~drum.lastWasChoke
         [] event = "none" -> drum.lastWasChoke
  /\ ~drum.isScanning => event \in {"none", "scan"}
  /\ drum' = [isScanning |-> event = "scan",
              lastWasChoke |-> event = "choke" \/ (drum.lastWasChoke /\ event # "hit")]

IsDrumHit(event) == event \in {"hit", "choke"}

-----------------------------------------------------------------------------
(* checkAndSendMonitoredDrumHitInfo()                                      *)

(* A plausible slip: the next scan goes on with the old trigger. *)
IsOldScan(h, event) == FALSE

(* A scan that is not the first one of its trigger sends what waits. *)
IsNewScan(h, event) == event = "scan" /\ IsTriggerStartPosSet(h) /\ ~lastScanning

MarkScan(h, event) ==
  IF event # "scan" THEN h
  ELSE SetTriggerEndPos(IF IsTriggerStartPosSet(h) /\ ~IsNewScan(h, event)
                        THEN h ELSE SetTriggerStartPos(h))

DrumHit(h, event, time) ==
  LET marked == MarkScan(h, event)
  IN /\ IsDrumHit(event) \/ isTriggeredByUser
     /\ history' = IF IsTriggerStartPosSet(marked) THEN marked
                   ELSE SetTriggerStartPos(marked)
     /\ monitoredPadHitInfo' = IF IsDrumHit(event) THEN event ELSE "trigger"
     /\ nextHitSendTimeMs' = SendTime(time, DrumWaitMs)
     /\ message' = IF IsNewScan(h, event) THEN MessageOf(h, monitoredPadHitInfo)
                   ELSE NoMessage

NoDrumHit(h, event, time) ==
  /\ ~IsDrumHit(event) /\ ~isTriggeredByUser
  /\ \/ /\ IsNewScan(h, event)
        /\ message' = MessageOf(h, monitoredPadHitInfo)
        /\ history' = MarkScan(h, event)
        /\ nextHitSendTimeMs' = 0
        /\ UNCHANGED monitoredPadHitInfo
     \/ /\ ~IsNewScan(h, event)
        /\ LET marked == MarkScan(h, event)
           IN WaitOrSendHitMessage(marked, monitoredPadHitInfo, nextHitSendTimeMs,
                                   time, IsFull(marked))

CheckAndSendMonitoredDrumHitInfo(h, time, event) ==
  /\ Sense(h, event)
  /\ DrumHit(h, event, time) \/ NoDrumHit(h, event, time)
  /\ lastScanning' = (event = "scan")
  /\ isTriggeredByUser' = FALSE
  /\ Observe(unshown,
             IF IsDrumHit(event) THEN event
             ELSE IF isTriggeredByUser THEN "trigger" ELSE "none",
             \/ isTriggeredByUser
             \/ drum.isScanning /\ event = "none" /\ IsTriggerStartPosSet(history))
  /\ UNCHANGED selection

-----------------------------------------------------------------------------
(* checkAndSendMonitoredPedalHitInfo()                                     *)

PedalEvents == {"none", "moves", "chick"}

CheckAndSendMonitoredPedalHitInfo(h, time, event, drumEvent) ==
  LET isHit == event = "chick" \/ isTriggeredByUser
      isFirstMove == ~isHit /\ event = "moves" /\ nextHitSendTimeMs = 0
      marked == CASE isHit -> SetTriggerEndPos(IF IsTriggerStartPosSet(h) THEN h
                                               ELSE SetTriggerStartPos(h))
                  [] isFirstMove -> SetTriggerStartPos(h)
                  [] OTHER -> h
      hit == IF isHit \/ isFirstMove THEN "pedal" ELSE monitoredPadHitInfo
      sendTime == IF isHit \/ isFirstMove THEN SendTime(time, PedalWaitMs)
                  ELSE nextHitSendTimeMs
  IN /\ Sense(h, drumEvent)
     /\ WaitOrSendHitMessage(marked, hit, sendTime, time, IsFull(marked))
     /\ Observe(Logged(unshown, IF isHit \/ isFirstMove THEN "pedal" ELSE "none"),
                "none", FALSE)
     /\ isTriggeredByUser' = FALSE
     /\ UNCHANGED <<selection, lastScanning>>

-----------------------------------------------------------------------------
(* updateLatencyTest(): the pads are not sensed meanwhile, only the first  *)
(* sensor of the monitored pad is.                                         *)

CheckAndSendLatencyHitInfo(h, time, isAtThreshold) ==
  LET isHit == isAtThreshold /\ latencyTest # "SENDING_RESULT"
  IN /\ latencyTest' = IF isHit /\ latencyTest = "WAIT_FOR_HIT"
                       THEN "SENDING_RESULT" ELSE latencyTest
     /\ \/ /\ isHit /\ nextHitSendTimeMs = 0
           /\ history' = SetTriggerStartPos(h)
           /\ monitoredPadHitInfo' = "latency"
           /\ nextHitSendTimeMs' = SendTime(time, LatencyWaitMs)
           /\ message' = NoMessage
           /\ Observe(unshown, "latency", nextHitSendTimeMs' = 0)
        \/ /\ ~(isHit /\ nextHitSendTimeMs = 0)
           /\ WaitOrSendHitMessage(h, monitoredPadHitInfo, nextHitSendTimeMs, time, FALSE)
           /\ Observe(unshown, "none", FALSE)
     /\ UNCHANGED <<drum, monitoredPad, isTriggeredByUser, lastScanning>>

-----------------------------------------------------------------------------
(* The main loop.  An iteration without a new entry is far below a ms.     *)

Timings == {"early", "regular", "late"}

UpdateDrums(timing, passed) ==
  \E count \in NewEntries(timing) :
  LET h == AddEntries(history, count)
      time == (now + passed) % ClockSize
  IN /\ monitoredPad # "none"
     /\ timing = "early" => passed = 0
     /\ now' = time
     /\ \/ /\ ~IsLatencyTestActive /\ monitoredPad = "drum"
           /\ \E event \in DrumEvents : CheckAndSendMonitoredDrumHitInfo(h, time, event)
        \/ /\ ~IsLatencyTestActive /\ monitoredPad = "pedal"
           /\ \E event \in PedalEvents, drumEvent \in DrumEvents :
                CheckAndSendMonitoredPedalHitInfo(h, time, event, drumEvent)
        \/ /\ IsLatencyTestActive
           /\ \E isAtThreshold \in BOOLEAN :
                CheckAndSendLatencyHitInfo(h, time, isAtThreshold)

UpdateDrumsUnmonitored(passed) ==
  /\ monitoredPad = "none"
  /\ now' = (now + passed) % ClockSize
  /\ \E event \in DrumEvents : Sense(history, event)
  /\ message' = NoMessage
  /\ Observe(unshown, "none", FALSE)
  /\ UNCHANGED <<selection, isTriggeredByUser, history, waiting, lastScanning>>

(* The commands of the web page.                                           *)

Command ==
  /\ message' = NoMessage
  /\ Observe(unshown, "none", IsTriggerStartPosSet(history))
  /\ UNCHANGED <<now, drum, history, waiting, lastScanning>>

HandleSetMonitor(pad) ==
  /\ monitoredPad' = pad
  /\ latencyTest' = "INACTIVE"
  /\ Command
  /\ UNCHANGED isTriggeredByUser

HandleTriggerMonitor ==
  /\ isTriggeredByUser' = TRUE
  /\ Command
  /\ UNCHANGED selection

HandleLatencyTestRequest ==
  /\ latencyTest' \in IF monitoredPad = "none" THEN {"INACTIVE"}
                      ELSE {"INACTIVE", "PREVIEW", "WAIT_FOR_HIT"}
  /\ Command
  /\ UNCHANGED <<monitoredPad, isTriggeredByUser>>

Next ==
  \/ \E timing \in Timings, passed \in 0..MaxLoopMs : UpdateDrums(timing, passed)
  \/ \E passed \in 0..MaxLoopMs : UpdateDrumsUnmonitored(passed)
  \/ \E pad \in Pads \cup {"none"} : HandleSetMonitor(pad)
  \/ HandleTriggerMonitor
  \/ HandleLatencyTestRequest

Spec == Init /\ [][Next]_vars

(* The loop runs forever and time passes: again and again an entry is due. *)
FairSpec ==
  Spec /\ WF_vars(\E timing \in {"regular", "late"} : UpdateDrums(timing, 1))

-----------------------------------------------------------------------------
(* Properties.                                                             *)

(* A message about a drum, or of a latency test, shows one hit, that which *)
(* happened since the last message: no hit is replaced by a later one      *)
(* before it was shown, none is shown twice and none is shown that did not *)
(* happen, because a scan sends the hit that still waits                   *)
(* (monitor.cpp:59-70).  A message about the pedal shows moves and chicks  *)
(* since the last message, at least one and nothing else: the next chick   *)
(* does replace one that waits for its 100 ms (monitor.cpp:98-105).  It    *)
(* may be otherwise when the page interferes, or a scan brings no hit,     *)
(* while a trigger is marked, and when a hit of a latency test is to be    *)
(* shown at 0, at the wrap-around of millis(): the next one replaces it    *)
(* (monitor.cpp:121).                                                      *)
EachMessageShowsOneHit ==
  [][message' # NoMessage =>
       \/ disturbed \/ disturbed'
       \/ shown' = <<message'.hit>>
       \/ message'.hit = "pedal" /\ shown' = <<"pedal", "pedal">>]_vars

MayBeDelayed ==
  monitoredPad = "none" \/ IsLatencyTestActive \/ isTriggeredByUser

PageStaysAtAPad == <>[][monitoredPad' = monitoredPad]_vars

(* Every hit is shown in the end, although its time to be sent is compared *)
(* with a clock that wraps around, and may be 0, which stands for none: a  *)
(* full ring or the next scan makes up for it (monitor.cpp:89, 135).  The  *)
(* page may delay it, by a latency test or the trigger button.             *)
EveryHitIsShown ==
  PageStaysAtAPad => (unshown # <<>> ~> (message # NoMessage \/ MayBeDelayed))

(* The ring does not stay full: recording goes on, also when the trigger   *)
(* was marked by a scan that brought no hit (monitor.cpp:89, 97).          *)
RecordingGoesOn ==
  PageStaysAtAPad => (IsFull(history) ~> (~IsFull(history) \/ MayBeDelayed))
=============================================================================
