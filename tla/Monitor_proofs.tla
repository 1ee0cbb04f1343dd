---------------------------- MODULE Monitor_proofs ----------------------------
(***************************************************************************)
(* Theorems about the monitor, for every length of the ring, every width   *)
(* of the clock and every waiting time: each message shows the one hit     *)
(* that happened since the message before it, or moves of the pedal only.  *)
(***************************************************************************)
EXTENDS Monitor, TLAPS

(* The places of the trigger are both set or both not, and in order. *)
Histories ==
  {h \in [start : Places, end : Places] :
     h.start <= h.end /\ (h.start = 0 => h.end = 0)}

(* A message is due only while a trigger is marked. *)
DueIsMarked == ~IsTriggerStartPosSet(history) => nextHitSendTimeMs = 0

(* The type invariant and what it rests on. *)
MonitorTypeInv ==
  /\ TypeOK
  /\ history \in Histories
  /\ DueIsMarked
  /\ monitoredPad = "none" => ~IsLatencyTestActive

(* One move or chick of the pedal, or several. *)
PedalLogs == {<<"pedal">>, <<"pedal", "pedal">>}

(* The hit that waits is the only one since the last message, but for a    *)
(* pedal, and a hit of a latency test is one that the next one waits for.  *)
HitIsMarked ==
  \/ /\ IsLatencyTestActive /\ nextHitSendTimeMs # 0
     /\ unshown = <<"latency">> /\ monitoredPadHitInfo = "latency"
  \/ /\ ~IsLatencyTestActive /\ monitoredPad = "pedal"
     /\ unshown \in PedalLogs /\ monitoredPadHitInfo = "pedal"
  \/ /\ ~IsLatencyTestActive /\ monitoredPad = "drum"
     /\ ~drum.isScanning /\ ~lastScanning /\ unshown = <<monitoredPadHitInfo>>

(* A scan marked the trigger, and its hit is still to come. *)
ScanIsMarked ==
  /\ ~IsLatencyTestActive /\ monitoredPad = "drum"
  /\ drum.isScanning /\ lastScanning /\ unshown = <<>> /\ nextHitSendTimeMs = 0

(* What the trigger stands for, as long as the page does not interfere and *)
(* every scan brings a hit.                                                *)
TriggerStandsForOneHit ==
  ~disturbed =>
    IF IsTriggerStartPosSet(history)
    THEN monitoredPad # "none" /\ (HitIsMarked \/ ScanIsMarked)
    ELSE unshown = <<>>

MonitorInv == MonitorTypeInv /\ TriggerStandsForOneHit

(* The action of EachMessageShowsOneHit. *)
MessageShowsOneHit ==
  message' # NoMessage =>
    \/ disturbed \/ disturbed'
    \/ shown' = <<message'.hit>>
    \/ message'.hit = "pedal" /\ shown' = <<"pedal", "pedal">>
-----------------------------------------------------------------------------
(* The window.                                                             *)

(* A window that slides keeps its trigger. *)
LEMMA AddEntriesKeepsTheTrigger ==
  ASSUME NEW h \in Histories, NEW count \in Nat
  PROVE  /\ AddEntries(h, count) \in Histories
         /\ IsTriggerStartPosSet(AddEntries(h, count)) <=> IsTriggerStartPosSet(h)
<1>1. HistoryCount \in Nat
  BY MonitorAssumption
<1>2. /\ h \in [start : Places, end : Places] /\ h.start <= h.end
      /\ h.start = 0 => h.end = 0
  BY DEF Histories
<1>3. /\ h.start \in Nat /\ h.end \in Nat
      /\ h.start <= HistoryCount /\ h.end <= HistoryCount
  BY <1>1, <1>2 DEF Places
<1>4. CASE h.start = 0
  BY <1>4 DEF AddEntries, IsTriggerStartPosSet
<1>5. CASE h.start # 0
  <2> DEFINE slide == IF count < h.start THEN count ELSE h.start - 1
  <2>1. slide \in Nat /\ slide < h.start
    BY <1>3, <1>5
  <2>2. AddEntries(h, count) = [start |-> h.start - slide, end |-> h.end - slide]
    BY <1>5 DEF AddEntries, IsTriggerStartPosSet
  <2> HIDE DEF slide
  <2>3. h.start - slide \in Places \ {0} /\ h.end - slide \in Places \ {0}
    BY <1>1, <1>2, <1>3, <2>1 DEF Places
  <2>4. h.start - slide <= h.end - slide
    BY <1>2, <1>3, <2>1
  <2> QED
    BY <1>5, <2>2, <2>3, <2>4 DEF Histories, IsTriggerStartPosSet
<1> QED
  BY <1>4, <1>5

(* Each kind of timing adds some entries. *)
LEMMA NewEntriesType ==
  ASSUME NEW timing \in Timings
  PROVE  NewEntries(timing) \subseteq Nat
BY DEF NewEntries, Timings

(* A trigger is marked at the last entry, and no window is so short that   *)
(* it is full then.                                                        *)
LEMMA StartIsMarked ==
  ASSUME NEW h \in Histories
  PROVE  /\ SetTriggerStartPos(h) \in Histories
         /\ IsTriggerStartPosSet(SetTriggerStartPos(h))
         /\ ~IsFull(SetTriggerStartPos(h))
BY MonitorAssumption DEF SetTriggerStartPos, Histories, Places, IsTriggerStartPosSet, IsFull

(* The end of a trigger leaves its start alone. *)
LEMMA EndIsMarked ==
  ASSUME NEW h \in Histories, IsTriggerStartPosSet(h)
  PROVE  /\ SetTriggerEndPos(h) \in Histories
         /\ IsTriggerStartPosSet(SetTriggerEndPos(h))
         /\ IsFull(SetTriggerEndPos(h)) <=> IsFull(h)
<1>1. HistoryCount \in Nat \ {0, 1}
  BY MonitorAssumption
<1>2. h \in [start : Places, end : Places] /\ h.start # 0
  BY DEF Histories, IsTriggerStartPosSet
<1>3. SetTriggerEndPos(h) = [start |-> h.start, end |-> HistoryCount]
  BY <1>2 DEF SetTriggerEndPos
<1> QED
  BY <1>1, <1>2, <1>3 DEF Histories, Places, IsTriggerStartPosSet, IsFull

(* No trigger is marked after a message. *)
LEMMA NoTriggerType == NoTrigger \in Histories /\ ~IsTriggerStartPosSet(NoTrigger)
BY MonitorAssumption DEF NoTrigger, Histories, Places, IsTriggerStartPosSet

Messages ==
  [hit : Hits \cup {"none"}, start : 1..HistoryCount, end : 1..HistoryCount]

(* A message about a trigger is one. *)
LEMMA MessageType ==
  ASSUME NEW h \in Histories, IsTriggerStartPosSet(h), NEW hit \in Hits \cup {"none"}
  PROVE  /\ MessageOf(h, hit) \in Messages
         /\ MessageOf(h, hit) # NoMessage
         /\ MessageOf(h, hit).hit = hit
<1>1. HistoryCount \in Nat
  BY MonitorAssumption
<1>2. h \in [start : Places, end : Places] /\ h.start # 0 /\ h.start <= h.end
  BY DEF Histories, IsTriggerStartPosSet
<1>3. h.start \in 1..HistoryCount /\ h.end \in 1..HistoryCount /\ h.start # 0
  BY <1>1, <1>2 DEF Places
<1> QED
  BY <1>3 DEF MessageOf, NoMessage, Messages

(* The time of a message is one of the clock. *)
LEMMA SendTimeType ==
  ASSUME NEW time \in Clock, NEW wait \in {DrumWaitMs, PedalWaitMs, LatencyWaitMs}
  PROVE  SendTime(time, wait) \in Clock
<1>1. ClockSize \in Nat \ {0} /\ wait \in Nat
  BY MonitorAssumption
<1>2. \A a \in Nat, b \in Nat \ {0} : a % b \in 0..(b - 1)
  OBVIOUS
<1>3. time + wait \in Nat
  BY <1>1 DEF Clock
<1> QED
  BY <1>1, <1>2, <1>3 DEF SendTime, Clock
-----------------------------------------------------------------------------
(* The history variables.                                                  *)

(* A second hit makes a pair. *)
LEMMA SecondHit ==
  ASSUME NEW first, NEW hit
  PROVE  Len(<<first>>) # 2 /\ Append(<<first>>, hit) = <<first, hit>>
<1>1. Len(<<first>>) = 1 /\ <<first>>[1] = first
  OBVIOUS
<1>2. <<first, hit>> = [i \in 1..2 |-> IF i = 1 THEN first ELSE hit]
  OBVIOUS
<1>3. Append(<<first>>, hit) = [i \in 1..2 |-> IF i = 1 THEN first ELSE hit]
  BY <1>1
<1>4. Append(<<first>>, hit) = <<first, hit>>
  BY <1>2, <1>3
<1>5. Len(<<first>>) # 2
  BY <1>1
<1> QED
  BY <1>4, <1>5

(* A log grows by a hit, up to two. *)
LEMMA LoggedType ==
  ASSUME NEW log \in Logs, NEW hit \in Hits \cup {"none"}
  PROVE  Logged(log, hit) \in Logs
<1>1. "none" \notin Hits
  BY DEF Hits
<1>2. CASE hit = "none"
  BY <1>2 DEF Logged
<1>3. CASE hit \in Hits /\ log = <<>>
  <2>1. Len(log) # 2 /\ Append(log, hit) = <<hit>>
    BY <1>3
  <2> QED
    BY <1>1, <1>3, <2>1 DEF Logged, Logs
<1>4. CASE hit \in Hits /\ log \in {<<first>> : first \in Hits}
  <2>1. PICK first \in Hits : log = <<first>>
    BY <1>4
  <2>2. Len(log) # 2 /\ Append(log, hit) = <<first, hit>>
    BY <2>1, SecondHit
  <2>3. <<first, hit>> \in Hits \X Hits
    BY <1>4, <2>1
  <2> QED
    BY <1>1, <1>4, <2>2, <2>3 DEF Logged, Logs
<1>5. CASE log \in Hits \X Hits
  <2>1. Len(log) = 2
    BY <1>5
  <2> QED
    BY <2>1 DEF Logged
<1> QED
  BY <1>2, <1>3, <1>4, <1>5 DEF Logs

(* Without a hit it stays, and its first hit is alone in it. *)
LEMMA LoggedNone ==
  ASSUME NEW log
  PROVE  Logged(log, "none") = log
BY DEF Logged

LEMMA LoggedFirst ==
  ASSUME NEW hit \in Hits
  PROVE  Logged(<<>>, hit) = <<hit>> /\ <<hit>> \in Logs /\ <<>> \in Logs
<1>1. hit # "none"
  BY DEF Hits
<1>2. Len(<<>>) # 2 /\ Append(<<>>, hit) = <<hit>>
  OBVIOUS
<1> QED
  BY <1>1, <1>2 DEF Logged, Logs

LEMMA LoggedPedal ==
  ASSUME NEW log \in {<<>>} \cup PedalLogs
  PROVE  Logged(log, "pedal") \in PedalLogs
<1>1. CASE log = <<>>
  BY <1>1, LoggedFirst DEF PedalLogs, Hits
<1>2. CASE log = <<"pedal">>
  <2>1. Len(log) # 2 /\ Append(log, "pedal") = <<"pedal", "pedal">>
    BY <1>2, SecondHit
  <2> QED
    BY <2>1 DEF Logged, PedalLogs
<1>3. CASE log = <<"pedal", "pedal">>
  <2>1. Len(log) = 2
    BY <1>3
  <2> QED
    BY <1>3, <2>1 DEF Logged, PedalLogs
<1> QED
  BY <1>1, <1>2, <1>3 DEF PedalLogs

(* Logs stay logs. *)
LEMMA ObserveType ==
  ASSUME TypeOK, NEW before \in Logs, NEW later \in Hits \cup {"none"},
         NEW disturbance \in BOOLEAN, Observe(before, later, disturbance)
  PROVE  {unshown', shown'} \subseteq Logs /\ disturbed' \in BOOLEAN
<1>1. disturbed \in BOOLEAN /\ "trigger" \in Hits
  BY DEF TypeOK, Hits
<1>2. disturbed' \in BOOLEAN
  <2>1. disturbed' = (disturbance \/ (disturbed /\ ~(message' # NoMessage)))
    BY DEF Observe
  <2> QED
    BY <2>1
<1>3. <<>> \in Logs /\ <<"trigger">> \in Logs
  BY <1>1, LoggedFirst
<1>4. shown' \in Logs
  <2>1. shown' = before \/ shown' = <<>>
    BY DEF Observe
  <2> QED
    BY <1>3, <2>1
<1>5. unshown' \in Logs
  <2>1. unshown' \in {<<"trigger">>, Logged(<<>>, later), Logged(before, later)}
    BY DEF Observe
  <2> QED
    BY <1>3, <2>1, LoggedType
<1> QED
  BY <1>2, <1>4, <1>5

(* A step without a message only adds hits. *)
LEMMA ObserveNoMessage ==
  ASSUME NEW before, NEW later, NEW disturbance \in BOOLEAN,
         Observe(before, later, disturbance), message' = NoMessage
  PROVE  /\ disturbed' <=> disturbance \/ disturbed
         /\ ~disturbed' => unshown' = Logged(before, later)
BY DEF Observe

(* A message shows the hits before it. *)
LEMMA ObserveMessage ==
  ASSUME NEW before, NEW later, NEW disturbance \in BOOLEAN,
         Observe(before, later, disturbance), message' # NoMessage
  PROVE  /\ disturbed' <=> disturbance
         /\ ~disturbed => shown' = before
         /\ ~disturbed' => unshown' = Logged(<<>>, later)
BY DEF Observe

(* A pad is in a scan when it senses one, and has events only then. *)
LEMMA SenseLemma ==
  ASSUME NEW h, NEW event \in DrumEvents, drum.lastWasChoke \in BOOLEAN, Sense(h, event)
  PROVE  /\ drum' \in [isScanning : BOOLEAN, lastWasChoke : BOOLEAN]
         /\ drum'.isScanning <=> event = "scan"
         /\ IsDrumHit(event) => drum.isScanning
         /\ drum.isScanning /\ event = "scan" /\ monitoredPad = "drum" => ~IsFull(h)
<1>1. drum' = [isScanning |-> event = "scan",
               lastWasChoke |-> event = "choke" \/ (drum.lastWasChoke /\ event # "hit")]
  BY DEF Sense
<1>2. /\ (event = "scan") \in BOOLEAN
      /\ (event = "choke" \/ (drum.lastWasChoke /\ event # "hit")) \in BOOLEAN
  OBVIOUS
<1>3. IsDrumHit(event) => drum.isScanning
  BY DEF Sense, IsDrumHit
<1>4. drum.isScanning /\ event = "scan" /\ monitoredPad = "drum" => ~IsFull(h)
  BY DEF Sense
<1>5. drum'.isScanning = (event = "scan")
  BY <1>1
<1>6. drum' \in [isScanning : BOOLEAN, lastWasChoke : BOOLEAN]
  BY <1>1, <1>2
<1> QED
  BY <1>3, <1>4, <1>5, <1>6

(* A message is sent, or what waits goes on waiting; with no trigger it is *)
(* the latter.                                                             *)
LEMMA WaitOrSendLemma ==
  ASSUME TypeOK, NEW h \in Histories, NEW hit \in Hits \cup {"none"},
         NEW sendTime \in Clock, NEW time \in Clock,
         ~IsTriggerStartPosSet(h) => sendTime = 0,
         WaitOrSendHitMessage(h, hit, sendTime, time, IsFull(h))
         \/ WaitOrSendHitMessage(h, hit, sendTime, time, FALSE)
  PROVE  /\ monitoredPadHitInfo' = hit
         /\ \/ /\ IsTriggerStartPosSet(h) /\ (IsFull(h) \/ sendTime # 0)
               /\ message' = MessageOf(h, hit)
               /\ history' = NoTrigger
               /\ nextHitSendTimeMs' = 0
            \/ /\ message' = NoMessage
               /\ history' = h
               /\ nextHitSendTimeMs' = sendTime
<1>1. IsFull(h) => IsTriggerStartPosSet(h)
  BY DEF IsFull, IsTriggerStartPosSet
<1> QED
  BY <1>1 DEF WaitOrSendHitMessage, Send, IsTimeToSend
-----------------------------------------------------------------------------
(* The drum.                                                               *)

(* What waits and what is sent have their types. *)
WaitingTypes ==
  /\ history \in Histories
  /\ DueIsMarked
  /\ monitoredPadHitInfo \in Hits \cup {"none"}
  /\ nextHitSendTimeMs \in Clock
  /\ message = NoMessage \/ message \in Messages

LEMMA ZeroIsATime == 0 \in Clock
BY MonitorAssumption DEF Clock

(* Every scan marks the trigger. *)
LEMMA MarkScanLemma ==
  ASSUME NEW h \in Histories, NEW event \in DrumEvents
  PROVE  /\ MarkScan(h, event) \in Histories
         /\ event = "scan" => IsTriggerStartPosSet(MarkScan(h, event))
         /\ event # "scan" => MarkScan(h, event) = h
         /\ event = "scan" /\ IsFull(MarkScan(h, event)) =>
              IsTriggerStartPosSet(h) /\ ~IsNewScan(h, event) /\ IsFull(h)
<1> DEFINE begun == IF IsTriggerStartPosSet(h) /\ ~IsNewScan(h, event)
                    THEN h ELSE SetTriggerStartPos(h)
<1>1. /\ begun \in Histories /\ IsTriggerStartPosSet(begun)
      /\ IsFull(begun) => IsTriggerStartPosSet(h) /\ ~IsNewScan(h, event) /\ IsFull(h)
  <2>1. CASE IsTriggerStartPosSet(h) /\ ~IsNewScan(h, event)
    BY <2>1
  <2>2. CASE ~(IsTriggerStartPosSet(h) /\ ~IsNewScan(h, event))
    BY <2>2, StartIsMarked
  <2> QED
    BY <2>1, <2>2
<1>2. MarkScan(h, event) = IF event # "scan" THEN h ELSE SetTriggerEndPos(begun)
  BY DEF MarkScan
<1> HIDE DEF begun
<1>3. /\ SetTriggerEndPos(begun) \in Histories
      /\ IsTriggerStartPosSet(SetTriggerEndPos(begun))
      /\ IsFull(SetTriggerEndPos(begun)) <=> IsFull(begun)
  BY <1>1, EndIsMarked
<1> QED
  BY <1>1, <1>2, <1>3

(* A hit, a choke or the button: it waits from now on. *)
LEMMA DrumHitTypes ==
  ASSUME MonitorTypeInv, NEW h \in Histories, NEW time \in Clock,
         NEW event \in DrumEvents, DrumHit(h, event, time)
  PROVE  WaitingTypes' /\ IsTriggerStartPosSet(history')
<1> DEFINE marked == MarkScan(h, event)
<1>1. marked \in Histories
  BY MarkScanLemma
<1>2. history' \in Histories /\ IsTriggerStartPosSet(history')
  <2>1. history' = IF IsTriggerStartPosSet(marked) THEN marked
                   ELSE SetTriggerStartPos(marked)
    BY DEF DrumHit
  <2> HIDE DEF marked
  <2> QED
    BY <1>1, <2>1, StartIsMarked
<1>3. nextHitSendTimeMs' \in Clock
  BY SendTimeType DEF DrumHit
<1>4. monitoredPadHitInfo' \in Hits
  BY DEF DrumHit, IsDrumHit, Hits
<1>5. message' = NoMessage \/ message' \in Messages
  <2>1. monitoredPadHitInfo \in Hits \cup {"none"}
    BY DEF MonitorTypeInv, TypeOK
  <2>2. CASE IsNewScan(h, event)
    <3>1. IsTriggerStartPosSet(h) /\ message' = MessageOf(h, monitoredPadHitInfo)
      BY <2>2 DEF DrumHit, IsNewScan
    <3> QED
      BY <2>1, <3>1, MessageType
  <2>3. CASE ~IsNewScan(h, event)
    BY <2>3 DEF DrumHit
  <2> QED
    BY <2>2, <2>3
<1> QED
  BY <1>2, <1>3, <1>4, <1>5 DEF WaitingTypes, DueIsMarked

(* Otherwise the new scan sends what waits, or it goes on waiting. *)
LEMMA NoDrumHitLemma ==
  ASSUME MonitorTypeInv, NEW h \in Histories, NEW time \in Clock,
         IsTriggerStartPosSet(h) <=> IsTriggerStartPosSet(history),
         NEW event \in DrumEvents, NoDrumHit(h, event, time)
  PROVE  /\ monitoredPadHitInfo' = monitoredPadHitInfo
         /\ \/ /\ IsNewScan(h, event) /\ IsTriggerStartPosSet(h)
               /\ message' = MessageOf(h, monitoredPadHitInfo)
               /\ history' = MarkScan(h, event)
               /\ nextHitSendTimeMs' = 0
            \/ /\ ~IsNewScan(h, event) /\ IsTriggerStartPosSet(h)
               /\ IsFull(h) \/ nextHitSendTimeMs # 0
               /\ message' = MessageOf(MarkScan(h, event), monitoredPadHitInfo)
               /\ IsTriggerStartPosSet(MarkScan(h, event))
               /\ history' = NoTrigger
               /\ nextHitSendTimeMs' = 0
            \/ /\ ~IsNewScan(h, event)
               /\ message' = NoMessage
               /\ history' = MarkScan(h, event)
               /\ nextHitSendTimeMs' = nextHitSendTimeMs
         /\ WaitingTypes'
<1> DEFINE marked == MarkScan(h, event)
<1>1. /\ TypeOK
      /\ monitoredPadHitInfo \in Hits \cup {"none"} /\ nextHitSendTimeMs \in Clock
  BY DEF MonitorTypeInv, TypeOK
<1>2. ~IsTriggerStartPosSet(h) => nextHitSendTimeMs = 0
  BY DEF MonitorTypeInv, DueIsMarked
<1>3. /\ marked \in Histories
      /\ IsFull(marked) => IsFull(h)
      /\ ~IsTriggerStartPosSet(marked) => marked = h
  BY MarkScanLemma
<1>4. IsFull(h) => IsTriggerStartPosSet(h)
  BY DEF IsFull, IsTriggerStartPosSet
<1>5. CASE IsNewScan(h, event)
  <2>1. /\ message' = MessageOf(h, monitoredPadHitInfo) /\ history' = marked
        /\ nextHitSendTimeMs' = 0 /\ monitoredPadHitInfo' = monitoredPadHitInfo
    BY <1>5 DEF NoDrumHit
  <2>2. IsTriggerStartPosSet(h)
    BY <1>5 DEF IsNewScan
  <2>3. message' \in Messages
    BY <1>1, <2>1, <2>2, MessageType
  <2> HIDE DEF marked
  <2>4. WaitingTypes'
    BY <1>1, <1>3, <2>1, <2>3, ZeroIsATime DEF WaitingTypes, DueIsMarked
  <2> QED
    BY <1>5, <2>1, <2>2, <2>4 DEF marked
<1>6. CASE ~IsNewScan(h, event)
  <2>1. WaitOrSendHitMessage(marked, monitoredPadHitInfo, nextHitSendTimeMs, time,
                             IsFull(marked))
    BY <1>6 DEF NoDrumHit
  <2> HIDE DEF marked
  <2>2. ~IsTriggerStartPosSet(marked) => nextHitSendTimeMs = 0
    BY <1>2, <1>3
  <2>3. /\ monitoredPadHitInfo' = monitoredPadHitInfo
        /\ \/ /\ IsTriggerStartPosSet(marked) /\ (IsFull(marked) \/ nextHitSendTimeMs # 0)
              /\ message' = MessageOf(marked, monitoredPadHitInfo)
              /\ history' = NoTrigger
              /\ nextHitSendTimeMs' = 0
           \/ /\ message' = NoMessage
              /\ history' = marked
              /\ nextHitSendTimeMs' = nextHitSendTimeMs
    BY <1>1, <1>3, <2>1, <2>2, WaitOrSendLemma
  <2>4. WaitingTypes'
    BY <1>1, <1>3, <2>2, <2>3, MessageType, NoTriggerType, ZeroIsATime
      DEF WaitingTypes, DueIsMarked
  <2> QED
    BY <1>2, <1>3, <1>4, <1>6, <2>3, <2>4 DEF marked
<1> QED
  BY <1>5, <1>6
(* The types after an iteration that sensed the drum. *)
LEMMA DrumTypes ==
  ASSUME MonitorTypeInv, NEW h \in Histories, NEW time \in Clock,
         IsTriggerStartPosSet(h) <=> IsTriggerStartPosSet(history),
         NEW event \in DrumEvents, now' = time, ~IsLatencyTestActive,
         CheckAndSendMonitoredDrumHitInfo(h, time, event)
  PROVE  MonitorTypeInv' /\ WaitingTypes'
<1> USE DEF MonitorTypeInv
<1>1. WaitingTypes'
  <2>1. DrumHit(h, event, time) \/ NoDrumHit(h, event, time)
    BY DEF CheckAndSendMonitoredDrumHitInfo
  <2> QED
    BY <2>1, DrumHitTypes, NoDrumHitLemma
<1>2. drum' \in [isScanning : BOOLEAN, lastWasChoke : BOOLEAN]
  <2>1. drum.lastWasChoke \in BOOLEAN
    BY DEF TypeOK
  <2> QED
    BY <2>1, SenseLemma DEF CheckAndSendMonitoredDrumHitInfo
<1>3. {unshown', shown'} \subseteq Logs /\ disturbed' \in BOOLEAN
  <2> DEFINE later == IF IsDrumHit(event) THEN event
                    ELSE IF isTriggeredByUser THEN "trigger" ELSE "none"
             disturbance == \/ isTriggeredByUser
                            \/ drum.isScanning /\ event = "none"
                                 /\ IsTriggerStartPosSet(history)
  <2>1. Observe(unshown, later, disturbance)
    BY DEF CheckAndSendMonitoredDrumHitInfo
  <2>2. later \in Hits \cup {"none"} /\ unshown \in Logs /\ disturbance \in BOOLEAN
    BY DEF IsDrumHit, Hits, TypeOK
  <2> HIDE DEF later, disturbance
  <2> QED
    BY <2>1, <2>2, ObserveType
<1>4. /\ now' \in Clock /\ monitoredPad' = monitoredPad /\ latencyTest' = latencyTest
      /\ isTriggeredByUser' \in BOOLEAN /\ lastScanning' \in BOOLEAN
  BY DEF CheckAndSendMonitoredDrumHitInfo, selection
<1>5. history' \in [start : Places, end : Places]
  BY <1>1 DEF WaitingTypes, Histories
<1>6. message' = NoMessage \/ message' \in [hit : Hits \cup {"none"},
                                            start : 1..HistoryCount, end : 1..HistoryCount]
  BY <1>1 DEF WaitingTypes, Messages
<1>7. TypeOK'
  BY <1>1, <1>2, <1>3, <1>4, <1>5, <1>6 DEF TypeOK, WaitingTypes
<1> QED
  BY <1>1, <1>4, <1>7 DEF WaitingTypes, IsLatencyTestActive

(* A hit ends the scan that marked the trigger: it is the only one. *)
LEMMA DrumHitMarks ==
  ASSUME MonitorInv, NEW h \in Histories, NEW time \in Clock,
         IsTriggerStartPosSet(h) <=> IsTriggerStartPosSet(history),
         NEW event \in DrumEvents, ~IsLatencyTestActive, monitoredPad = "drum",
         CheckAndSendMonitoredDrumHitInfo(h, time, event), DrumHit(h, event, time)
  PROVE  TriggerStandsForOneHit' /\ MessageShowsOneHit
<1> DEFINE later == IF IsDrumHit(event) THEN event
                    ELSE IF isTriggeredByUser THEN "trigger" ELSE "none"
           disturbance == \/ isTriggeredByUser
                          \/ drum.isScanning /\ event = "none"
                               /\ IsTriggerStartPosSet(history)
<1>1. /\ Observe(unshown, later, disturbance) /\ Sense(h, event)
      /\ lastScanning' = (event = "scan")
      /\ monitoredPad' = monitoredPad /\ latencyTest' = latencyTest
  BY DEF CheckAndSendMonitoredDrumHitInfo, selection
<1>2. TypeOK /\ isTriggeredByUser \in BOOLEAN /\ disturbance \in BOOLEAN
  BY DEF MonitorInv, MonitorTypeInv, TypeOK
<1>3. CASE isTriggeredByUser
  <2>1. disturbance
    BY <1>3
  <2> HIDE DEF later, disturbance
  <2>2. disturbed'
    BY <1>1, <1>2, <2>1 DEF Observe
  <2> QED
    BY <2>2 DEF TriggerStandsForOneHit, MessageShowsOneHit
<1>4. CASE ~isTriggeredByUser
  <2>1. IsDrumHit(event) /\ event # "scan" /\ event # "none"
    BY <1>4 DEF DrumHit, IsDrumHit
  <2>2. later = event /\ event \in Hits /\ ~disturbance
    BY <1>4, <2>1 DEF IsDrumHit, Hits
  <2>3. message' = NoMessage /\ monitoredPadHitInfo' = event
    BY <2>1 DEF DrumHit, IsNewScan
  <2>4. drum.isScanning /\ ~drum'.isScanning /\ ~lastScanning'
    <3>1. drum.lastWasChoke \in BOOLEAN
      BY <1>2 DEF TypeOK
    <3> QED
      BY <1>1, <2>1, <3>1, SenseLemma
  <2>5. IsTriggerStartPosSet(history')
    BY DrumHitTypes DEF MonitorInv
  <2> HIDE DEF later, disturbance
  <2>6. SUFFICES ASSUME ~disturbed' PROVE TriggerStandsForOneHit'
    BY <2>3 DEF TriggerStandsForOneHit, MessageShowsOneHit
  <2>7. ~disturbed /\ unshown' = Logged(unshown, event)
    BY <1>1, <1>2, <2>2, <2>3, <2>6, ObserveNoMessage, LoggedNone
  <2>8. unshown = <<>>
    BY <2>4, <2>7 DEF MonitorInv, TriggerStandsForOneHit, HitIsMarked, ScanIsMarked
  <2>9. HitIsMarked'
    BY <1>1, <2>2, <2>3, <2>4, <2>7, <2>8, LoggedFirst DEF HitIsMarked, IsLatencyTestActive
  <2> QED
    BY <1>1, <2>5, <2>9 DEF TriggerStandsForOneHit
<1> QED
  BY <1>2, <1>3, <1>4

(* Otherwise only the hit that waits is shown: a scan that goes on waits   *)
(* for its hit.                                                            *)
LEMMA NoDrumHitMarks ==
  ASSUME MonitorInv, NEW h \in Histories, NEW time \in Clock,
         IsTriggerStartPosSet(h) <=> IsTriggerStartPosSet(history),
         NEW event \in DrumEvents, ~IsLatencyTestActive, monitoredPad = "drum",
         CheckAndSendMonitoredDrumHitInfo(h, time, event), NoDrumHit(h, event, time)
  PROVE  TriggerStandsForOneHit' /\ MessageShowsOneHit
<1> DEFINE disturbance == /\ drum.isScanning /\ event = "none"
                          /\ IsTriggerStartPosSet(history)
           marked == MarkScan(h, event)
<1>1. TypeOK /\ drum.lastWasChoke \in BOOLEAN /\ drum.isScanning \in BOOLEAN
  BY DEF MonitorInv, MonitorTypeInv, TypeOK
<1>2. event \in {"none", "scan"} /\ ~IsDrumHit(event) /\ ~isTriggeredByUser
  BY DEF NoDrumHit, IsDrumHit, DrumEvents
<1>3. /\ Sense(h, event) /\ lastScanning' = (event = "scan")
      /\ monitoredPad' = monitoredPad /\ latencyTest' = latencyTest
  BY DEF CheckAndSendMonitoredDrumHitInfo, selection
<1>4. Observe(unshown, "none", disturbance) /\ disturbance \in BOOLEAN
  <2>1. Observe(unshown, "none", FALSE \/ disturbance)
    BY <1>2 DEF CheckAndSendMonitoredDrumHitInfo, Observe
  <2> QED
    BY <2>1 DEF Observe
<1>5. /\ drum'.isScanning <=> event = "scan"
      /\ drum.isScanning /\ event = "scan" => ~IsFull(h)
  BY <1>1, <1>3, SenseLemma
<1>6. /\ marked \in Histories
      /\ event = "scan" => IsTriggerStartPosSet(marked)
      /\ event # "scan" => marked = h
  BY MarkScanLemma
<1>7. /\ ~IsTriggerStartPosSet(history) => nextHitSendTimeMs = 0
      /\ monitoredPadHitInfo \in Hits \cup {"none"}
  BY <1>1 DEF MonitorInv, MonitorTypeInv, DueIsMarked, TypeOK
<1>8. ~disturbed /\ IsTriggerStartPosSet(h) /\ ~drum.isScanning =>
        unshown = <<monitoredPadHitInfo>> /\ ~lastScanning
  BY DEF MonitorInv, TriggerStandsForOneHit, HitIsMarked, ScanIsMarked
<1>9. ~disturbed /\ IsTriggerStartPosSet(h) /\ drum.isScanning =>
        unshown = <<>> /\ lastScanning /\ nextHitSendTimeMs = 0
  BY DEF MonitorInv, TriggerStandsForOneHit, HitIsMarked, ScanIsMarked
<1>10. ~disturbed /\ ~IsTriggerStartPosSet(h) => unshown = <<>>
  BY DEF MonitorInv, TriggerStandsForOneHit
<1>11. monitoredPadHitInfo' = monitoredPadHitInfo
  BY NoDrumHitLemma DEF MonitorInv
<1>12. CASE /\ IsNewScan(h, event) /\ IsTriggerStartPosSet(h)
            /\ message' = MessageOf(h, monitoredPadHitInfo)
            /\ history' = marked
            /\ nextHitSendTimeMs' = 0
  <2>1. event = "scan" /\ ~lastScanning /\ ~disturbance
    BY <1>12 DEF IsNewScan
  <2>2. message' # NoMessage /\ message'.hit = monitoredPadHitInfo
    BY <1>7, <1>12, MessageType
  <2> HIDE DEF disturbance, marked
  <2>3. ~disturbed' /\ unshown' = <<>> /\ (~disturbed => shown' = unshown)
    BY <1>4, <2>1, <2>2, ObserveMessage, LoggedNone
  <2>4. ScanIsMarked'
    BY <1>3, <1>5, <1>12, <2>1, <2>3 DEF ScanIsMarked, IsLatencyTestActive
  <2>5. ~disturbed => unshown = <<monitoredPadHitInfo>>
    BY <1>1, <1>8, <1>9, <1>12, <2>1
  <2> QED
    BY <1>3, <1>6, <1>12, <2>1, <2>2, <2>3, <2>4, <2>5
      DEF TriggerStandsForOneHit, MessageShowsOneHit
<1>13. CASE /\ ~IsNewScan(h, event) /\ IsTriggerStartPosSet(h)
            /\ IsFull(h) \/ nextHitSendTimeMs # 0
            /\ message' = MessageOf(marked, monitoredPadHitInfo)
            /\ IsTriggerStartPosSet(marked)
            /\ history' = NoTrigger
  <2>1. message' # NoMessage /\ message'.hit = monitoredPadHitInfo
    BY <1>6, <1>7, <1>13, MessageType
  <2>2. event = "scan" => lastScanning
    BY <1>13 DEF IsNewScan
  <2>3. ~disturbed /\ ~disturbance => unshown = <<monitoredPadHitInfo>>
    BY <1>1, <1>2, <1>5, <1>8, <1>9, <1>13, <2>2
  <2> HIDE DEF disturbance, marked
  <2>4. /\ disturbed' <=> disturbance
        /\ ~disturbed => shown' = unshown
        /\ ~disturbed' => unshown' = <<>>
    BY <1>4, <2>1, ObserveMessage, LoggedNone
  <2> QED
    BY <1>13, <2>1, <2>3, <2>4, NoTriggerType
      DEF TriggerStandsForOneHit, MessageShowsOneHit
<1>14. CASE /\ ~IsNewScan(h, event)
            /\ message' = NoMessage
            /\ history' = marked
            /\ nextHitSendTimeMs' = nextHitSendTimeMs
  <2>1. SUFFICES ASSUME ~disturbed' PROVE TriggerStandsForOneHit'
    BY <1>14 DEF TriggerStandsForOneHit, MessageShowsOneHit
  <2>2. ~disturbed /\ ~disturbance /\ unshown' = unshown
    <3> HIDE DEF disturbance
    <3>1. disturbed' <=> disturbance \/ disturbed
      BY <1>4, <1>14, ObserveNoMessage, LoggedNone
    <3>2. unshown' = unshown
      BY <1>4, <1>14, <2>1, ObserveNoMessage, LoggedNone
    <3> QED
      BY <2>1, <3>1, <3>2
  <2>3. CASE event = "scan"
    <3>1. IsTriggerStartPosSet(h) => lastScanning
      BY <1>14, <2>3 DEF IsNewScan
    <3>2. unshown = <<>> /\ nextHitSendTimeMs = 0
      BY <1>1, <1>7, <1>8, <1>9, <1>10, <2>2, <3>1
    <3>3. ScanIsMarked'
      BY <1>3, <1>5, <1>14, <2>2, <2>3, <3>2 DEF ScanIsMarked, IsLatencyTestActive
    <3> QED
      BY <1>3, <1>6, <1>14, <2>3, <3>3 DEF TriggerStandsForOneHit
  <2>4. CASE event = "none" /\ IsTriggerStartPosSet(h)
    <3>1. ~drum.isScanning
      BY <2>2, <2>4
    <3>2. unshown = <<monitoredPadHitInfo>>
      BY <1>8, <2>2, <2>4, <3>1
    <3>3. HitIsMarked'
      BY <1>3, <1>5, <1>11, <2>2, <2>4, <3>2 DEF HitIsMarked, IsLatencyTestActive
    <3> QED
      BY <1>3, <1>6, <1>14, <2>4, <3>3 DEF TriggerStandsForOneHit
  <2>5. CASE event = "none" /\ ~IsTriggerStartPosSet(h)
    BY <1>6, <1>10, <1>14, <2>2, <2>5 DEF TriggerStandsForOneHit
  <2> QED
    BY <1>2, <2>3, <2>4, <2>5
<1> QED
  BY <1>12, <1>13, <1>14, NoDrumHitLemma DEF MonitorInv
-----------------------------------------------------------------------------
(* The pedal and the latency test: all that waits is of one kind.          *)

(* What the next message shows, if all hits until then are this one. *)
LEMMA WaitOrSendMarks ==
  ASSUME TypeOK, NEW h \in Histories, NEW hit \in Hits, NEW logs,
         \A log \in logs : log = <<hit>> \/ (hit = "pedal" /\ log \in PedalLogs),
         NEW waits \in Hits \cup {"none"}, NEW sendTime \in Clock, NEW time \in Clock,
         ~IsTriggerStartPosSet(h) => sendTime = 0,
         WaitOrSendHitMessage(h, waits, sendTime, time, IsFull(h))
         \/ WaitOrSendHitMessage(h, waits, sendTime, time, FALSE),
         NEW before \in Logs, Observe(before, "none", FALSE),
         ~disturbed => IF IsTriggerStartPosSet(h) THEN before \in logs /\ waits = hit
                       ELSE before = <<>>
  PROVE  /\ WaitingTypes'
         /\ MessageShowsOneHit
         /\ ~disturbed' => IF IsTriggerStartPosSet(history')
                           THEN /\ unshown' \in logs /\ monitoredPadHitInfo' = hit
                                /\ nextHitSendTimeMs' = sendTime
                           ELSE unshown' = <<>>
<1>1. /\ monitoredPadHitInfo' = waits
      /\ \/ /\ IsTriggerStartPosSet(h) /\ (IsFull(h) \/ sendTime # 0)
            /\ message' = MessageOf(h, waits)
            /\ history' = NoTrigger
            /\ nextHitSendTimeMs' = 0
         \/ /\ message' = NoMessage
            /\ history' = h
            /\ nextHitSendTimeMs' = sendTime
  BY WaitOrSendLemma
<1>2. WaitingTypes'
  BY <1>1, MessageType, NoTriggerType, ZeroIsATime DEF WaitingTypes, DueIsMarked
<1>3. CASE message' # NoMessage
  <2>1. /\ IsTriggerStartPosSet(h) /\ message' = MessageOf(h, waits)
        /\ history' = NoTrigger
    BY <1>1, <1>3
  <2>2. /\ ~disturbed' /\ unshown' = <<>>
        /\ ~disturbed => shown' = before
    BY <1>3, ObserveMessage, LoggedNone
  <2>3. message'.hit = waits
    BY <2>1, MessageType
  <2> QED
    BY <1>2, <2>1, <2>2, <2>3, NoTriggerType DEF MessageShowsOneHit, PedalLogs
<1>4. CASE message' = NoMessage
  <2>1. history' = h /\ nextHitSendTimeMs' = sendTime
    BY <1>1, <1>4, MessageType
  <2>2. /\ disturbed' <=> disturbed
        /\ ~disturbed' => unshown' = before
    BY <1>4, ObserveNoMessage, LoggedNone
  <2> QED
    BY <1>1, <1>2, <1>4, <2>1, <2>2 DEF MessageShowsOneHit
<1> QED
  BY <1>3, <1>4

LEMMA PedalStep ==
  ASSUME MonitorInv, NEW h \in Histories, NEW time \in Clock,
         IsTriggerStartPosSet(h) <=> IsTriggerStartPosSet(history),
         NEW event \in PedalEvents, NEW drumEvent \in DrumEvents, now' = time,
         ~IsLatencyTestActive, monitoredPad = "pedal",
         CheckAndSendMonitoredPedalHitInfo(h, time, event, drumEvent)
  PROVE  MonitorInv' /\ MessageShowsOneHit
<1> DEFINE isHit == event = "chick" \/ isTriggeredByUser
           isFirstMove == ~isHit /\ event = "moves" /\ nextHitSendTimeMs = 0
           begun == IF IsTriggerStartPosSet(h) THEN h ELSE SetTriggerStartPos(h)
           marked == CASE isHit -> SetTriggerEndPos(begun)
                       [] isFirstMove -> SetTriggerStartPos(h)
                       [] OTHER -> h
           hit == IF isHit \/ isFirstMove THEN "pedal" ELSE monitoredPadHitInfo
           sendTime == IF isHit \/ isFirstMove THEN SendTime(time, PedalWaitMs)
                       ELSE nextHitSendTimeMs
           before == Logged(unshown, IF isHit \/ isFirstMove THEN "pedal" ELSE "none")
<1>1. /\ Sense(h, drumEvent)
      /\ WaitOrSendHitMessage(marked, hit, sendTime, time, IsFull(marked))
      /\ Observe(before, "none", FALSE)
      /\ isTriggeredByUser' = FALSE
      /\ monitoredPad' = monitoredPad /\ latencyTest' = latencyTest
      /\ lastScanning' = lastScanning
  BY DEF CheckAndSendMonitoredPedalHitInfo, selection
<1>2. /\ TypeOK /\ "pedal" \in Hits /\ nextHitSendTimeMs \in Clock
      /\ monitoredPadHitInfo \in Hits \cup {"none"} /\ unshown \in Logs
      /\ drum.lastWasChoke \in BOOLEAN /\ lastScanning \in BOOLEAN
      /\ ~IsTriggerStartPosSet(h) => nextHitSendTimeMs = 0
  BY DEF MonitorInv, MonitorTypeInv, TypeOK, Hits, DueIsMarked
<1>3. begun \in Histories /\ IsTriggerStartPosSet(begun)
  BY StartIsMarked
<1>4. /\ marked \in Histories
      /\ isHit \/ isFirstMove => IsTriggerStartPosSet(marked)
      /\ ~(isHit \/ isFirstMove) => marked = h
  <2> HIDE DEF begun
  <2>1. /\ SetTriggerEndPos(begun) \in Histories
        /\ IsTriggerStartPosSet(SetTriggerEndPos(begun))
    BY <1>3, EndIsMarked
  <2>2. SetTriggerStartPos(h) \in Histories /\ IsTriggerStartPosSet(SetTriggerStartPos(h))
    BY StartIsMarked
  <2>6. ~(isHit /\ isFirstMove)
    OBVIOUS
  <2> HIDE DEF isHit, isFirstMove
  <2>3. CASE isHit
    BY <2>1, <2>3, <2>6
  <2>4. CASE ~isHit /\ isFirstMove
    BY <2>2, <2>4
  <2>5. CASE ~isHit /\ ~isFirstMove
    BY <2>5
  <2> QED
    BY <2>3, <2>4, <2>5
<1>5. ~disturbed => IF IsTriggerStartPosSet(h)
                    THEN unshown \in PedalLogs /\ monitoredPadHitInfo = "pedal"
                    ELSE unshown = <<>>
  BY DEF MonitorInv, TriggerStandsForOneHit, HitIsMarked, ScanIsMarked
<1> HIDE DEF marked, isHit, isFirstMove
<1>6. /\ hit \in Hits \cup {"none"} /\ sendTime \in Clock /\ before \in Logs
      /\ ~IsTriggerStartPosSet(marked) => sendTime = 0
  BY <1>2, <1>4, SendTimeType, LoggedType
<1>7. ~disturbed => IF IsTriggerStartPosSet(marked) THEN before \in PedalLogs /\ hit = "pedal"
                    ELSE before = <<>>
  BY <1>4, <1>5, LoggedPedal, LoggedNone
<1> HIDE DEF hit, sendTime, before
<1>8. /\ WaitingTypes'
      /\ MessageShowsOneHit
      /\ ~disturbed' => IF IsTriggerStartPosSet(history')
                        THEN unshown' \in PedalLogs /\ monitoredPadHitInfo' = "pedal"
                        ELSE unshown' = <<>>
  BY <1>1, <1>2, <1>4, <1>6, <1>7, WaitOrSendMarks
<1>9. TriggerStandsForOneHit'
  BY <1>1, <1>8 DEF TriggerStandsForOneHit, HitIsMarked, IsLatencyTestActive
<1>10. MonitorTypeInv'
  <2>1. {unshown', shown'} \subseteq Logs /\ disturbed' \in BOOLEAN
    BY <1>1, <1>2, <1>6, ObserveType
  <2>2. drum' \in [isScanning : BOOLEAN, lastWasChoke : BOOLEAN]
    BY <1>1, <1>2, SenseLemma
  <2>3. /\ history' \in [start : Places, end : Places]
        /\ message' = NoMessage
           \/ message' \in [hit : Hits \cup {"none"}, start : 1..HistoryCount,
                            end : 1..HistoryCount]
    BY <1>8 DEF WaitingTypes, Histories, Messages
  <2>4. TypeOK'
    BY <1>1, <1>2, <1>8, <2>1, <2>2, <2>3 DEF TypeOK, WaitingTypes
  <2> QED
    BY <1>1, <1>8, <2>4 DEF MonitorTypeInv, WaitingTypes
<1> QED
  BY <1>8, <1>9, <1>10 DEF MonitorInv

LEMMA LatencyStep ==
  ASSUME MonitorInv, NEW h \in Histories, NEW time \in Clock,
         IsTriggerStartPosSet(h) <=> IsTriggerStartPosSet(history),
         NEW isAtThreshold \in BOOLEAN, now' = time, IsLatencyTestActive,
         CheckAndSendLatencyHitInfo(h, time, isAtThreshold)
  PROVE  MonitorInv' /\ MessageShowsOneHit
<1> DEFINE isHit == isAtThreshold /\ latencyTest # "SENDING_RESULT"
           onlyLatency == ~disturbed' =>
                            IF IsTriggerStartPosSet(history')
                            THEN /\ unshown' = <<"latency">> /\ nextHitSendTimeMs' # 0
                                 /\ monitoredPadHitInfo' = "latency"
                            ELSE unshown' = <<>>
<1>1. /\ latencyTest' \in {latencyTest, "SENDING_RESULT"}
      /\ drum' = drum /\ monitoredPad' = monitoredPad
      /\ isTriggeredByUser' = isTriggeredByUser /\ lastScanning' = lastScanning
  BY DEF CheckAndSendLatencyHitInfo
<1>2. /\ TypeOK /\ "latency" \in Hits /\ nextHitSendTimeMs \in Clock
      /\ monitoredPadHitInfo \in Hits \cup {"none"} /\ unshown \in Logs
      /\ ~IsTriggerStartPosSet(h) => nextHitSendTimeMs = 0
      /\ monitoredPad # "none"
  BY DEF MonitorInv, MonitorTypeInv, TypeOK, Hits, DueIsMarked
<1>3. ~disturbed => IF IsTriggerStartPosSet(h)
                    THEN /\ unshown = <<"latency">> /\ nextHitSendTimeMs # 0
                         /\ monitoredPadHitInfo = "latency"
                    ELSE unshown = <<>>
  BY DEF MonitorInv, TriggerStandsForOneHit, HitIsMarked, ScanIsMarked
<1>4. /\ WaitingTypes' /\ MessageShowsOneHit /\ onlyLatency
      /\ {unshown', shown'} \subseteq Logs /\ disturbed' \in BOOLEAN
  <2>1. CASE isHit /\ nextHitSendTimeMs = 0
    <3>1. /\ history' = SetTriggerStartPos(h)
          /\ monitoredPadHitInfo' = "latency"
          /\ nextHitSendTimeMs' = SendTime(time, LatencyWaitMs)
          /\ message' = NoMessage
          /\ Observe(unshown, "latency", nextHitSendTimeMs' = 0)
      BY <2>1 DEF CheckAndSendLatencyHitInfo
    <3>2. WaitingTypes' /\ IsTriggerStartPosSet(history')
      BY <1>2, <3>1, StartIsMarked, SendTimeType DEF WaitingTypes, DueIsMarked
    <3>3. {unshown', shown'} \subseteq Logs /\ disturbed' \in BOOLEAN
      BY <1>2, <3>1, ObserveType
    <3>4. /\ disturbed' <=> nextHitSendTimeMs' = 0 \/ disturbed
          /\ ~disturbed' => unshown' = Logged(unshown, "latency")
      BY <3>1, ObserveNoMessage, LoggedNone
    <3> QED
      BY <1>2, <1>3, <2>1, <3>1, <3>2, <3>3, <3>4, LoggedFirst DEF MessageShowsOneHit
  <2>2. CASE ~(isHit /\ nextHitSendTimeMs = 0)
    <3>1. /\ WaitOrSendHitMessage(h, monitoredPadHitInfo, nextHitSendTimeMs, time, FALSE)
          /\ Observe(unshown, "none", FALSE)
      BY <2>2 DEF CheckAndSendLatencyHitInfo
    <3>2. {unshown', shown'} \subseteq Logs /\ disturbed' \in BOOLEAN
      BY <1>2, <3>1, ObserveType
    <3> DEFINE hit == "latency"
               logs == {<<hit>>}
    <3>3. ~disturbed => IF IsTriggerStartPosSet(h)
                        THEN unshown \in logs /\ monitoredPadHitInfo = hit
                        ELSE unshown = <<>>
      BY <1>3
    <3>4. /\ \A log \in logs : log = <<hit>> \/ (hit = "pedal" /\ log \in PedalLogs)
          /\ hit \in Hits /\ hit = "latency" /\ logs = {<<"latency">>}
      BY <1>2
    <3> HIDE DEF hit, logs
    <3>5. /\ WaitingTypes' /\ MessageShowsOneHit
          /\ ~disturbed' => IF IsTriggerStartPosSet(history')
                            THEN /\ unshown' \in logs /\ monitoredPadHitInfo' = hit
                                 /\ nextHitSendTimeMs' = nextHitSendTimeMs
                            ELSE unshown' = <<>>
      <4>1. WaitOrSendHitMessage(h, monitoredPadHitInfo, nextHitSendTimeMs, time, IsFull(h))
            \/ WaitOrSendHitMessage(h, monitoredPadHitInfo, nextHitSendTimeMs, time, FALSE)
        BY <3>1
      <4>2. Observe(unshown, "none", FALSE)
        BY <3>1
      <4>3. \A log \in logs : log = <<hit>> \/ (hit = "pedal" /\ log \in PedalLogs)
        BY <3>4
      <4>4. hit \in Hits /\ unshown \in Logs /\ TypeOK
        BY <1>2, <3>4
      <4>5. ~IsTriggerStartPosSet(h) => nextHitSendTimeMs = 0
        BY <1>2
      <4>6. monitoredPadHitInfo \in Hits \cup {"none"} /\ nextHitSendTimeMs \in Clock
        BY <1>2
      <4> QED
        BY <3>3, <4>1, <4>2, <4>3, <4>4, <4>5, <4>6, WaitOrSendMarks
    <3>6. ~disturbed' /\ IsTriggerStartPosSet(history') => nextHitSendTimeMs' # 0
      <4>1. SUFFICES ASSUME ~disturbed', IsTriggerStartPosSet(history')
                     PROVE  nextHitSendTimeMs # 0
        BY <3>5
      <4>2. message' = NoMessage /\ history' = h
        BY <1>2, <3>1, <4>1, WaitOrSendLemma, NoTriggerType
      <4>3. ~disturbed
        BY <3>1, <4>1, <4>2, ObserveNoMessage
      <4> QED
        BY <1>3, <4>1, <4>2, <4>3
    <3> QED
      BY <3>2, <3>4, <3>5, <3>6
  <2> QED
    BY <2>1, <2>2
<1>5. IsLatencyTestActive' /\ latencyTest' \in LatencyTestStates
  BY <1>1, <1>2 DEF IsLatencyTestActive, LatencyTestStates, TypeOK
<1>6. TriggerStandsForOneHit'
  BY <1>1, <1>2, <1>4, <1>5 DEF TriggerStandsForOneHit, HitIsMarked
<1>7. MonitorTypeInv'
  <2>1. /\ history' \in [start : Places, end : Places]
        /\ message' = NoMessage
           \/ message' \in [hit : Hits \cup {"none"}, start : 1..HistoryCount,
                            end : 1..HistoryCount]
    BY <1>4 DEF WaitingTypes, Histories, Messages
  <2>2. TypeOK'
    BY <1>1, <1>2, <1>4, <1>5, <2>1 DEF TypeOK, WaitingTypes
  <2> QED
    BY <1>1, <1>2, <1>4, <2>2 DEF MonitorTypeInv, WaitingTypes
<1> QED
  BY <1>4, <1>6, <1>7 DEF MonitorInv
-----------------------------------------------------------------------------
(* The whole specification.                                                *)

LEMMA MonitorInit == Init => MonitorInv
<1>1. 0 \in Places /\ ~IsTriggerStartPosSet(NoTrigger) /\ NoTrigger \in Histories
  BY NoTriggerType, MonitorAssumption DEF Places
<1> SUFFICES ASSUME Init PROVE MonitorInv
  OBVIOUS
<1>2. TypeOK
  <2>1. drum \in [isScanning : BOOLEAN, lastWasChoke : BOOLEAN]
    BY DEF Init
  <2>2. history \in [start : Places, end : Places]
    BY <1>1 DEF Init, NoTrigger
  <2> QED
    BY <2>1, <2>2, ZeroIsATime DEF Init, TypeOK, LatencyTestStates, Logs
<1>3. MonitorTypeInv
  BY <1>1, <1>2 DEF Init, MonitorTypeInv, DueIsMarked, IsLatencyTestActive
<1>4. TriggerStandsForOneHit
  BY <1>1 DEF Init, TriggerStandsForOneHit
<1> QED
  BY <1>3, <1>4 DEF MonitorInv

(* An iteration of the main loop. *)
LEMMA UpdateDrumsStep ==
  ASSUME MonitorInv, NEW timing \in Timings, NEW passed \in 0..MaxLoopMs,
         UpdateDrums(timing, passed)
  PROVE  MonitorInv' /\ MessageShowsOneHit
<1>1. PICK count \in NewEntries(timing) :
        /\ monitoredPad # "none"
        /\ now' = (now + passed) % ClockSize
        /\ \/ /\ ~IsLatencyTestActive /\ monitoredPad = "drum"
              /\ \E event \in DrumEvents :
                   CheckAndSendMonitoredDrumHitInfo(AddEntries(history, count),
                                                    (now + passed) % ClockSize, event)
           \/ /\ ~IsLatencyTestActive /\ monitoredPad = "pedal"
              /\ \E event \in PedalEvents, drumEvent \in DrumEvents :
                   CheckAndSendMonitoredPedalHitInfo(AddEntries(history, count),
                                                     (now + passed) % ClockSize,
                                                     event, drumEvent)
           \/ /\ IsLatencyTestActive
              /\ \E isAtThreshold \in BOOLEAN :
                   CheckAndSendLatencyHitInfo(AddEntries(history, count),
                                              (now + passed) % ClockSize, isAtThreshold)
  BY DEF UpdateDrums
<1> DEFINE h == AddEntries(history, count)
           time == (now + passed) % ClockSize
<1>2. h \in Histories /\ (IsTriggerStartPosSet(h) <=> IsTriggerStartPosSet(history))
  <2>1. history \in Histories /\ count \in Nat
    BY <1>1, NewEntriesType DEF MonitorInv, MonitorTypeInv
  <2> QED
    BY <2>1, AddEntriesKeepsTheTrigger
<1>3. time \in Clock
  <2>1. ClockSize \in Nat \ {0} /\ MaxLoopMs \in Nat
    BY MonitorAssumption
  <2>2. now + passed \in Nat
    BY <2>1 DEF MonitorInv, MonitorTypeInv, TypeOK, Clock
  <2>3. \A a \in Nat, b \in Nat \ {0} : a % b \in 0..(b - 1)
    OBVIOUS
  <2> QED
    BY <2>1, <2>2, <2>3 DEF Clock
<1> HIDE DEF h, time
<1>4. ASSUME NEW event \in DrumEvents, ~IsLatencyTestActive, monitoredPad = "drum",
             CheckAndSendMonitoredDrumHitInfo(h, time, event)
      PROVE  MonitorInv' /\ MessageShowsOneHit
  <2>1. MonitorTypeInv'
    BY <1>1, <1>2, <1>3, <1>4, DrumTypes DEF MonitorInv, time
  <2>2. DrumHit(h, event, time) \/ NoDrumHit(h, event, time)
    BY <1>4 DEF CheckAndSendMonitoredDrumHitInfo
  <2>3. TriggerStandsForOneHit' /\ MessageShowsOneHit
    BY <1>2, <1>3, <1>4, <2>2, DrumHitMarks, NoDrumHitMarks
  <2> QED
    BY <2>1, <2>3 DEF MonitorInv
<1>5. ASSUME NEW event \in PedalEvents, NEW drumEvent \in DrumEvents,
             ~IsLatencyTestActive, monitoredPad = "pedal",
             CheckAndSendMonitoredPedalHitInfo(h, time, event, drumEvent)
      PROVE  MonitorInv' /\ MessageShowsOneHit
  BY <1>1, <1>2, <1>3, <1>5, PedalStep DEF time
<1>6. ASSUME NEW isAtThreshold \in BOOLEAN, IsLatencyTestActive,
             CheckAndSendLatencyHitInfo(h, time, isAtThreshold)
      PROVE  MonitorInv' /\ MessageShowsOneHit
  BY <1>1, <1>2, <1>3, <1>6, LatencyStep DEF time
<1> QED
  BY <1>1, <1>4, <1>5, <1>6 DEF h, time

(* While no pad is monitored, the pads are sensed all the same. *)
LEMMA UnmonitoredStep ==
  ASSUME MonitorInv, NEW passed \in 0..MaxLoopMs, UpdateDrumsUnmonitored(passed)
  PROVE  MonitorInv' /\ MessageShowsOneHit
<1>1. /\ monitoredPad = "none" /\ message' = NoMessage
      /\ now' = (now + passed) % ClockSize
      /\ Observe(unshown, "none", FALSE)
      /\ monitoredPad' = monitoredPad /\ latencyTest' = latencyTest
      /\ isTriggeredByUser' = isTriggeredByUser /\ history' = history
      /\ monitoredPadHitInfo' = monitoredPadHitInfo
      /\ nextHitSendTimeMs' = nextHitSendTimeMs /\ lastScanning' = lastScanning
  BY DEF UpdateDrumsUnmonitored, selection, waiting
<1>2. TypeOK /\ unshown \in Logs /\ drum.lastWasChoke \in BOOLEAN
  BY DEF MonitorInv, MonitorTypeInv, TypeOK
<1>3. now' \in Clock
  <2>1. ClockSize \in Nat \ {0} /\ MaxLoopMs \in Nat
    BY MonitorAssumption
  <2>2. now + passed \in Nat
    BY <1>2, <2>1 DEF TypeOK, Clock
  <2>3. \A a \in Nat, b \in Nat \ {0} : a % b \in 0..(b - 1)
    OBVIOUS
  <2> QED
    BY <1>1, <2>1, <2>2, <2>3 DEF Clock
<1>4. drum' \in [isScanning : BOOLEAN, lastWasChoke : BOOLEAN]
  <2>1. PICK event \in DrumEvents : Sense(history, event)
    BY DEF UpdateDrumsUnmonitored
  <2> QED
    BY <1>2, <2>1, SenseLemma
<1>5. {unshown', shown'} \subseteq Logs /\ disturbed' \in BOOLEAN
  BY <1>1, <1>2, ObserveType
<1>6. MonitorTypeInv'
  <2>1. TypeOK'
    BY <1>1, <1>2, <1>3, <1>4, <1>5 DEF TypeOK
  <2> QED
    BY <1>1, <2>1 DEF MonitorInv, MonitorTypeInv, DueIsMarked, IsLatencyTestActive
<1>7. /\ disturbed' <=> disturbed
      /\ ~disturbed' => unshown' = unshown
  BY <1>1, ObserveNoMessage, LoggedNone
<1>8. TriggerStandsForOneHit'
  BY <1>1, <1>7 DEF MonitorInv, TriggerStandsForOneHit
<1> QED
  BY <1>1, <1>6, <1>8 DEF MonitorInv, MessageShowsOneHit

(* A command disturbs what is marked. *)
LEMMA CommandStep ==
  ASSUME MonitorInv, Command,
         monitoredPad' \in Pads \cup {"none"}, latencyTest' \in LatencyTestStates,
         monitoredPad' = "none" => latencyTest' = "INACTIVE",
         isTriggeredByUser' \in BOOLEAN
  PROVE  MonitorInv' /\ MessageShowsOneHit
<1>1. /\ message' = NoMessage
      /\ Observe(unshown, "none", IsTriggerStartPosSet(history))
      /\ now' = now /\ drum' = drum /\ history' = history
      /\ monitoredPadHitInfo' = monitoredPadHitInfo
      /\ nextHitSendTimeMs' = nextHitSendTimeMs /\ lastScanning' = lastScanning
  BY DEF Command, waiting
<1>2. TypeOK /\ unshown \in Logs /\ IsTriggerStartPosSet(history) \in BOOLEAN
  BY DEF MonitorInv, MonitorTypeInv, TypeOK, IsTriggerStartPosSet
<1>3. {unshown', shown'} \subseteq Logs /\ disturbed' \in BOOLEAN
  BY <1>1, <1>2, ObserveType
<1>4. MonitorTypeInv'
  <2>1. TypeOK'
    BY <1>1, <1>2, <1>3 DEF TypeOK
  <2> QED
    BY <1>1, <2>1 DEF MonitorInv, MonitorTypeInv, DueIsMarked, IsLatencyTestActive
<1>5. /\ disturbed' <=> IsTriggerStartPosSet(history) \/ disturbed
      /\ ~disturbed' => unshown' = unshown
  BY <1>1, <1>2, ObserveNoMessage, LoggedNone
<1>6. TriggerStandsForOneHit'
  BY <1>1, <1>5 DEF MonitorInv, TriggerStandsForOneHit
<1> QED
  BY <1>1, <1>4, <1>6 DEF MonitorInv, MessageShowsOneHit

LEMMA MonitorNext == MonitorInv /\ [Next]_vars => MonitorInv' /\ [MessageShowsOneHit]_vars
<1> SUFFICES ASSUME MonitorInv, [Next]_vars PROVE MonitorInv' /\ [MessageShowsOneHit]_vars
  OBVIOUS
<1> USE DEF MonitorInv, MonitorTypeInv, TypeOK
<1>1. ASSUME NEW timing \in Timings, NEW passed \in 0..MaxLoopMs,
             UpdateDrums(timing, passed)
      PROVE  MonitorInv' /\ MessageShowsOneHit
  BY <1>1, UpdateDrumsStep
<1>2. ASSUME NEW passed \in 0..MaxLoopMs, UpdateDrumsUnmonitored(passed)
      PROVE  MonitorInv' /\ MessageShowsOneHit
  BY <1>2, UnmonitoredStep
<1>3. ASSUME NEW pad \in Pads \cup {"none"}, HandleSetMonitor(pad)
      PROVE  MonitorInv' /\ MessageShowsOneHit
  BY <1>3, CommandStep DEF HandleSetMonitor, LatencyTestStates
<1>4. CASE HandleTriggerMonitor
  BY <1>4, CommandStep DEF HandleTriggerMonitor, selection, IsLatencyTestActive
<1>5. CASE HandleLatencyTestRequest
  BY <1>5, CommandStep DEF HandleLatencyTestRequest, LatencyTestStates
<1>6. CASE UNCHANGED vars
  BY <1>6 DEF vars, selection, waiting, TriggerStandsForOneHit, HitIsMarked, ScanIsMarked,
              DueIsMarked, IsLatencyTestActive
<1> QED
  BY <1>1, <1>2, <1>3, <1>4, <1>5, <1>6 DEF Next

(* The types are right in every reachable state. *)
THEOREM MonitorTypes == Spec => []TypeOK
<1>1. MonitorInv => TypeOK
  BY DEF MonitorInv, MonitorTypeInv
<1> QED
  BY MonitorInit, MonitorNext, <1>1, PTL DEF Spec

(* Every message shows the one hit that happened since the message before  *)
(* it (checkAndSendMonitoredDrumHitInfo(), waitOrSendHitMessage()), or at  *)
(* least one move or chick of the pedal and nothing else                   *)
(* (checkAndSendMonitoredPedalHitInfo()), unless the page interfered or a  *)
(* scan brought no hit while a trigger was marked, or a latency hit got    *)
(* the time 0.                                                             *)
THEOREM EachMessageShowsTheHit == Spec => EachMessageShowsOneHit
<1>1. [MessageShowsOneHit]_vars <=>
        [message' # NoMessage =>
           \/ disturbed \/ disturbed'
           \/ shown' = <<message'.hit>>
           \/ message'.hit = "pedal" /\ shown' = <<"pedal", "pedal">>]_vars
  BY DEF MessageShowsOneHit
<1> QED
  BY MonitorInit, MonitorNext, <1>1, PTL DEF Spec, EachMessageShowsOneHit
=============================================================================
