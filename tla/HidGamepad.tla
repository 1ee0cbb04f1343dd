----------------------------- MODULE HidGamepad -----------------------------
(***************************************************************************)
(* A gamepad at the USB host port: how its report descriptor is read       *)
(* (hidparser.c), and its reports (usb_host_gamepad.cpp).                  *)
(*                                                                         *)
(* A descriptor is a sequence of items: [tag |-> "report size", value |->  *)
(* n] and the like.  Global items set the row of a table that a push       *)
(* copies; usages wait for the next main item; an input, output or feature *)
(* item adds as many fields as the report count says to the report of the  *)
(* current id.  The fields the firmware can use become report items, which *)
(* come from a pool.  Logical and physical limits and units are read, but  *)
(* nobody asks for them.                                                   *)
(***************************************************************************)
EXTENDS Integers, SequencesExt

CONSTANTS
  Descriptors,  (* of the gamepads                                          *)
  Reports,      (* they send: an id, and the bits that are 1                *)
  StackDepth,   (* HID_STATETABLE_STACK_DEPTH                               *)
  UsageDepth,   (* HID_USAGE_STACK_DEPTH                                    *)
  ItemPool      (* HID_ReportItem, 50                                       *)

(* A descriptor is a sequence of items, and counts are numbers. *)
GamepadAssumption ==
  /\ {StackDepth, UsageDepth, ItemPool} \subseteq Nat \ {0}
  /\ \A d \in Descriptors :
       /\ d \in Seq({d[n] : n \in DOMAIN d})
       /\ \A n \in DOMAIN d : d[n].tag = "report count" => d[n].value \in Nat

Types == {"input", "output", "feature"}

(* Usages of the desktop page; those of the button page are 1, 2, ...      *)
Axes == {48, 49, 50, 53}  (* X, Y, Z, Rz *)
HatSwitch == 57
Up == 144
Down == 145
Right == 146
Left == 147
Directions == {Up, Down, Right, Left}

VARIABLES
  enabled,       (* a transport uses the gamepad                            *)
  plugged,       (* <<the descriptor of the gamepad that is plugged in>>    *)
  hidReportInfo, (* <<what became of the descriptor>> while mounted         *)
  pools,         (* structures that are acquired                            *)
  crashed,       (* a pool was empty                                        *)
  data,          (* the last report as the firmware reads it                *)
  shown          (* ... as the gamepad means it (history)                   *)

vars == <<enabled, plugged, hidReportInfo, pools, crashed, data, shown>>

-----------------------------------------------------------------------------
(* The parser. *)

NewReport(id) == [id |-> id, bits |-> [t \in Types |-> 0]]

(* The collections are a list with their parents; open is the current one. *)
(* acquired and released count those of the pool.                          *)
NewParser ==
  [tables |-> <<[page |-> "none", size |-> 0, count |-> 0, id |-> 0]>>,
   usages |-> <<>>, minimum |-> 0, maximum |-> 0,
   reports |-> <<NewReport(0)>>, current |-> 1, usingIds |-> FALSE,
   parents |-> <<0>>, open |-> 0, paths |-> 1,
   fields |-> <<>>, items |-> <<>>, result |-> "successful"]

Table(p) == p.tables[Len(p.tables)]
SetTable(p, column, value) == [p EXCEPT !.tables[Len(p.tables)][column] = value]
Fail(p, error) == [p EXCEPT !.result = error]

PushTable(p) ==
  IF Len(p.tables) = StackDepth THEN Fail(p, "stack overflow")
  ELSE [p EXCEPT !.tables = Append(@, Table(p))]

PopTable(p) ==
  IF Len(p.tables) = 1 THEN Fail(p, "stack underflow")
  ELSE [p EXCEPT !.tables = Front(@)]

(* The first id is given to the report that was there from the beginning.  *)
SetReportId(p, id) ==
  LET q == SetTable(p, "id", id)
      known == {r \in DOMAIN p.reports : p.reports[r].id = id}
  IN IF ~p.usingIds
     THEN [q EXCEPT !.usingIds = TRUE, !.reports[p.current].id = id]
     ELSE IF known # {}
     THEN [q EXCEPT !.current = CHOOSE r \in known : \A s \in known : r <= s]
     ELSE [q EXCEPT !.reports = Append(@, NewReport(id)),
                    !.current = Len(p.reports) + 1]

AddUsage(p, i) ==
  LET q == IF i.page = "same" THEN p ELSE SetTable(p, "page", i.page) IN
  IF Len(p.usages) = UsageDepth THEN Fail(p, "usage list overflow")
  ELSE [q EXCEPT !.usages = Append(@, i.usage)]

(* The usage of the next field or collection, from the list or the range.  *)
NextUsage(p) ==
  IF p.usages # <<>> THEN Head(p.usages)
  ELSE IF p.minimum <= p.maximum THEN p.minimum ELSE 0
TakeUsage(p) ==
  IF p.usages # <<>> THEN [p EXCEPT !.usages = Tail(@)]
  ELSE IF p.minimum <= p.maximum THEN [p EXCEPT !.minimum = @ + 1] ELSE p

BeginCollection(p) ==
  IF p.open = 0 THEN [TakeUsage(p) EXCEPT !.open = 1]
  ELSE [TakeUsage(p) EXCEPT !.parents = Append(@, p.open),
                            !.open = Len(p.parents) + 1, !.paths = @ + 1]

(* The parent forgets the collection after it, which goes back.            *)
EndCollection(p) ==
  LET parent == p.parents[p.open] IN
  IF p.open = 0 THEN Fail(p, "unexpected end of collection")
  ELSE IF parent = 0 THEN [p EXCEPT !.open = 0]
  ELSE [p EXCEPT !.open = parent, !.parents = SubSeq(@, 1, parent),
                 !.paths = @ - 1]

(* CALLBACK_HIDParser_FilterHIDReportItem() *)
IsWanted(f) ==
  /\ f.type = "input" /\ ~f.constant
  /\ \/ f.page = "desktop" /\ f.usage \in Axes \cup Directions \cup {HatSwitch}
     \/ f.page = "button"

(* A plausible slip: the padding takes no room. *)
AddFieldUnlessPadding(p, i) ==
  LET t == Table(p)
      f == [id |-> t.id, type |-> i.tag, constant |-> i.constant,
            page |-> t.page, usage |-> NextUsage(p), size |-> t.size,
            report |-> p.current, offset |-> p.reports[p.current].bits[i.tag]]
      q == [TakeUsage(p) EXCEPT !.fields = Append(@, f)]
  IN IF ~IsWanted(f) THEN q
     ELSE [q EXCEPT !.items = Append(@, f),
                    !.reports[p.current].bits[i.tag] = @ + t.size]

AddField(p, i) ==
  LET t == Table(p)
      f == [id |-> t.id, type |-> i.tag, constant |-> i.constant,
            page |-> t.page, usage |-> NextUsage(p), size |-> t.size,
            report |-> p.current, offset |-> p.reports[p.current].bits[i.tag]]
      q == [TakeUsage(p) EXCEPT !.reports[p.current].bits[i.tag] = @ + t.size,
                                !.fields = Append(@, f)]
  IN IF ~IsWanted(f) THEN q
     ELSE IF Len(p.items) = ItemPool THEN Fail(p, "crash")
     ELSE [q EXCEPT !.items = Append(@, f)]

AddFields(p, i) ==
  LET with[n \in 0..Table(p).count] ==
        IF n = 0 THEN p
        ELSE IF with[n - 1].result = "crash" THEN with[n - 1]
        ELSE AddField(with[n - 1], i)
  IN  with[Table(p).count]

ForgetUsages(p) == [p EXCEPT !.usages = <<>>, !.minimum = 0, !.maximum = 0]

(* One item of the descriptor; the usages are gone after a main item.      *)
ParseItem(p, i) ==
  IF p.result # "successful" THEN p ELSE
  CASE i.tag = "push" -> PushTable(p)
    [] i.tag = "pop" -> PopTable(p)
    [] i.tag = "usage page" -> SetTable(p, "page", i.value)
    [] i.tag = "report size" -> SetTable(p, "size", i.value)
    [] i.tag = "report count" -> SetTable(p, "count", i.value)
    [] i.tag = "report id" -> SetReportId(p, i.value)
    [] i.tag = "usage" -> AddUsage(p, i)
    [] i.tag = "usage minimum" -> [p EXCEPT !.minimum = i.value]
    [] i.tag = "usage maximum" -> [p EXCEPT !.maximum = i.value]
    [] i.tag = "collection" -> ForgetUsages(BeginCollection(p))
    [] i.tag = "end collection" -> ForgetUsages(EndCollection(p))
    [] i.tag \in Types -> ForgetUsages(AddFields(p, i))
    [] OTHER -> p

(* USB_ProcessHIDReport() *)
Parse(descriptor) ==
  LET after[n \in 0..Len(descriptor)] ==
        IF n = 0 THEN NewParser ELSE ParseItem(after[n - 1], descriptor[n])
      p == after[Len(descriptor)] IN
  IF p.result = "crash" \/ p.items # <<>> THEN p
  ELSE Fail(p, "no unfiltered report items")

(* What it keeps: the report and its items, if it was successful.  The     *)
(* list of the collections goes back (and that of the reports).            *)
PoolsAfter(p) ==
  LET kept == p.result = "successful" IN
  [paths |-> pools.paths + p.paths - Len(p.parents),
   infos |-> pools.infos + (IF kept THEN 1 ELSE 0),
   items |-> pools.items + (IF kept THEN Len(p.items) ELSE 0)]

-----------------------------------------------------------------------------
(* Reading a report. *)

NoData == [axes |-> <<>>, dpad |-> {}, hasDPad |-> FALSE, buttons |-> {}]

(* USB_GetHIDReportItemInfo() *)
Bits(report, offset, size) ==
  MapThenSumSet(LAMBDA k : IF offset + k \in report.bits THEN 2^k ELSE 0,
                0..size - 1)

(* GetAxis(): 16 bits *)
Axis(value, size) ==
  IF size > 16 THEN value \div 2^(size - 16) ELSE value * 2^(16 - size)

HatDirections(value) ==
  {d \in Directions :
     \/ d = Left /\ value \in 5..7
     \/ d = Right /\ value \in 1..3
     \/ d = Up /\ value \in {0, 1, 7}
     \/ d = Down /\ value \in 3..5}

(* What a field at the offset says.  A direction of its own is taken for   *)
(* pressed whatever its value is.                                          *)
ReadField(out, f, report, offset) ==
  LET value == Bits(report, offset, f.size) IN
  IF f.id # report.id THEN out ELSE
  CASE f.page = "button" ->
         IF f.usage \in 1..16 /\ value # 0
         THEN [out EXCEPT !.buttons = @ \cup {f.usage}] ELSE out
    [] f.page = "desktop" /\ f.usage \in Axes ->
         [out EXCEPT !.axes = Append(@, <<f.usage, Axis(value, f.size)>>)]
    [] f.page = "desktop" /\ f.usage = HatSwitch ->
         [out EXCEPT !.dpad = HatDirections(value), !.hasDPad = TRUE]
    [] OTHER -> [out EXCEPT !.dpad = @ \cup {f.usage}]

(* fill_generic_report() *)
FillGenericReport(items, report) ==
  LET from[n \in 0..Len(items)] ==
        IF n = 0 THEN NoData
        ELSE ReadField(from[n - 1], items[n], report, items[n].offset)
  IN  from[Len(items)]

-----------------------------------------------------------------------------
(* usb_host_gamepad.cpp *)

Unmounted ==
  /\ hidReportInfo' = <<>>
  /\ pools' = [pools EXCEPT
       !.infos = @ - Len(hidReportInfo),
       !.items = IF hidReportInfo = <<>> THEN @ ELSE @ - Len(hidReportInfo[1].items)]
  /\ data' = NoData /\ shown' = NoData

Start == enabled' = TRUE /\ UNCHANGED <<plugged, hidReportInfo, pools, crashed, data, shown>>

Stop ==
  /\ enabled' = FALSE
  /\ Unmounted
  /\ UNCHANGED <<plugged, crashed>>

(* tuh_hid_mount_cb() *)
Plug ==
  /\ plugged = <<>>
  /\ \E d \in Descriptors :
       LET p == Parse(d) IN
       /\ plugged' = <<d>>
       /\ IF ~enabled THEN UNCHANGED <<hidReportInfo, pools, crashed>>
          ELSE /\ hidReportInfo' = IF p.result = "successful" THEN <<p>> ELSE <<>>
               /\ pools' = PoolsAfter(p)
               /\ crashed' = (p.result = "crash")
  /\ UNCHANGED <<enabled, data, shown>>

(* tuh_hid_umount_cb() *)
Unplug ==
  /\ plugged # <<>> /\ plugged' = <<>>
  /\ IF enabled THEN Unmounted ELSE UNCHANGED <<hidReportInfo, pools, data, shown>>
  /\ UNCHANGED <<enabled, crashed>>

(* Where the gamepad puts its fields: one after the other, in the report   *)
(* of their id.                                                            *)
Position(fields, n) ==
  LET behind[m \in 0..(n - 1)] ==
        IF m = 0 THEN 0
        ELSE IF fields[m].id = fields[n].id /\ fields[m].type = fields[n].type
        THEN behind[m - 1] + fields[m].size ELSE behind[m - 1]
  IN  behind[n - 1]
Meant(fields, report) ==
  LET of[n \in 0..Len(fields)] ==
        IF n = 0 THEN NoData
        ELSE IF IsWanted(fields[n])
        THEN ReadField(of[n - 1], fields[n], report, Position(fields, n))
        ELSE of[n - 1]
  IN  of[Len(fields)]

(* tuh_hid_report_received_cb() *)
ReportReceived ==
  /\ enabled /\ hidReportInfo # <<>>
  /\ \E report \in Reports :
       /\ data' = FillGenericReport(hidReportInfo[1].items, report)
       /\ shown' = Meant(hidReportInfo[1].fields, report)
  /\ UNCHANGED <<enabled, plugged, hidReportInfo, pools, crashed>>

Init ==
  /\ enabled = FALSE /\ plugged = <<>> /\ hidReportInfo = <<>> /\ crashed = FALSE
  /\ pools = [paths |-> 0, infos |-> 0, items |-> 0]
  /\ data = NoData /\ shown = NoData

Next == ~crashed /\ (Start \/ Stop \/ Plug \/ Unplug \/ ReportReceived)

Spec == Init /\ [][Next]_vars

-----------------------------------------------------------------------------
(* A descriptor may go back to another report id by a pop; the fields are  *)
(* then placed in the report that was current (SetReportId).  And it may   *)
(* have fields before its first id.  Nothing is promised for these.        *)
IsOrderly(p) ==
  \A n \in DOMAIN p.fields : p.reports[p.fields[n].report].id = p.fields[n].id

(* What the firmware takes from a report is what the gamepad says, if its  *)
(* descriptor is orderly: no field is read from the bits of another, of    *)
(* another report or of the padding (USB_ProcessHIDReport,                 *)
(* fill_generic_report).                                                   *)
ReportsAreUnderstood ==
  hidReportInfo # <<>> /\ IsOrderly(hidReportInfo[1]) => data = shown

(* Whatever was plugged in, and whether it was understood or not, only     *)
(* what is mounted holds structures of the pools, which are never refilled *)
(* (USB_ProcessHIDReport, USB_FreeReportInfo).                             *)
PoolsAreGivenBack ==
  /\ pools.paths = 0
  /\ pools.infos = Len(hidReportInfo)
  /\ pools.items = IF hidReportInfo = <<>> THEN 0 ELSE Len(hidReportInfo[1].items)
=============================================================================
