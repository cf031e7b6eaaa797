----------------------------- MODULE HidReports -----------------------------
(***************************************************************************)
(* KeyboardI2C in HID mode: _hid_handler turns the batches _irq_handler    *)
(* read from the chip into HID reports of at most six keys, which go to    *)
(* the report callback through the scheduler or, without a callback, to    *)
(* _hid_reports.  How a batch is read is KeyboardI2C's part; here it is    *)
(* read in one step, and a batch may be any run of key movements.          *)
(***************************************************************************)
EXTENDS Integers, Sequences, SequencesExt, KeyLayout

CONSTANTS
  Keys,        \* the switches in use, by TCA8418 key number
  Slots,       \* keys a report holds: 6 in the code
  HasCallback, \* whether set_hid_report_callback was called
  MaxEvents    \* bound: key movements in a behaviour

ASSUME HidAssumption ==
  /\ Keys \subseteq 1..70
  /\ Slots \in Nat \ {0}
  /\ HasCallback \in BOOLEAN
  /\ MaxEvents \in Nat

VARIABLES
  held,          \* the switches that are down
  unread,        \* events in the chip
  batch,         \* events _hid_handler still has to process
  busy,          \* whether _hid_handler is running
  hid_report,    \* the report it is filling
  reports,       \* reports sent so far, oldest first
  fn_state,      \* self._fn_state
  modifier_mask, \* self._modifier_mask
  typed,         \* history: the keys with a code pressed so far, with FN as it was
  lost,          \* history: whether a report was lost to a full scheduler
  moves          \* key movements so far

hidVars == <<held, unread, batch, busy, hid_report, reports, fn_state,
             modifier_mask, typed, lost, moves>>
-----------------------------------------------------------------------------
(* HIDInputReport.                                                         *)

(* The table of scan codes, a row of the keyboard each; 0 is no key.       *)
scancode == <<
  <<53, 30, 31, 32, 33, 34, 35, 36, 37, 38, 39, 45, 46, 42>>,
  <<43, 20, 26,  8, 21, 23, 28, 24, 15, 18, 19, 47, 48, 49>>,
  << 0,  0,  4, 22,  7,  9, 10, 11, 13, 14, 12, 51, 52, 40>>,
  << 0,  0,  0, 44, 45, 46, 47, 48, 49, 50, 51, 52, 53, 44>> >>

FnCode(pos) ==
  CASE pos = Key(0, 0)  -> 41
    [] pos = Key(0, 13) -> 42
    [] pos = Key(2, 11) -> 82
    [] pos = Key(3, 10) -> 80
    [] pos = Key(3, 11) -> 81
    [] pos = Key(3, 12) -> 79

Code(pos, fn) ==
  IF fn /\ pos \in FnKeys THEN FnCode(pos) ELSE scancode[pos.row + 1][pos.col + 1]

(* keys are the slots in use: a code of 0 leaves its slot free for the     *)
(* next key.  append_key sets done whenever it writes the last slot, even  *)
(* with 0.                                                                 *)
NewReport == [mods |-> {}, keys |-> <<>>]

AppendKey(keys, code) == IF code = 0 THEN keys ELSE Append(keys, code)

\* Mutant of Done: a full report is not noticed.
NeverDone(keys) == FALSE

Done(keys) == Len(keys) = Slots - 1
-----------------------------------------------------------------------------
Init ==
  /\ held = {}
  /\ unread = <<>>
  /\ batch = <<>>
  /\ busy = FALSE
  /\ hid_report = NewReport
  /\ reports = <<>>
  /\ fn_state = FALSE
  /\ modifier_mask = {}
  /\ typed = <<>>
  /\ lost = FALSE
  /\ moves = 0

KeyMoves(k) ==
  /\ moves < MaxEvents
  /\ moves' = moves + 1
  /\ held' = IF k \in held THEN held \ {k} ELSE held \cup {k}
  /\ unread' = Append(unread, IF k \in held THEN k ELSE 128 + k)
  /\ LET press == [pos |-> Position(k), fn |-> PhysicalFn(held')]
     IN  typed' = IF k \in held \/ Code(press.pos, press.fn) = 0 THEN typed
                  ELSE Append(typed, press)
  /\ UNCHANGED <<batch, busy, hid_report, reports, fn_state, modifier_mask, lost>>

\* Mutant of StartBatch: the report of the last batch is filled further.
StartBatchInOldReport ==
  /\ ~busy
  /\ unread # <<>>
  /\ busy' = TRUE
  /\ batch' = unread
  /\ unread' = <<>>
  /\ UNCHANGED <<held, hid_report, reports, fn_state, modifier_mask, typed, lost, moves>>

(* The tick _irq_handler scheduled starts, with all it read.               *)
StartBatch ==
  /\ ~busy
  /\ unread # <<>>
  /\ busy' = TRUE
  /\ batch' = unread
  /\ unread' = <<>>
  /\ hid_report' = NewReport
  /\ UNCHANGED <<held, reports, fn_state, modifier_mask, typed, lost, moves>>

(* Sending: appended to _hid_reports, or scheduled, which raises when the  *)
(* scheduler's queue is full and ends the handler.                         *)
Send(report) ==
  /\ reports' = Append(reports, report)
  /\ UNCHANGED lost

SendFails ==
  /\ HasCallback
  /\ lost' = TRUE
  /\ busy' = FALSE
  /\ batch' = <<>>
  /\ UNCHANGED reports

(* _update_modifier_mask.                                                  *)
FnAfter(byte) == IF IsFn(Position(byte)) THEN IsPress(byte) ELSE fn_state

\* Mutant of MaskAfter: a modifier is never taken back.
MaskOnlyGrows(byte) == modifier_mask \cup ModifierAt(Position(byte))

MaskAfter(byte) ==
  IF IsPress(byte) THEN modifier_mask \cup ModifierAt(Position(byte))
                   ELSE modifier_mask \ ModifierAt(Position(byte))

(* The report takes the modifiers of its latest event and, of a press, the *)
(* key; when it is done it is sent and a new one begun.                    *)
HidEvent ==
  /\ busy
  /\ batch # <<>>
  /\ LET byte   == Head(batch)
         report == [mods |-> MaskAfter(byte),
                    keys |-> IF IsPress(byte)
                             THEN AppendKey(hid_report.keys,
                                            Code(Position(byte), FnAfter(byte)))
                             ELSE hid_report.keys]
         done   == IsPress(byte) /\ Done(hid_report.keys)
     IN  /\ fn_state' = FnAfter(byte)
         /\ modifier_mask' = MaskAfter(byte)
         /\ hid_report' = IF done THEN NewReport ELSE report
         /\ \/ /\ ~done
               /\ batch' = Tail(batch)
               /\ UNCHANGED <<busy, reports, lost>>
            \/ /\ done
               /\ batch' = Tail(batch)
               /\ UNCHANGED busy
               /\ Send(report)
            \/ done /\ SendFails
  /\ UNCHANGED <<held, unread, typed, moves>>

(* After the loop the report begun last is sent, even with no key in it.   *)
EndBatch ==
  /\ busy
  /\ batch = <<>>
  /\ \/ /\ Send(hid_report)
        /\ busy' = FALSE
        /\ UNCHANGED batch
     \/ SendFails
  /\ UNCHANGED <<held, unread, hid_report, fn_state, modifier_mask, typed, moves>>

HidNext ==
  \/ \E k \in Keys : KeyMoves(k)
  \/ StartBatch
  \/ HidEvent
  \/ EndBatch

HidSpec == Init /\ [][HidNext]_hidVars
-----------------------------------------------------------------------------
Report == [mods: SUBSET Modifiers, keys: Seq(1..255)]

TypeOK ==
  /\ held \subseteq Keys
  /\ unread \in Seq(0..255)
  /\ batch \in Seq(0..255)
  /\ busy \in BOOLEAN
  /\ hid_report \in Report /\ Len(hid_report.keys) < Slots
  /\ reports \in Seq(Report)
  /\ \A i \in DOMAIN reports : Len(reports[i].keys) <= Slots
  /\ fn_state \in BOOLEAN
  /\ modifier_mask \subseteq Modifiers
  /\ typed \in Seq([pos: [row: 0..3, col: 0..13], fn: BOOLEAN])
  /\ lost \in BOOLEAN
  /\ moves \in 0..MaxEvents

KeysOf(rs) == FlattenSeq([i \in DOMAIN rs |-> rs[i].keys])

Settled == ~busy /\ unread = <<>>

(* However key movements fall into batches, and whatever slots they fill,  *)
(* the reports' keys are the keys that were typed, in order, each once,    *)
(* with the FN layer of the moment of the press.                           *)
EveryPressReported ==
  LET codes == [i \in DOMAIN typed |-> Code(typed[i].pos, typed[i].fn)]
  IN  ~lost => /\ busy => IsPrefix(KeysOf(reports) \o hid_report.keys, codes)
               /\ Settled => KeysOf(reports) = codes

(* Once all events are processed, the latest report tells the modifiers    *)
(* that are really down: none sticks, whatever keys they were mixed with.  *)
(* When a batch ends with the key that fills a report, that report tells   *)
(* them, and the blank one _hid_handler sends after it does not.           *)
ModifiersSettle ==
  ~lost /\ Settled /\ reports # <<>> =>
    LET Tells(i) == reports[i].mods = PhysicalMask(held)
        n == Len(reports)
    IN  \/ Tells(n)
        \/ reports[n] = NewReport /\ Len(reports[n - 1].keys) >= Slots - 1 /\ Tells(n - 1)

(* The USB HID usage of the key each comment of the table names.           *)
usage == [scancode EXCEPT
  ![2][9]  = 12,                                                 \* i and I
  ![3][11] = 15,                                                 \* l and L
  ![4]     = <<0, 0, 0, 29, 27, 6, 25, 5, 17, 16, 54, 55, 56, 44>>]

(* What the comments of the table say: the report of a key has the code of *)
(* the character beside it.                                                *)
CodesOfTheComments ==
  Settled /\ ~lost /\ (\A i \in DOMAIN typed : ~typed[i].fn) =>
    KeysOf(reports) =
      [i \in DOMAIN typed |-> usage[typed[i].pos.row + 1][typed[i].pos.col + 1]]
=============================================================================
