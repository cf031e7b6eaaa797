---------------------------- MODULE WlanSettings ----------------------------
(***************************************************************************)
(* The WLAN page of the Cardputer ADV's settings (WiFiSettingApp): three   *)
(* text fields and a submit button.  Keys edit a copy of each field; Enter *)
(* on the button writes the fields that changed to the NVS, one after the  *)
(* other, commits once and connects again.  The power can go between any   *)
(* two of these steps; the next boot connects with what the NVS kept.      *)
(*                                                                         *)
(* What is typed matters only as far as texts differ and as an empty       *)
(* network name is not connected to: a text is the number of its           *)
(* characters.                                                             *)
(***************************************************************************)
EXTENDS Integers

CONSTANT MaxText  \* bound: characters in a field

ASSUME TextAssumption == MaxText \in Nat

VARIABLES
  nvs,     \* the fields as the NVS library returns them
  flash,   \* those of them that are committed
  page,    \* "closed", "open", or the next step of set_data
  option,  \* self._option: 0 none, 1 to 3 a field, 4 the submit button
  saved,   \* self.ssid, psk and server
  edit,    \* self.ssid_tmp, psk_tmp and server_tmp
  is_save, \* set_data's local
  labels,  \* what the display shows in each field
  network, \* the name and password the WLAN driver was last given, or None
  wanted   \* history: the fields last submitted or, after a power loss in
           \* the middle of writing them, left in the NVS

wlanVars == <<nvs, flash, page, option, saved, edit, is_save, labels, network, wanted>>

Fields == {"ssid", "psk", "server"}
Texts  == [Fields -> 0..MaxText]

None  == <<>>
Stars == -1  \* the row of asterisks in place of a password

(* The five _select_..._option views: they differ only in the picture.     *)
Drawn(t) == [t EXCEPT !.psk = IF @ = 0 THEN 0 ELSE Stars]

(* Startup.connect_network, of a driver that is not connected.             *)
Connected(t) == IF t.ssid = 0 THEN None ELSE <<t.ssid, t.psk>>

WlanInit ==
  /\ nvs \in Texts
  /\ flash = nvs
  /\ page = "closed"
  /\ option = 0
  /\ saved = nvs
  /\ edit = nvs
  /\ is_save = FALSE
  /\ labels = Drawn(nvs)
  /\ network = Connected(nvs)
  /\ wanted = nvs
-----------------------------------------------------------------------------
(* on_launch reads the NVS, on_view draws what it read.                    *)
OpenPage ==
  /\ page = "closed"
  /\ page' = "open"
  /\ saved' = nvs
  /\ edit' = nvs
  /\ option' = 0
  /\ labels' = Drawn(nvs)
  /\ UNCHANGED <<nvs, flash, is_save, network, wanted>>

(* A page that is not open: on_launch sets all its attributes before       *)
(* anything reads them, so the old ones are forgotten here.                *)
NoPage ==
  /\ page' = "closed"
  /\ option' = 0
  /\ saved' = nvs'
  /\ edit' = nvs'
  /\ is_save' = FALSE
  /\ labels' = Drawn(nvs')

(* The settings app drops the page, for BtnA in its handler and otherwise  *)
(* in on_hide; the page's own on_exit is not called.                       *)
ClosePage ==
  /\ page = "open"
  /\ UNCHANGED <<nvs, flash, network, wanted>>
  /\ NoPage

Stored == <<nvs, flash, saved, is_save, network, wanted>>

MoveOption(k) ==
  /\ option' = IF k = "down" THEN (option + 1) % 5 ELSE (option - 1) % 5
  /\ labels' = Drawn(edit)
  /\ UNCHANGED <<page, edit, Stored>>

\* Mutant of Restore: the fields are not drawn again.
RestoreUndrawn ==
  /\ edit' = saved
  /\ option' = 0
  /\ UNCHANGED <<page, labels, Stored>>

(* ESC takes the edits back and stays on the page.                         *)
Restore ==
  /\ edit' = saved
  /\ option' = 0
  /\ labels' = Drawn(saved)
  /\ UNCHANGED <<page, Stored>>

Field(o) == CASE o = 1 -> "ssid" [] o = 2 -> "psk" [] o = 3 -> "server"

(* A printable key or backspace in a field.  The field is drawn as it is   *)
(* now, the password's too.                                                *)
EditField(k) ==
  /\ option \in 1..3
  /\ LET f == Field(option)
         text == IF k = "a" THEN edit[f] + 1 ELSE IF edit[f] = 0 THEN 0 ELSE edit[f] - 1
     IN  /\ text <= MaxText
         /\ edit' = [edit EXCEPT ![f] = text]
         /\ labels' = [labels EXCEPT ![f] = text]
  /\ UNCHANGED <<page, option, Stored>>
-----------------------------------------------------------------------------
(* set_data, from Enter on the button to the last call of the driver.      *)
Submit ==
  /\ option = 4
  /\ labels' = Drawn(edit)
  /\ is_save' = FALSE
  /\ page' = "ssid"
  /\ wanted' = edit
  /\ UNCHANGED <<nvs, flash, option, saved, edit, network>>

Following(f) ==
  CASE f = "ssid" -> "psk"
    [] f = "psk"  -> "server"
    [] OTHER      -> IF is_save' THEN "commit" ELSE "open"

\* Mutant of WriteField: the page does not note what it stored.
WriteFieldUnnoted(f) ==
  /\ page = f
  /\ IF saved[f] # edit[f]
     THEN nvs' = [nvs EXCEPT ![f] = edit[f]] /\ is_save' = TRUE
     ELSE UNCHANGED <<nvs, is_save>>
  /\ page' = Following(f)
  /\ UNCHANGED <<saved, flash, option, edit, labels, network, wanted>>

WriteField(f) ==
  /\ page = f
  /\ IF saved[f] # edit[f]
     THEN /\ saved' = [saved EXCEPT ![f] = edit[f]]
          /\ nvs' = [nvs EXCEPT ![f] = edit[f]]
          /\ is_save' = TRUE
     ELSE UNCHANGED <<saved, nvs, is_save>>
  /\ page' = Following(f)
  /\ UNCHANGED <<flash, option, edit, labels, network, wanted>>

\* Mutant of Commit: the fields are not committed.
CommitNothing ==
  /\ page = "commit"
  /\ page' = "reconnect"
  /\ UNCHANGED <<nvs, flash, option, saved, edit, is_save, labels, network, wanted>>

Commit ==
  /\ page = "commit"
  /\ flash' = nvs
  /\ page' = "reconnect"
  /\ UNCHANGED <<nvs, option, saved, edit, is_save, labels, network, wanted>>

(* disconnect, active(False), active(True) and connect_network.            *)
Reconnect ==
  /\ page = "reconnect"
  /\ network' = Connected(saved)
  /\ is_save' = FALSE
  /\ page' = "open"
  /\ UNCHANGED <<nvs, flash, option, saved, edit, labels, wanted>>

SetData == (\E f \in Fields : WriteField(f)) \/ Commit \/ Reconnect
-----------------------------------------------------------------------------
(* Power off and on: of the fields not committed the NVS keeps any, and    *)
(* startup connects with what it finds.                                    *)
PowerCycle ==
  /\ nvs' \in {t \in Texts : \A f \in Fields : t[f] \in {nvs[f], flash[f]}}
  /\ flash' = nvs'
  /\ network' = Connected(nvs')
  /\ wanted' = IF page \in Fields \cup {"commit"} THEN nvs' ELSE wanted
  /\ NoPage

(* _kb_event_handler.  Other keys, and Enter elsewhere, do nothing.        *)
WlanKey(k) ==
  /\ page = "open"
  /\ \/ k \in {"up", "down"} /\ MoveOption(k)
     \/ k \in {"a", "backspace"} /\ EditField(k)
     \/ k = "enter" /\ Submit
     \/ k = "esc" /\ Restore

WlanKeys == {"up", "down", "a", "backspace", "enter", "esc"}

WlanNext ==
  \/ OpenPage
  \/ ClosePage
  \/ \E k \in WlanKeys : WlanKey(k)
  \/ SetData
  \/ PowerCycle

WlanSpec == WlanInit /\ [][WlanNext]_wlanVars
-----------------------------------------------------------------------------
WlanTypeOK ==
  /\ {nvs, flash, saved, edit, wanted} \subseteq Texts
  /\ page \in Fields \cup {"closed", "open", "commit", "reconnect"}
  /\ option \in 0..4
  /\ is_save \in BOOLEAN
  /\ labels \in [Fields -> {Stars} \cup 0..MaxText]
  /\ network \in {None} \cup ((1..MaxText) \X (0..MaxText))

(* Once set_data is done, what the user submitted is in the NVS, committed *)
(* so that a power loss keeps it, and is what the network was given.       *)
(* Edits that were not submitted are in neither; only a power loss inside  *)
(* set_data, before its commit, may leave a mixture.                       *)
StoredAsEntered ==
  page \in {"closed", "open"} =>
    /\ nvs = wanted
    /\ flash = wanted
    /\ network = Connected(wanted)

(* What Enter would submit is what the fields show; a password also as     *)
(* asterisks, and an empty one never so.                                   *)
LabelsTellEdits ==
  page = "open" =>
    /\ \A f \in Fields \ {"psk"} : labels[f] = edit[f]
    /\ labels.psk = edit.psk \/ (labels.psk = Stars /\ edit.psk # 0)

(* ESC goes back to what is stored: the page knows the NVS it last read or *)
(* wrote, so set_data also leaves out only fields that are stored already. *)
RestoresTheStored == page = "open" => saved = nvs
=============================================================================
