-------------------------------- MODULE Menu --------------------------------
(***************************************************************************)
(* The start-up menu as a whole: the framework and launcher of Launcher    *)
(* with the app list and the WLAN page in place, and a power loss at any   *)
(* moment.  A key is handled by the one that has the focus.  Launcher      *)
(* knows of the list only how it ends and of the WLAN page only that it    *)
(* keeps its keys; AppList and WlanSettings say what these two do with     *)
(* them, and when they are opened and left is Launcher's part.             *)
(***************************************************************************)
EXTENDS Launcher, AppList, WlanSettings

menuVars == <<launcherVars, listVars, wlanVars>>

(* Launcher tells three directories apart, AppList counts the scripts.     *)
MenuInit ==
  /\ Init
  /\ ListInit
  /\ WlanInit
  /\ files > 0 <=> apps_dir = "some"
-----------------------------------------------------------------------------
(* What a step of the framework means for the app list and the WLAN page.  *)
ListFollows ==
  IF App # "list" /\ App' = "list" /\ status' = "running"
  THEN Launch
  ELSE UNCHANGED listVars

WlanFollows ==
  IF Focus # "wifi" /\ Focus' = "wifi" THEN OpenPage
  ELSE IF Focus = "wifi" /\ Focus' # "wifi" THEN ClosePage
  ELSE UNCHANGED wlanVars

(* A key in the app list; an exception or a script that was run ends the   *)
(* menu the way Launcher says.                                             *)
ListAppKey(k) ==
  /\ App = "list"
  /\ \/ k = "up" /\ Up
     \/ k = "down" /\ Down
     \/ k \in {"enter", "a"} /\ Take
  /\ IF outcome' = "listing" THEN UNCHANGED launcherVars ELSE HandleKey(k)
  /\ UNCHANGED wlanVars

(* A key for the WLAN page, and set_data's steps, in which no key is read. *)
PageKey(k) ==
  /\ Focus = "wifi"
  /\ WlanKey(k)
  /\ UNCHANGED <<launcherVars, listVars>>

OtherKey(k) ==
  /\ App = "list" => k = "esc"
  /\ HandleKey(k)
  /\ ListFollows
  /\ WlanFollows

LeaveByBtnA ==
  /\ BtnA
  /\ ListFollows
  /\ WlanFollows

WriteSettings ==
  /\ SetData
  /\ UNCHANGED <<launcherVars, listVars>>

(* The power goes and comes back: Python starts afresh and, with the boot  *)
(* option left as it was (BootFlow has the other cases), so does the menu. *)
(* What is left is what the flash holds: the scripts and the NVS.          *)
PowerLoss ==
  /\ status \in {"running", "crashed", "hung"}
  /\ status' = "running"
  /\ current' = 0
  /\ sub' = "none"
  /\ chosen' = [icon |-> 1, menu |-> 0, general |-> 0, run |-> "once"]
  /\ shown' = chosen'
  /\ screen' = "launcher"
  /\ brightness' \in Brightnesses
  /\ dev_tasks' = 0
  /\ PowerCycle
  /\ Launch
  /\ UNCHANGED device

(* set_data runs inside one call of the handler: no key, no click.         *)
Idle == page \in {"closed", "open"}

MenuNext ==
  \/ /\ status = "running" /\ Idle
     /\ \/ \E k \in Keys : OtherKey(k) \/ ListAppKey(k)
        \/ \E k \in WlanKeys : PageKey(k)
        \/ LeaveByBtnA
  \/ status = "running" /\ WriteSettings
  \/ PowerLoss

MenuSpec == MenuInit /\ [][MenuNext]_menuVars
=============================================================================
