------------------------------ MODULE Launcher ------------------------------
(***************************************************************************)
(* The Cardputer ADV's start-up menu: the Framework loop, the launcher,    *)
(* its five apps, the settings app's sub-menus and the developer app's     *)
(* task.  Everything runs in one asyncio loop.  The framework handles a    *)
(* key or a click of BtnA without waiting inside, so that is one step; an  *)
(* app's task has no step here, as it only draws.                          *)
(***************************************************************************)
EXTENDS Integers, Sequences

CONSTANT Brightnesses  \* brightness the display may have when the menu starts

ASSUME LauncherAssumption == Brightnesses \subseteq 0..255

VARIABLES
  status,     \* "running", or how the framework's loop ended
  current,    \* AppSelector._id of the framework: 0 is the launcher
  sub,        \* SettingsApp._app
  chosen,     \* what Enter would act on, in each list a key can move through
  shown,      \* what the display shows as chosen there
  screen,     \* the app or menu whose view fills the display
  brightness, \* of the display
  dev_tasks,  \* DevApp.on_run tasks that are not cancelled
  main_py,    \* whether main.py exists
  apps_dir    \* the directory apps: missing, without scripts, or with some

device == <<main_py, apps_dir>>
lists  == <<chosen, shown>>
launcherVars == <<status, current, sub, lists, screen, brightness, dev_tasks, device>>
-----------------------------------------------------------------------------
(* The apps in the order CardputerADV_Startup installs them, and the icons *)
(* of LauncherApp; both count from 0 in the code.                          *)
Apps  == <<"launcher", "setting", "dev", "run", "list", "ezdata">>
Icons == <<"setting", "dev", "run", "list", "ezdata">>

App == Apps[current + 1]

(* Which view takes the keys: a sub-menu of the settings app takes them    *)
(* from it.                                                                *)
Focus == IF App = "setting" /\ sub # "none" THEN sub ELSE App

Keys == {"left", "right", "up", "down", "enter", "esc", "a"}

(* BrightnessSettingApp.approximate: an option less than 32 away, 64 for   *)
(* all that is darker; none is returned as None.                           *)
BrightnessOptions == {64, 128, 192, 255}

\* Mutant of Approximate: an option must be closer.
ApproximateCloser(n) ==
  IF n < 64 THEN {64}
  ELSE {v \in BrightnessOptions : n - v < 31 /\ v - n < 31}

Approximate(n) ==
  IF n < 64 THEN {64}
  ELSE {v \in BrightnessOptions : n - v < 32 /\ v - n < 32}

Lists == [icon: 0..4, menu: 0..1, general: 0..2, run: {"once", "always"}]
-----------------------------------------------------------------------------
Init ==
  /\ status = "running"
  /\ current = 0
  /\ sub = "none"
  /\ chosen = [icon |-> 1, menu |-> 0, general |-> 0, run |-> "once"]
  /\ shown = chosen
  /\ screen = "launcher"
  /\ brightness \in Brightnesses
  /\ dev_tasks = 0
  /\ main_py \in BOOLEAN
  /\ apps_dir \in {"missing", "empty", "some"}

(* An exception in a handler ends Framework.run and with it the menu.      *)
Ends(how) ==
  /\ status' = how
  /\ UNCHANGED <<sub, lists, screen, brightness, dev_tasks>>
-----------------------------------------------------------------------------
(* LauncherApp._kb_event_handler.                                          *)

\* Mutant of MoveIcon: right of the last icon is one more.
MoveIconTooFar(k) ==
  /\ k \in {"left", "right"}
  /\ LET to == IF k = "right"
               THEN IF chosen.icon < Len(Icons) THEN chosen.icon + 1 ELSE 0
               ELSE IF chosen.icon - 1 >= 0 THEN chosen.icon - 1 ELSE Len(Icons) - 1
     IN  /\ chosen' = [chosen EXCEPT !.icon = to]
         /\ shown' = [shown EXCEPT !.icon = to]
  /\ UNCHANGED <<status, current, sub, screen, brightness, dev_tasks>>

MoveIcon(k) ==
  /\ k \in {"left", "right"}
  /\ LET to == IF k = "right"
               THEN IF chosen.icon + 1 < Len(Icons) THEN chosen.icon + 1 ELSE 0
               ELSE IF chosen.icon - 1 >= 0 THEN chosen.icon - 1 ELSE Len(Icons) - 1
     IN  /\ chosen' = [chosen EXCEPT !.icon = to]
         /\ shown' = [shown EXCEPT !.icon = to]
  /\ UNCHANGED <<status, current, sub, screen, brightness, dev_tasks>>

(* Enter selects the app and starts it: on_launch, on_view, on_ready.      *)
Viewed(app) ==
  /\ screen' = app
  /\ UNCHANGED <<status, brightness>>

StartSetting ==
  /\ Viewed("setting")
  /\ sub' = "none"
  /\ shown' = [shown EXCEPT !.menu = 0]
  /\ UNCHANGED <<chosen, dev_tasks>>

StartDev ==
  /\ Viewed("dev")
  /\ dev_tasks' = dev_tasks + 1
  /\ UNCHANGED <<sub, lists>>

(* It reads main.py, which raises when there is none, and also when a line *)
(* of it tells of an account or a version without a colon.                 *)
StartRun ==
  \/ /\ main_py
     /\ Viewed("run")
     /\ shown' = [shown EXCEPT !.run = "once"]
     /\ UNCHANGED <<sub, chosen, dev_tasks>>
  \/ Ends("crashed")

StartList ==
  \/ /\ apps_dir # "missing"
     /\ Viewed("list")
     /\ UNCHANGED <<sub, lists, dev_tasks>>
  \/ apps_dir = "missing" /\ Ends("crashed")

StartEzData ==
  /\ Viewed("ezdata")
  /\ UNCHANGED <<sub, lists, dev_tasks>>

\* Mutant of OpenApp: the apps are counted from the wrong place.
OpenAppAfterNext ==
  /\ current' = (chosen.icon + 2) % Len(Apps)
  /\ Viewed(Apps[current' + 1])
  /\ UNCHANGED <<sub, lists, dev_tasks>>

OpenApp ==
  /\ current' = (chosen.icon + 1) % Len(Apps)
  /\ CASE Apps[current' + 1] = "setting" -> StartSetting
       [] Apps[current' + 1] = "dev"     -> StartDev
       [] Apps[current' + 1] = "run"     -> StartRun
       [] Apps[current' + 1] = "list"    -> StartList
       [] Apps[current' + 1] = "ezdata"  -> StartEzData

LauncherKey(k) ==
  /\ App = "launcher"
  /\ \/ MoveIcon(k)
     \/ k = "enter" /\ OpenApp
-----------------------------------------------------------------------------
(* SettingsApp, and GeneralSettingApp with its three entries.  The WLAN    *)
(* sub-menu keeps its keys to itself, ESC included.                        *)

\* Mutant of MoveMenu: going back up is not drawn.
MoveMenuDrawsDown(k) ==
  /\ k \in {"up", "down"}
  /\ chosen' = [chosen EXCEPT !.menu = IF k = "down" THEN 1 ELSE 0]
  /\ shown' = [shown EXCEPT !.menu = 1]
  /\ UNCHANGED <<status, sub, screen, brightness>>

MoveMenu(k) ==
  /\ k \in {"up", "down"}
  /\ chosen' = [chosen EXCEPT !.menu = IF k = "down" THEN 1 ELSE 0]
  /\ shown' = [shown EXCEPT !.menu = chosen'.menu]
  /\ UNCHANGED <<status, sub, screen, brightness>>

\* Mutant of OpenWifi: the keys stay with the settings app.
OpenWifiUnselected ==
  /\ chosen.menu = 0
  /\ screen' = "wifi"
  /\ UNCHANGED <<status, sub, lists, brightness>>

OpenWifi ==
  /\ chosen.menu = 0
  /\ sub' = "wifi"
  /\ screen' = "wifi"
  /\ UNCHANGED <<status, lists, brightness>>

(* Starting the general settings installs its entries.  The brightness     *)
(* entry looks for the option closest to the display's brightness, and     *)
(* never stops looking when approximate returned None.                     *)
OpenGeneral ==
  /\ chosen.menu = 1
  /\ sub' = "general"
  /\ screen' = "general"
  /\ status' = IF Approximate(brightness) = {} THEN "hung" ELSE status
  /\ shown' = [shown EXCEPT !.general = chosen.general]
  /\ UNCHANGED <<chosen, brightness>>

SettingKey(k) ==
  /\ Focus = "setting"
  /\ \/ MoveMenu(k)
     \/ k = "enter" /\ OpenWifi
     \/ k = "enter" /\ OpenGeneral
  /\ UNCHANGED <<current, dev_tasks>>

(* pause hides the entry's card and resume shows the next one's; Enter     *)
(* gives the entry its next option: any other one, since a MicroPython     *)
(* dict does not keep its keys in order.  The boot option is BootFlow's    *)
(* part; COM.X Link changes nothing but its own picture.                   *)
GeneralKey(k) ==
  /\ Focus = "general"
  /\ \/ /\ k \in {"up", "down"}
        /\ chosen' = [chosen EXCEPT !.general = IF k = "down" THEN (@ + 1) % 3
                                                             ELSE (@ - 1) % 3]
        /\ shown' = [shown EXCEPT !.general = chosen'.general]
        /\ UNCHANGED brightness
     \/ /\ k = "enter"
        /\ chosen.general = 0
        /\ brightness' \in BrightnessOptions \ Approximate(brightness)
        /\ UNCHANGED lists
  /\ UNCHANGED <<status, current, sub, screen, dev_tasks>>
-----------------------------------------------------------------------------
(* RunApp and ListApp.  A script that was run leaves by KeyboardInterrupt. *)

RunKey(k) ==
  /\ App = "run"
  /\ \/ /\ k \in {"left", "right"}
        /\ chosen' = [chosen EXCEPT !.run = IF k = "right" THEN "always" ELSE "once"]
        /\ shown' = [shown EXCEPT !.run = chosen'.run]
        /\ UNCHANGED <<status, sub, screen, brightness, dev_tasks>>
     \/ /\ k = "enter"
        /\ Ends(IF chosen.run = "once" THEN "ran" ELSE "reset")
  /\ UNCHANGED current

(* Copying a script to main.py may fail, with the boot option changed.     *)
ListKey(k) ==
  /\ App = "list"
  /\ k \in {"up", "down", "enter", "a"}
  /\ \/ /\ apps_dir = "empty" /\ k # "up"
        /\ Ends(IF k = "a" THEN "broken" ELSE "crashed")
     \/ apps_dir = "some" /\ k = "enter" /\ Ends("ran")
     \/ apps_dir = "some" /\ k = "a" /\ (Ends("reset") \/ Ends("broken"))
  /\ UNCHANGED current
-----------------------------------------------------------------------------
\* Mutant of GoHome: the app is not stopped.
GoHomeWithoutStop ==
  /\ sub' = IF App = "setting" THEN "none" ELSE sub
  /\ chosen' = [chosen EXCEPT !.menu = IF App = "setting" THEN 0 ELSE @,
                              !.run  = IF App = "run" THEN "once" ELSE @]
  /\ shown' = [shown EXCEPT !.icon = chosen.icon]
  /\ current' = 0
  /\ screen' = "launcher"
  /\ UNCHANGED <<status, brightness, dev_tasks>>

(* Leaving an app, for ESC and for BtnA: the settings app's own handler,   *)
(* the app's stop, then the launcher is selected and started.              *)
GoHome ==
  /\ sub' = IF App = "setting" THEN "none" ELSE sub
  /\ dev_tasks' = IF App = "dev" THEN dev_tasks - 1 ELSE dev_tasks
  /\ chosen' = [chosen EXCEPT !.menu = IF App = "setting" THEN 0 ELSE @,
                              !.run  = IF App = "run" THEN "once" ELSE @]
  /\ shown' = [shown EXCEPT !.icon = chosen.icon]
  /\ current' = 0
  /\ screen' = "launcher"
  /\ UNCHANGED <<status, brightness>>

HandleKey(k) ==
  /\ \/ LauncherKey(k) \/ SettingKey(k) \/ GeneralKey(k) \/ RunKey(k) \/ ListKey(k)
     \/ k = "esc" /\ Focus # "wifi" /\ GoHome
  /\ UNCHANGED device

BtnA == GoHome /\ UNCHANGED device
-----------------------------------------------------------------------------
LauncherNext ==
  /\ status = "running"
  /\ (\E k \in Keys : HandleKey(k)) \/ BtnA

LauncherSpec == Init /\ [][LauncherNext]_launcherVars
-----------------------------------------------------------------------------
TypeOK ==
  /\ status \in {"running", "crashed", "broken", "hung", "ran", "reset"}
  /\ current \in 0..5
  /\ sub \in {"none", "wifi", "general"}
  /\ chosen \in Lists
  /\ shown \in Lists
  /\ screen \in {Apps[i] : i \in DOMAIN Apps} \cup {"wifi", "general"}
  /\ brightness \in 0..255
  /\ dev_tasks \in Nat
  /\ main_py \in BOOLEAN
  /\ apps_dir \in {"missing", "empty", "some"}

(* The view on the display is that of the app or sub-menu the next key     *)
(* goes to.                                                                *)
FocusOnScreen == status = "running" => screen = Focus

(* Enter acts on the entry the display shows as chosen: the launcher's     *)
(* icon, a settings card, a general setting, run once or always.  Each     *)
(* app keeps the choice in one object and the picture in another, and      *)
(* some keep the choice while they are closed.                             *)
EnterActsOnShown ==
  status = "running" =>
    CASE Focus = "launcher" -> shown.icon = chosen.icon
      [] Focus = "setting"  -> shown.menu = chosen.menu
      [] Focus = "general"  -> shown.general = chosen.general
      [] Focus = "run"      -> shown.run = chosen.run
      [] OTHER              -> TRUE

(* The developer app's task runs exactly while the app is open: every way  *)
(* in starts one and every way out cancels it.                             *)
OneDevTask == dev_tasks = IF App = "dev" THEN 1 ELSE 0

(* From the launcher, Enter opens the app whose icon is in the middle.     *)
OpensTheIcon ==
  [][App = "launcher" /\ App' # "launcher" => App' = Icons[shown.icon + 1]]_launcherVars

(* Opening the general settings hangs the menu only at a brightness half   *)
(* way between two options, where approximate knows none.                  *)
HangsOnlyHalfWay == status = "hung" => brightness \in {96, 160}
=============================================================================
