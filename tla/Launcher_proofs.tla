-------------------------- MODULE Launcher_proofs --------------------------
(***************************************************************************)
(* The start-up menu for every brightness: through any order of keys and   *)
(* clicks what the display shows is what the next key acts on.             *)
(***************************************************************************)
EXTENDS Launcher, TLAPS

(* A sub-menu, a selected card and a selected button are left behind by no *)
(* way out of their app.                                                   *)
ClosedAppsAreReset ==
  /\ App # "setting" => sub = "none" /\ chosen.menu = 0
  /\ App # "run" => chosen.run = "once"

(* What a list shows as chosen is what is chosen, the launcher's always,   *)
(* the others while their app or sub-menu is open.                         *)
ShownIsChosen ==
  /\ shown.icon = chosen.icon
  /\ App = "setting" => shown.menu = chosen.menu
  /\ sub = "general" => shown.general = chosen.general
  /\ App = "run" /\ status = "running" => shown.run = chosen.run

LauncherInv ==
  /\ TypeOK /\ FocusOnScreen /\ OneDevTask /\ HangsOnlyHalfWay
  /\ ClosedAppsAreReset /\ ShownIsChosen

(* The places of the apps.                                                 *)
LEMMA AppPlaces ==
  ASSUME NEW c \in 0..5
  PROVE  /\ Apps[c + 1] \in {"launcher", "setting", "dev", "run", "list", "ezdata"}
         /\ Apps[c + 1] = "launcher" <=> c = 0
         /\ Apps[c + 1] = "setting" <=> c = 1
         /\ Apps[c + 1] = "dev" <=> c = 2
         /\ Apps[c + 1] = "run" <=> c = 3
         /\ Apps[c + 1] = "list" <=> c = 4
         /\ Apps[c + 1] = "ezdata" <=> c = 5
  BY DEF Apps

(* The views of the apps and the launcher's icons.                         *)
LEMMA Views == {Apps[i] : i \in DOMAIN Apps} =
                 {"launcher", "setting", "dev", "run", "list", "ezdata"}
  BY DEF Apps

(* An icon opens the app of its name.                                      *)
LEMMA IconPlaces ==
  ASSUME NEW i \in 0..4
  PROVE  (i + 1) % Len(Apps) = i + 1 /\ i + 1 \in 0..5 /\ Apps[i + 2] = Icons[i + 1]
  BY DEF Apps, Icons

(* The brightnesses that approximate has no option for.                    *)
LEMMA NoOption ==
  ASSUME NEW n \in 0..255, Approximate(n) = {}
  PROVE  n \in {96, 160}
  BY DEF Approximate, BrightnessOptions

LEMMA LauncherInitInv == Init => LauncherInv
  BY LauncherAssumption, AppPlaces, Views
     DEF Init, LauncherInv, TypeOK, FocusOnScreen, OneDevTask, HangsOnlyHalfWay,
         ClosedAppsAreReset, ShownIsChosen, App, Focus, Lists

(* The selected app, before and after a step that keeps the type.          *)
LEMMA CurrentApp ==
  ASSUME current \in 0..5
  PROVE  /\ App \in {"launcher", "setting", "dev", "run", "list", "ezdata"}
         /\ App = "launcher" <=> current = 0
         /\ App = "setting" <=> current = 1
         /\ App = "dev" <=> current = 2
         /\ App = "run" <=> current = 3
         /\ App = "list" <=> current = 4
         /\ App = "ezdata" <=> current = 5
  BY AppPlaces DEF App

LEMMA NextApp ==
  ASSUME current' \in 0..5
  PROVE  /\ App' \in {"launcher", "setting", "dev", "run", "list", "ezdata"}
         /\ App' = "launcher" <=> current' = 0
         /\ App' = "setting" <=> current' = 1
         /\ App' = "dev" <=> current' = 2
         /\ App' = "run" <=> current' = 3
         /\ App' = "list" <=> current' = 4
         /\ App' = "ezdata" <=> current' = 5
  BY AppPlaces DEF App

(* Leaving the settings and the run app puts both choices back.            *)
LEMMA ResetList ==
  ASSUME NEW list \in Lists
  PROVE  LET reset == [list EXCEPT !.menu = 0, !.run = "once"]
         IN  reset \in Lists /\ reset.menu = 0 /\ reset.run = "once" /\ reset.icon = list.icon
<1> DEFINE once == [list EXCEPT !.menu = 0]
           reset == [once EXCEPT !.run = "once"]
<1>1. once \in Lists /\ once.menu = 0 /\ once.icon = list.icon
  BY DEF Lists
<1> HIDE DEF once
<1>2. reset \in Lists /\ reset.menu = 0 /\ reset.run = "once" /\ reset.icon = list.icon
  BY <1>1 DEF Lists
<1> QED BY <1>2 DEF once

LEMMA GoHomeInv ==
  ASSUME LauncherInv, status = "running", GoHome, UNCHANGED device
  PROVE  LauncherInv'
<1> USE DEF LauncherInv
<1>1. current' \in 0..5 /\ App' = "launcher" /\ screen' = "launcher" /\ sub' = "none"
      /\ status' = status /\ brightness' = brightness
  BY NextApp, CurrentApp DEF GoHome, TypeOK, ClosedAppsAreReset
<1>2. /\ chosen' \in Lists /\ chosen'.menu = 0 /\ chosen'.run = "once"
      /\ chosen'.icon = chosen.icon
  <2>1. chosen \in Lists
    BY DEF TypeOK
  <2>2. chosen' = [chosen EXCEPT !.menu = IF App = "setting" THEN 0 ELSE chosen.menu,
                                 !.run  = IF App = "run" THEN "once" ELSE chosen.run]
    BY <2>1 DEF GoHome, Lists
  <2>3. chosen' = [chosen EXCEPT !.menu = 0, !.run = "once"]
    BY <2>2 DEF ClosedAppsAreReset
  <2> QED BY <2>1, <2>3, ResetList
<1>3. shown' \in Lists /\ shown'.icon = chosen.icon
  BY DEF GoHome, TypeOK, Lists
<1>4. dev_tasks' = 0
  BY DEF GoHome, OneDevTask
<1>5. TypeOK'
  BY <1>1, <1>2, <1>3, <1>4, Views DEF TypeOK, device
<1>6. FocusOnScreen' /\ OneDevTask' /\ HangsOnlyHalfWay'
  BY <1>1, <1>4 DEF FocusOnScreen, Focus, OneDevTask, HangsOnlyHalfWay
<1>7. ClosedAppsAreReset' /\ ShownIsChosen'
  BY <1>1, <1>2, <1>3 DEF ClosedAppsAreReset, ShownIsChosen
<1> QED BY <1>5, <1>6, <1>7

LEMMA MoveIconInv ==
  ASSUME LauncherInv, status = "running", App = "launcher", NEW k \in Keys, MoveIcon(k),
         UNCHANGED device
  PROVE  LauncherInv'
<1> USE DEF LauncherInv
<1>1. /\ UNCHANGED <<status, current, sub, screen, brightness, dev_tasks, device>>
      /\ UNCHANGED <<App, Focus>>
  BY DEF MoveIcon, App, Focus
<1>2. PICK i \in 0..4 : /\ chosen' = [chosen EXCEPT !.icon = i]
                        /\ shown' = [shown EXCEPT !.icon = i]
  BY DEF MoveIcon, TypeOK, Lists, Icons
<1>3. /\ chosen' \in Lists /\ shown' \in Lists
      /\ chosen'.icon = i /\ shown'.icon = i
      /\ chosen'.menu = chosen.menu /\ chosen'.run = chosen.run
      /\ chosen'.general = chosen.general /\ shown'.general = shown.general
  BY <1>2 DEF TypeOK, Lists
<1>4. TypeOK' /\ FocusOnScreen' /\ OneDevTask' /\ HangsOnlyHalfWay'
  BY <1>1, <1>3 DEF TypeOK, FocusOnScreen, OneDevTask, HangsOnlyHalfWay, device
<1>5. ClosedAppsAreReset' /\ ShownIsChosen'
  BY <1>1, <1>3 DEF ClosedAppsAreReset, ShownIsChosen
<1> QED BY <1>4, <1>5

(* What opening an app does to the rest, whether its start succeeds.       *)
LEMMA OpenAppInv ==
  ASSUME LauncherInv, status = "running", App = "launcher", OpenApp, UNCHANGED device
  PROVE  LauncherInv'
<1> USE DEF LauncherInv
<1>1. chosen.icon \in 0..4 /\ current' = chosen.icon + 1 /\ current' \in 1..5
  BY IconPlaces DEF OpenApp, TypeOK, Lists
<1>2. App' \in {"setting", "dev", "run", "list", "ezdata"}
  BY <1>1, NextApp
<1>3. \/ App' = "setting" /\ StartSetting
      \/ App' = "dev" /\ StartDev
      \/ App' = "run" /\ StartRun
      \/ App' = "list" /\ StartList
      \/ App' = "ezdata" /\ StartEzData
  BY <1>2 DEF OpenApp, App
<1>4. /\ chosen' = chosen /\ brightness' = brightness /\ sub' = "none"
      /\ chosen.menu = 0 /\ chosen.run = "once" /\ sub = "none" /\ dev_tasks = 0
  BY <1>3 DEF StartSetting, StartDev, StartRun, StartList, StartEzData, Viewed, Ends, lists,
              ClosedAppsAreReset, OneDevTask
<1>5. \/ status' = "running" /\ screen' = App'
      \/ status' = "crashed" /\ screen' = screen
  BY <1>3 DEF StartSetting, StartDev, StartRun, StartList, StartEzData, Viewed, Ends
<1>6. /\ shown' \in Lists /\ shown'.icon = shown.icon
      /\ App' = "setting" => shown'.menu = 0
      /\ App' = "run" /\ status' = "running" => shown'.run = "once"
  BY <1>3 DEF StartSetting, StartDev, StartRun, StartList, StartEzData, Viewed, Ends, lists,
              TypeOK, Lists
<1>7. dev_tasks' = IF App' = "dev" THEN 1 ELSE 0
  BY <1>3, <1>4 DEF StartSetting, StartDev, StartRun, StartList, StartEzData, Ends
<1>8. TypeOK'
  BY <1>1, <1>2, <1>4, <1>5, <1>6, <1>7, Views DEF TypeOK, device
<1>9. FocusOnScreen' /\ OneDevTask' /\ HangsOnlyHalfWay'
  BY <1>2, <1>4, <1>5, <1>7 DEF FocusOnScreen, Focus, OneDevTask, HangsOnlyHalfWay
<1>10. ClosedAppsAreReset' /\ ShownIsChosen'
  BY <1>4, <1>6 DEF ClosedAppsAreReset, ShownIsChosen
<1> QED BY <1>8, <1>9, <1>10

LEMMA SettingInv ==
  ASSUME LauncherInv, status = "running", NEW k \in Keys, SettingKey(k), UNCHANGED device
  PROVE  LauncherInv'
<1> USE DEF LauncherInv
<1>1. /\ current = 1 /\ App = "setting" /\ sub = "none" /\ UNCHANGED <<current, App>>
      /\ UNCHANGED <<dev_tasks, brightness, device>> /\ dev_tasks = 0
  BY CurrentApp DEF SettingKey, Focus, TypeOK, App, OneDevTask, MoveMenu, OpenWifi, OpenGeneral
<1>2. CASE MoveMenu(k)
  <2>1. PICK m \in 0..1 : /\ chosen' = [chosen EXCEPT !.menu = m]
                          /\ shown' = [shown EXCEPT !.menu = m]
    BY <1>2 DEF MoveMenu, TypeOK, Lists
  <2>2. /\ chosen' \in Lists /\ shown' \in Lists
        /\ chosen'.menu = m /\ shown'.menu = m
        /\ chosen'.icon = chosen.icon /\ shown'.icon = shown.icon
        /\ chosen'.run = chosen.run
    BY <2>1 DEF TypeOK, Lists
  <2>3. UNCHANGED <<status, sub, screen>>
    BY <1>2 DEF MoveMenu
  <2> QED BY <1>1, <2>2, <2>3 DEF TypeOK, device, FocusOnScreen, Focus, OneDevTask,
             HangsOnlyHalfWay, ClosedAppsAreReset, ShownIsChosen
<1>3. CASE OpenWifi
  <2>1. /\ sub' = "wifi" /\ screen' = "wifi" /\ UNCHANGED <<status, chosen, shown>>
    BY <1>3 DEF OpenWifi, lists
  <2> QED BY <1>1, <2>1 DEF TypeOK, device, FocusOnScreen, Focus, OneDevTask,
             HangsOnlyHalfWay, ClosedAppsAreReset, ShownIsChosen
<1>4. CASE OpenGeneral
  <2>1. /\ sub' = "general" /\ screen' = "general" /\ chosen' = chosen
        /\ status' = IF Approximate(brightness) = {} THEN "hung" ELSE status
    BY <1>4 DEF OpenGeneral
  <2>2. /\ shown' \in Lists /\ shown'.general = chosen.general
        /\ shown'.icon = shown.icon /\ shown'.menu = shown.menu
    BY <1>4 DEF OpenGeneral, TypeOK, Lists
  <2>3. HangsOnlyHalfWay'
    BY <1>1, <2>1, NoOption DEF HangsOnlyHalfWay, TypeOK
  <2>4. TypeOK'
    BY <1>1, <2>1, <2>2 DEF TypeOK, device
  <2> QED BY <1>1, <2>1, <2>2, <2>3, <2>4 DEF FocusOnScreen, Focus, OneDevTask,
             ClosedAppsAreReset, ShownIsChosen
<1> QED BY <1>2, <1>3, <1>4 DEF SettingKey

LEMMA GeneralInv ==
  ASSUME LauncherInv, status = "running", NEW k \in Keys, GeneralKey(k), UNCHANGED device
  PROVE  LauncherInv'
<1> USE DEF LauncherInv
<1>1. UNCHANGED <<status, current, sub, screen, dev_tasks, device, App, Focus>>
  BY DEF GeneralKey, App, Focus
<1>2. /\ chosen' \in Lists /\ shown' \in Lists /\ shown'.general = chosen'.general
      /\ chosen'.icon = chosen.icon /\ shown'.icon = shown.icon
      /\ chosen'.menu = chosen.menu /\ shown'.menu = shown.menu
      /\ chosen'.run = chosen.run /\ shown'.run = shown.run
      /\ brightness' \in 0..255
  <2>1. CASE k = "enter"
    <3>1. UNCHANGED <<chosen, shown>> /\ brightness' \in BrightnessOptions
      BY <2>1 DEF GeneralKey, lists
    <3>2. shown.general = chosen.general
      BY CurrentApp DEF GeneralKey, Focus, TypeOK, ShownIsChosen
    <3> QED BY <3>1, <3>2 DEF TypeOK, BrightnessOptions
  <2>2. CASE k # "enter"
    <3>1. brightness' = brightness
      BY <2>2 DEF GeneralKey
    <3>2. PICK g \in 0..2 : /\ chosen' = [chosen EXCEPT !.general = g]
                            /\ shown' = [shown EXCEPT !.general = g]
      BY <2>2 DEF GeneralKey, TypeOK, Lists
    <3> QED BY <3>1, <3>2 DEF TypeOK, Lists
  <2> QED BY <2>1, <2>2
<1>3. HangsOnlyHalfWay'
  BY <1>1 DEF HangsOnlyHalfWay
<1>4. TypeOK'
  BY <1>1, <1>2 DEF TypeOK, device
<1> QED BY <1>1, <1>2, <1>3, <1>4 DEF FocusOnScreen, OneDevTask, ClosedAppsAreReset,
           ShownIsChosen

LEMMA RunInv ==
  ASSUME LauncherInv, status = "running", NEW k \in Keys, RunKey(k), UNCHANGED device
  PROVE  LauncherInv'
<1> USE DEF LauncherInv
<1>1. /\ App = "run" /\ UNCHANGED <<current, sub, screen, brightness, dev_tasks, device>>
      /\ UNCHANGED <<App, Focus>> /\ status' \in {status, "ran", "reset"}
  BY DEF RunKey, App, Focus, Ends
<1>2. /\ chosen' \in Lists /\ shown' \in Lists
      /\ shown.run = chosen.run /\ shown'.run = chosen'.run
      /\ chosen'.icon = chosen.icon /\ shown'.icon = shown.icon
      /\ chosen'.menu = chosen.menu /\ chosen'.general = chosen.general
      /\ shown'.general = shown.general
  BY <1>1 DEF RunKey, Ends, lists, TypeOK, Lists, ShownIsChosen
<1>3. HangsOnlyHalfWay' /\ FocusOnScreen'
  BY <1>1 DEF HangsOnlyHalfWay, FocusOnScreen
<1>4. TypeOK'
  BY <1>1, <1>2 DEF TypeOK, device
<1> QED BY <1>1, <1>2, <1>3, <1>4 DEF OneDevTask, ClosedAppsAreReset, ShownIsChosen

LEMMA ListKeyInv ==
  ASSUME LauncherInv, status = "running", NEW k \in Keys, ListKey(k), UNCHANGED device
  PROVE  LauncherInv'
<1>1. /\ App = "list" /\ UNCHANGED <<current, sub, screen, brightness, dev_tasks, device>>
      /\ UNCHANGED <<App, Focus, chosen, shown>>
      /\ status' \in {"crashed", "broken", "ran", "reset"}
  BY DEF ListKey, App, Focus, Ends, lists
<1> QED BY <1>1 DEF LauncherInv, TypeOK, device, HangsOnlyHalfWay, FocusOnScreen, OneDevTask,
           ClosedAppsAreReset, ShownIsChosen

LEMMA LauncherNextInv == LauncherInv /\ [LauncherNext]_launcherVars => LauncherInv'
<1> SUFFICES ASSUME LauncherInv, [LauncherNext]_launcherVars PROVE LauncherInv'
  OBVIOUS
<1>1. CASE LauncherNext
  <2>1. CASE BtnA
    BY <1>1, <2>1, GoHomeInv DEF LauncherNext, BtnA
  <2>2. ASSUME NEW k \in Keys, HandleKey(k) PROVE LauncherInv'
    <3>1. status = "running" /\ UNCHANGED device
      BY <1>1, <2>2 DEF LauncherNext, HandleKey
    <3> QED BY <2>2, <3>1, GoHomeInv, MoveIconInv, OpenAppInv, SettingInv, GeneralInv, RunInv,
               ListKeyInv DEF HandleKey, LauncherKey
  <2> QED BY <1>1, <2>1, <2>2 DEF LauncherNext
<1>2. CASE UNCHANGED launcherVars
  BY <1>2 DEF launcherVars, lists, device, LauncherInv, TypeOK, FocusOnScreen, Focus, App,
              OneDevTask, HangsOnlyHalfWay, ClosedAppsAreReset, ShownIsChosen
<1> QED BY <1>1, <1>2

LEMMA LauncherAlwaysInv == LauncherSpec => []LauncherInv
<1> QED BY LauncherInitInv, LauncherNextInv, PTL DEF LauncherSpec

(* Every variable of the menu keeps its type: each app's position stays    *)
(* within its list.                                                        *)
THEOREM TypeCorrect == LauncherSpec => []TypeOK
<1>1. LauncherInv => TypeOK
  BY DEF LauncherInv
<1> QED BY <1>1, LauncherAlwaysInv, PTL

(* Through any keys and clicks the view on the display is that of the app  *)
(* or sub-menu to which Framework.handle_input hands the next key.         *)
THEOREM FocusOnScreenCorrect == LauncherSpec => []FocusOnScreen
<1>1. LauncherInv => FocusOnScreen
  BY DEF LauncherInv
<1> QED BY <1>1, LauncherAlwaysInv, PTL

(* Enter acts on what the launcher, the settings or the run app drew as    *)
(* chosen, however they were left before.                                  *)
LEMMA ActsOnShown == LauncherInv => EnterActsOnShown
<1> SUFFICES ASSUME LauncherInv, status = "running" PROVE EnterActsOnShown
  BY DEF EnterActsOnShown
<1>1. /\ App \in {"launcher", "setting", "dev", "run", "list", "ezdata"}
      /\ sub \in {"none", "wifi", "general"}
  BY CurrentApp DEF LauncherInv, TypeOK
<1>2. /\ shown.icon = chosen.icon
      /\ Focus = "setting" => shown.menu = chosen.menu
      /\ Focus = "general" => shown.general = chosen.general
      /\ Focus = "run" => shown.run = chosen.run
  BY <1>1 DEF LauncherInv, ShownIsChosen, Focus
<1> QED BY <1>2 DEF EnterActsOnShown

(* The same of every state the launcher by itself can be in.               *)
THEOREM EnterActsOnShownCorrect == LauncherSpec => []EnterActsOnShown
<1> QED BY ActsOnShown, LauncherAlwaysInv, PTL

(* Framework stops DevApp on every way out: its task runs exactly while it *)
(* is the selected app.                                                    *)
THEOREM OneDevTaskCorrect == LauncherSpec => []OneDevTask
<1>1. LauncherInv => OneDevTask
  BY DEF LauncherInv
<1> QED BY <1>1, LauncherAlwaysInv, PTL

(* Of all brightnesses only 96 and 160 make BrightnessSettingApp look for  *)
(* an option for ever.                                                     *)
THEOREM HangsOnlyHalfWayCorrect == LauncherSpec => []HangsOnlyHalfWay
<1>1. LauncherInv => HangsOnlyHalfWay
  BY DEF LauncherInv
<1> QED BY <1>1, LauncherAlwaysInv, PTL

(* Enter in the launcher opens the app whose icon is drawn.                *)
LEMMA OpensIcon ==
  ASSUME LauncherInv, LauncherNext, App = "launcher", App' # "launcher"
  PROVE  App' = Icons[shown.icon + 1]
<1>1. OpenApp
  <2>1. ASSUME GoHome PROVE FALSE
    BY <2>1, NextApp DEF GoHome
  <2>2. ASSUME NEW k \in Keys, MoveIcon(k) PROVE FALSE
    BY <2>2 DEF MoveIcon, App
  <2> QED BY <2>1, <2>2 DEF LauncherNext, HandleKey, BtnA, LauncherKey, SettingKey, GeneralKey,
             RunKey, ListKey, Focus
<1>2. chosen.icon \in 0..4 /\ shown.icon = chosen.icon
  BY DEF LauncherInv, TypeOK, Lists, ShownIsChosen
<1>3. current' = chosen.icon + 1
  BY <1>1, <1>2, IconPlaces DEF OpenApp
<1>4. current' + 1 = chosen.icon + 2 /\ App' = Apps[current' + 1]
  BY <1>2, <1>3 DEF App
<1> QED BY <1>2, <1>4, IconPlaces

(* LauncherApp opens the app of the icon it drew in the middle.            *)
THEOREM OpensTheIconCorrect == LauncherSpec => OpensTheIcon
<1> DEFINE Opens == App = "launcher" /\ App' # "launcher" => App' = Icons[shown.icon + 1]
<1>1. LauncherInv /\ [LauncherNext]_launcherVars => [Opens]_launcherVars
  BY OpensIcon
<1> QED BY <1>1, LauncherAlwaysInv, PTL DEF LauncherSpec, OpensTheIcon
=============================================================================
