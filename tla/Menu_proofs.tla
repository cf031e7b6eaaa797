---------------------------- MODULE Menu_proofs ----------------------------
(***************************************************************************)
(* The menu as a whole, for every brightness, number of scripts and length *)
(* of a text, with a power loss at any step: what holds of the launcher,   *)
(* the app list and the WLAN page each by itself holds of the three        *)
(* together, and the three never disagree on where the menu is.            *)
(***************************************************************************)
EXTENDS Menu, Launcher_proofs, MenuApps_proofs

(* What the launcher assumes of the two apps: that a directory with        *)
(* scripts is one the list counts scripts in, that a list that has ended   *)
(* has ended the menu, and that the page is open just while it has the     *)
(* keys.                                                                   *)
PartsAgree ==
  /\ files > 0 <=> apps_dir = "some"
  /\ status = "running" => outcome = "listing"
  /\ page # "closed" <=> Focus = "wifi"

MenuInv == LauncherInv /\ ListInv /\ PartsAgree
-----------------------------------------------------------------------------
(* What a step of the menu is for each of its parts.                       *)

LEMMA LauncherSteps ==
  ASSUME [MenuNext]_menuVars
  PROVE  [LauncherNext]_launcherVars \/ PowerLoss
<1>1. ASSUME NEW k \in Keys, status = "running", OtherKey(k)
      PROVE  LauncherNext
  BY <1>1 DEF OtherKey, LauncherNext
<1>2. ASSUME NEW k \in Keys, status = "running", ListAppKey(k)
      PROVE  [LauncherNext]_launcherVars
  BY <1>2 DEF ListAppKey, LauncherNext
<1>3. ASSUME NEW k \in WlanKeys, PageKey(k)
      PROVE  UNCHANGED launcherVars
  BY <1>3 DEF PageKey
<1>4. ASSUME status = "running", LeaveByBtnA
      PROVE  LauncherNext
  BY <1>4 DEF LeaveByBtnA, LauncherNext
<1>5. WriteSettings => UNCHANGED launcherVars
  BY DEF WriteSettings
<1> QED BY <1>1, <1>2, <1>3, <1>4, <1>5 DEF MenuNext, menuVars

LEMMA ListSteps ==
  ASSUME status = "running" => outcome = "listing", [MenuNext]_menuVars
  PROVE  [ListNext]_listVars \/ Launch
<1>1. ListFollows => [ListNext]_listVars \/ Launch
  BY DEF ListFollows
<1>2. ASSUME NEW k \in Keys, status = "running", ListAppKey(k)
      PROVE  ListNext
  BY <1>2 DEF ListAppKey, ListNext
<1>3. ASSUME NEW k \in WlanKeys, PageKey(k)
      PROVE  UNCHANGED listVars
  BY <1>3 DEF PageKey
<1>4. WriteSettings => UNCHANGED listVars
  BY DEF WriteSettings
<1>5. PowerLoss => Launch
  BY DEF PowerLoss
<1> QED BY <1>1, <1>2, <1>3, <1>4, <1>5 DEF MenuNext, menuVars, OtherKey, LeaveByBtnA

LEMMA WlanSteps ==
  ASSUME [MenuNext]_menuVars
  PROVE  [WlanNext]_wlanVars
<1>1. WlanFollows => [WlanNext]_wlanVars
  BY DEF WlanFollows, WlanNext
<1>2. ASSUME NEW k \in Keys, ListAppKey(k)
      PROVE  UNCHANGED wlanVars
  BY <1>2 DEF ListAppKey
<1>3. ASSUME NEW k \in WlanKeys, PageKey(k)
      PROVE  WlanNext
  BY <1>3 DEF PageKey, WlanNext
<1>4. WriteSettings => WlanNext
  BY DEF WriteSettings, WlanNext
<1>5. PowerLoss => WlanNext
  BY DEF PowerLoss, WlanNext
<1> QED BY <1>1, <1>2, <1>3, <1>4, <1>5 DEF MenuNext, menuVars, OtherKey, LeaveByBtnA
-----------------------------------------------------------------------------
(* After a power loss the launcher is as it was when it was first started. *)
LEMMA PowerLossInv ==
  ASSUME LauncherInv, PowerLoss
  PROVE  LauncherInv' /\ App' = "launcher" /\ Focus' = "launcher"
<1>1. /\ status' = "running" /\ current' = 0 /\ sub' = "none" /\ screen' = "launcher"
      /\ chosen' = [icon |-> 1, menu |-> 0, general |-> 0, run |-> "once"]
      /\ shown' = chosen' /\ dev_tasks' = 0 /\ UNCHANGED device
      /\ brightness' \in 0..255
  BY LauncherAssumption DEF PowerLoss
<1>2. App' = "launcher" /\ Focus' = "launcher"
  BY <1>1, NextApp DEF Focus
<1>3. TypeOK'
  BY <1>1, Views DEF LauncherInv, TypeOK, Lists, device
<1> QED BY <1>1, <1>2, <1>3 DEF LauncherInv, FocusOnScreen, OneDevTask, HangsOnlyHalfWay,
           ClosedAppsAreReset, ShownIsChosen

(* A key of the app list that ends the list ends the menu.                 *)
LEMMA ListEndsMenu ==
  ASSUME NEW k, ListAppKey(k)
  PROVE  /\ status' = "running" /\ status = "running" /\ outcome = "listing" => outcome' = "listing"
         /\ UNCHANGED <<current, sub>>
<1>1. CASE outcome' = "listing"
  BY <1>1 DEF ListAppKey, launcherVars
<1>2. CASE outcome' # "listing"
  <2>1. HandleKey(k) /\ App = "list" /\ k \in {"up", "down", "enter", "a"}
    BY <1>2 DEF ListAppKey
  <2>2. ListKey(k)
    BY <2>1 DEF HandleKey, LauncherKey, SettingKey, GeneralKey, RunKey, Focus
  <2> QED BY <2>2 DEF ListKey, Ends
<1> QED BY <1>1, <1>2

LEMMA PartsAgreeStep ==
  ASSUME MenuInv, [MenuNext]_menuVars
  PROVE  PartsAgree'
<1> USE DEF MenuInv
<1>1. files' = files /\ UNCHANGED device
  <2>1. files' = files
    <3>1. [ListNext]_listVars \/ Launch
      BY ListSteps DEF PartsAgree
    <3> QED BY <3>1 DEF ListNext, Up, Down, Take, Launch, listVars
  <2>2. UNCHANGED device
    BY LauncherSteps DEF LauncherNext, HandleKey, BtnA, PowerLoss, launcherVars
  <2> QED BY <2>1, <2>2
<1>2. status' = "running" => outcome' = "listing"
  <2>1. ListFollows /\ status = "running" => outcome' = "listing"
    BY DEF ListFollows, Launch, listVars, PartsAgree
  <2>2. ASSUME NEW k \in Keys, status = "running", ListAppKey(k), status' = "running"
        PROVE  outcome' = "listing"
    BY <2>2, ListEndsMenu DEF PartsAgree
  <2>3. CASE UNCHANGED <<launcherVars, listVars>>
    BY <2>3 DEF PartsAgree, launcherVars, listVars
  <2>4. PowerLoss => outcome' = "listing"
    BY DEF PowerLoss, Launch
  <2> QED BY <2>1, <2>2, <2>3, <2>4
          DEF MenuNext, menuVars, OtherKey, LeaveByBtnA, PageKey, WriteSettings
<1>3. page' # "closed" <=> Focus' = "wifi"
  <2>1. WlanFollows => (page' # "closed" <=> Focus' = "wifi")
    BY DEF WlanFollows, OpenPage, ClosePage, NoPage, wlanVars, PartsAgree
  <2>2. ASSUME NEW k \in Keys, ListAppKey(k)
        PROVE  page' # "closed" <=> Focus' = "wifi"
    <3>1. UNCHANGED <<current, sub, page>>
      BY <2>2, ListEndsMenu DEF ListAppKey, wlanVars
    <3> QED BY <3>1 DEF PartsAgree, Focus, App
  <2>3. ASSUME NEW k \in WlanKeys, PageKey(k)
        PROVE  page' # "closed" <=> Focus' = "wifi"
    <3>1. Focus = "wifi" /\ UNCHANGED <<current, sub>>
      BY <2>3 DEF PageKey, launcherVars
    <3>2. page' # "closed"
      BY <2>3 DEF PageKey, WlanKey, MoveOption, EditField, Submit, Restore
    <3> QED BY <3>1, <3>2 DEF Focus, App
  <2>4. ASSUME WriteSettings
        PROVE  page' # "closed" <=> Focus' = "wifi"
    <3>1. page # "closed" /\ page' # "closed"
      BY <2>4 DEF WriteSettings, SetData, WriteField, Following, Commit, Reconnect, Fields
    <3>2. UNCHANGED <<current, sub>>
      BY <2>4 DEF WriteSettings, launcherVars
    <3> QED BY <3>1, <3>2 DEF PartsAgree, Focus, App
  <2>5. ASSUME PowerLoss
        PROVE  page' # "closed" <=> Focus' = "wifi"
    BY <2>5, PowerLossInv DEF PowerLoss, PowerCycle, NoPage
  <2>6. CASE UNCHANGED menuVars
    BY <2>6 DEF menuVars, launcherVars, wlanVars, PartsAgree, Focus, App
  <2> QED BY <2>1, <2>2, <2>3, <2>4, <2>5, <2>6 DEF MenuNext, OtherKey, LeaveByBtnA
<1> QED BY <1>1, <1>2, <1>3 DEF PartsAgree, device

LEMMA MenuInitInv == MenuInit => MenuInv
<1> SUFFICES ASSUME MenuInit PROVE MenuInv
  OBVIOUS
<1>1. LauncherInv /\ ListInv
  BY LauncherInitInv, ListInitInv DEF MenuInit
<1>2. Focus # "wifi"
  BY CurrentApp DEF MenuInit, Init, Focus
<1> QED BY <1>1, <1>2 DEF MenuInit, ListInit, WlanInit, MenuInv, PartsAgree

LEMMA MenuNextInv == MenuInv /\ [MenuNext]_menuVars => MenuInv'
<1> SUFFICES ASSUME MenuInv, [MenuNext]_menuVars PROVE MenuInv'
  OBVIOUS
<1>1. LauncherInv'
  BY LauncherSteps, LauncherNextInv, PowerLossInv DEF MenuInv
<1>2. ListInv'
  BY ListSteps, ListNextInv, LaunchInv DEF MenuInv, PartsAgree
<1> QED BY <1>1, <1>2, PartsAgreeStep DEF MenuInv

LEMMA MenuAlwaysInv == MenuSpec => []MenuInv
<1> QED BY MenuInitInv, MenuNextInv, PTL DEF MenuSpec
-----------------------------------------------------------------------------
(* The framework, the app list and the WLAN page agree throughout: the     *)
(* page is open just while Framework hands it the keys, a handler of       *)
(* ListApp that raised has ended the menu, and the two pictures of the     *)
(* directory of scripts stay one.                                          *)
THEOREM PartsAgreeCorrect == MenuSpec => []PartsAgree
<1>1. MenuInv => PartsAgree
  BY DEF MenuInv
<1> QED BY <1>1, MenuAlwaysInv, PTL

(* The launcher's guarantees hold with the app list and the WLAN page in   *)
(* place and through power losses: the view on the display has the focus,  *)
(* Enter acts on what is drawn, and DevApp's task runs just while it is    *)
(* open.                                                                   *)
THEOREM MenuLauncherCorrect ==
  MenuSpec => [](TypeOK /\ FocusOnScreen /\ EnterActsOnShown /\ OneDevTask /\ HangsOnlyHalfWay)
<1>1. MenuInv => TypeOK /\ FocusOnScreen /\ EnterActsOnShown /\ OneDevTask /\ HangsOnlyHalfWay
  BY ActsOnShown DEF MenuInv, LauncherInv
<1> QED BY <1>1, MenuAlwaysInv, PTL

(* In the whole menu, too, LauncherApp opens the app of the icon it drew   *)
(* in the middle; a power loss opens none.                                 *)
THEOREM MenuOpensTheIcon == MenuSpec => OpensTheIcon
<1> DEFINE Opens == App = "launcher" /\ App' # "launcher" => App' = Icons[shown.icon + 1]
<1>1. MenuInv /\ [MenuNext]_menuVars => [Opens]_launcherVars
  BY LauncherSteps, OpensIcon, PowerLossInv DEF MenuInv
<1> QED BY <1>1, MenuAlwaysInv, PTL DEF MenuSpec, OpensTheIcon

(* The list, opened and left again in any order and lost with the power,   *)
(* keeps its cursor on a row and on a script, and its rows consecutive.    *)
THEOREM MenuAppListCorrect ==
  MenuSpec => [](OnAFile /\ WindowIsASlice /\ CursorFits /\ ShortListIsShown)
<1>1. MenuInv => OnAFile /\ WindowIsASlice /\ CursorFits /\ ShortListIsShown
  BY ShortIsShown DEF MenuInv, ListInv
<1> QED BY <1>1, MenuAlwaysInv, PTL

(* Every way the menu has of opening the list, the start after a power     *)
(* loss included, and every move up show the script that Enter runs.       *)
THEOREM MenuOpenAndUpShow == MenuSpec => OpenAndUpShow
<1>1. MenuInv /\ [MenuNext]_menuVars => [Up \/ Launch => RunsWhatIsShown']_listVars
  <2> SUFFICES ASSUME MenuInv, [MenuNext]_menuVars, Up
               PROVE  RunsWhatIsShown'
    BY LaunchInv DEF MenuInv
  <2>1. CASE outcome = "listing"
    BY <2>1, UpInv DEF MenuInv
  <2>2. CASE outcome # "listing"
    <3>1. ListInv /\ (status = "running" => outcome = "listing")
      BY DEF MenuInv, PartsAgree
    <3>2. CASE UNCHANGED listVars
      BY <3>2 DEF Up, listVars, Most, ListInv, ListTypeOK, RunsWhatIsShown
    <3>3. CASE Launch
      BY <3>1, <3>3, LaunchInv
    <3> QED BY <2>2, <3>1, <3>2, <3>3, ListSteps DEF ListNext
  <2> QED BY <2>1, <2>2
<1> QED BY <1>1, MenuAlwaysInv, PTL DEF MenuSpec, OpenAndUpShow

(* The menu implements the WLAN page: whatever the framework does with     *)
(* keys, clicks and power losses, the page sees only the steps its own     *)
(* specification has.                                                      *)
THEOREM WlanSettingsImplemented == MenuSpec => WlanSpec
<1>1. MenuInit => WlanInit
  BY DEF MenuInit
<1>2. [MenuNext]_menuVars => [WlanNext]_wlanVars
  BY WlanSteps
<1> QED BY <1>1, <1>2, PTL DEF MenuSpec, WlanSpec

(* So what was submitted on the page of the menu is stored, committed and  *)
(* connected to, its fields show what would be submitted, and ESC restores *)
(* what is stored.                                                         *)
THEOREM MenuWlanCorrect ==
  MenuSpec => [](StoredAsEntered /\ LabelsTellEdits /\ RestoresTheStored)
<1> QED BY WlanSettingsImplemented, StoredAsEnteredCorrect, LabelsTellEditsCorrect,
           RestoresTheStoredCorrect, PTL
=============================================================================
