--------------------------- MODULE BootFlow_proofs ---------------------------
(***************************************************************************)
(* The boot flow for every set of programs: wherever power is lost and     *)
(* whatever raises, the program last chosen is kept and is what runs,      *)
(* unless one of the faults the properties name took it away.              *)
(***************************************************************************)
EXTENDS BootFlow, TLAPS

Intact == faults \cap ChoiceFaults = {}

(* A download that waits is the program last chosen.                       *)
OtaIsWanted == "overtaken" \notin faults => ota \in {None, wanted}

(* Once no download waits, and outside the list's copying, main.py is the  *)
(* program last chosen, or there is none if none was.                      *)
MainIsWanted ==
  Intact /\ ota = None /\ phase \notin {"open_main", "copy_main"} => main = wanted

(* A download that was moved and could not be removed is in main.py.       *)
OtaIsMoved ==
  Intact /\ "move" \notin faults /\ phase \in {"startup", "menu", "main", "repl"}
    => ota \in {None, main}

(* While a download is moved there is one, and it is removed only when     *)
(* main.py holds all of it; while main.py is left open the download waits. *)
OtaIsSafe ==
  /\ phase \in {"copy_ota", "remove_ota"} => ota # None
  /\ phase = "remove_ota" => main = ota
  /\ "left_open" \in faults =>
       /\ "move" \in faults
       /\ phase \notin {"_boot", "copy_ota", "remove_ota"}
       /\ ota # None \/ phase = "off"

(* What the list is copying is the program last chosen.                    *)
CopyingIsWanted ==
  phase \in {"open_main", "copy_main"} => copying = wanted /\ copying # None

BootInv ==
  /\ TypeOK /\ HoldStopsMain
  /\ OtaIsWanted /\ MainIsWanted /\ OtaIsMoved /\ OtaIsSafe /\ CopyingIsWanted

LEMMA InitInv == Init => BootInv
  BY DEF Init, BootInv, TypeOK, HoldStopsMain, OtaIsWanted, MainIsWanted, OtaIsMoved,
         OtaIsSafe, CopyingIsWanted, Intact, BootFaults, ChoiceFaults

LEMMA NextInv == BootInv /\ [BootNext]_bootVars => BootInv'
<1> SUFFICES ASSUME BootInv, [BootNext]_bootVars PROVE BootInv'
  OBVIOUS
<1> USE BootAssumption
    DEF BootInv, TypeOK, HoldStopsMain, OtaIsWanted, MainIsWanted, OtaIsMoved, OtaIsSafe,
        CopyingIsWanted, Intact, BootFaults, ChoiceFaults, nvs, history, Restarts,
        SetBootOption, OpenMain, ShowMenu, Chooses
<1>1. CASE PowerOff
  BY <1>1 DEF PowerOff
<1>2. CASE PowerOn
  BY <1>2 DEF PowerOn
<1>3. CASE OpenOta
  BY <1>3 DEF OpenOta
<1>4. CASE CopyOta
  BY <1>4 DEF CopyOta
<1>5. CASE RemoveOta
  <2>1. phase = "remove_ota" /\ phase' = "startup"
        /\ UNCHANGED <<nvs, main, held, copying, menu_shown, wanted>>
    BY <1>5 DEF RemoveOta
  <2>2. CASE ota' = None /\ UNCHANGED faults
    BY <2>1, <2>2
  <2>3. CASE ota' = ota /\ faults' = faults \cup {"remove"}
    BY <2>1, <2>3
  <2> QED BY <1>5, <2>2, <2>3 DEF RemoveOta
<1>6. CASE OtaFails
  BY <1>6 DEF OtaFails
<1>7. CASE StartupHeld
  <2>1. ~(boot_option = 1) /\ boot_option' = 1 /\ phase = "startup" /\ held
        /\ UNCHANGED <<stored, ota, held, copying>>
    BY <1>7 DEF StartupHeld
  <2>2. CASE main # None /\ main' = None /\ Chooses(None) /\ ShowMenu
    BY <2>1, <2>2
  <2>3. CASE phase' = "repl" /\ UNCHANGED <<main, wanted, menu_shown>>
             /\ faults' = IF main = None THEN faults ELSE faults \cup {"remove"}
    BY <2>1, <2>3
  <2> QED BY <1>7, <2>2, <2>3 DEF StartupHeld
<1>8. CASE Startup
  BY <1>8 DEF Startup
<1>9. CASE SwitchBootScreen
  BY <1>9 DEF SwitchBootScreen
<1>10. CASE LeaveMenu
  BY <1>10 DEF LeaveMenu
<1>11. CASE RunAlways
  BY <1>11 DEF RunAlways
<1>12. ASSUME NEW p \in Programs, ListAlways(p) PROVE BootInv'
  BY <1>12 DEF ListAlways
<1>13. ASSUME NEW p \in Programs, Download(p) PROVE BootInv'
  BY <1>13 DEF Download
<1>14. CASE ListOpenMain
  BY <1>14 DEF ListOpenMain
<1>15. CASE ListCloseMain
  BY <1>15 DEF ListCloseMain
<1>16. CASE CollectFile
  BY <1>16 DEF CollectFile
<1>17. CASE StartupRaises
  BY <1>17 DEF StartupRaises
<1>18. CASE ListFails
  BY <1>18 DEF ListFails
<1>19. CASE UNCHANGED bootVars
  BY <1>19 DEF bootVars
<1> QED BY <1>1, <1>2, <1>3, <1>4, <1>5, <1>6, <1>7, <1>8, <1>9, <1>10, <1>11, <1>12,
           <1>13, <1>14, <1>15, <1>16, <1>17, <1>18, <1>19 DEF BootNext

LEMMA AlwaysInv == BootSpec => []BootInv
<1> QED BY InitInv, NextInv, PTL DEF BootSpec

(* Every variable of the boot flow keeps its type: the boot option is one  *)
(* that startup() knows, and a download is never part of a program.        *)
THEOREM TypeCorrect == BootSpec => []TypeOK
<1>1. BootInv => TypeOK
  BY DEF BootInv
<1> QED BY <1>1, AlwaysInv, PTL

(* Wherever power is lost and whichever error _boot.py passes over, be it  *)
(* of moving the download or of removing it, the program last chosen is in *)
(* main.py, waits as the download or is being copied, unless the list's    *)
(* copying was cut short or an older download was there at the choice.     *)
THEOREM NoProgramLostCorrect == BootSpec => []NoProgramLost
<1>1. BootInv => NoProgramLost
  BY DEF BootInv, NoProgramLost, OtaIsWanted, MainIsWanted, CopyingIsWanted, Intact,
         ChoiceFaults
<1> QED BY <1>1, AlwaysInv, PTL

(* What main.c runs as main.py is all of the program last chosen, also     *)
(* when its download could not be removed, unless it could not be moved at *)
(* this boot, its copying was cut short or it was overtaken.               *)
THEOREM RunsTheWantedCorrect == BootSpec => []RunsTheWanted
<1>1. BootInv => RunsTheWanted
  BY DEF BootInv, RunsTheWanted, OtaIsWanted, MainIsWanted, OtaIsMoved, Intact,
         ChoiceFaults
<1> QED BY <1>1, AlwaysInv, PTL

(* startup() lets no main.py run at a boot with BtnA held, whatever the    *)
(* boot option and the files are.                                          *)
THEOREM HoldStopsMainCorrect == BootSpec => []HoldStopsMain
<1>1. BootInv => HoldStopsMain
  BY DEF BootInv
<1> QED BY <1>1, AlwaysInv, PTL
=============================================================================
