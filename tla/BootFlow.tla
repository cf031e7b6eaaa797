------------------------------ MODULE BootFlow ------------------------------
(***************************************************************************)
(* From power-on to the user's program: _boot.py moves a downloaded        *)
(* program into place, boot.py reads the boot option from NVS, startup()   *)
(* shows the menu, connects to the network or does nothing, and main.py    *)
(* runs if boot.py ended well.  The menu changes the boot option and       *)
(* main.py.  Power may be lost between any two steps, and every access to  *)
(* a file may raise.                                                       *)
(*                                                                         *)
(* Outside the repository's code: the flash file system is LittleFS, as    *)
(* inisetup.py makes it, where what was written to a file takes effect     *)
(* when the file is closed, by the code or by the garbage collector; a     *)
(* value set in NVS and not committed may or may not be there after a      *)
(* restart; and the download service.                                      *)
(***************************************************************************)
EXTENDS Integers

CONSTANTS
  Programs,  \* programs that may become main.py
  None,      \* no file
  Partial    \* what is there of a program not written to its end: a part or nothing

ASSUME BootAssumption == None # Partial /\ {None, Partial} \cap Programs = {}

VARIABLES
  phase,       \* where the device stands
  boot_option, \* NVS "uiflow"/"boot_option" as get_u8 returns it
  stored,      \* what of it is committed
  main,        \* main.py
  ota,         \* main_ota_temp.py
  held,        \* whether BtnA is held at this boot
  copying,     \* the script ListApp is copying to main.py
  menu_shown,  \* history: the menu was shown at this boot
  wanted,      \* history: the program last downloaded or chosen to run always
  faults       \* history: the errors of this boot, and what befell wanted

nvs     == <<boot_option, stored>>
history == <<menu_shown, wanted, faults>>
bootVars == <<phase, nvs, main, ota, held, copying, history>>

(* Errors of this boot: a download is not moved into place, or so with     *)
(* main.py left open; a file is not removed; startup() raises.             *)
BootFaults == {"move", "left_open", "remove", "startup"}

(* What befell the choice of wanted: its copying was cut short by an error *)
(* or a power loss; it was made while an older download was still there.   *)
ChoiceFaults == {"cut", "overtaken"}

Init ==
  /\ phase = "off"
  /\ boot_option \in 0..2
  /\ stored = boot_option
  /\ main \in Programs \cup {None}
  /\ ota = None
  /\ held = FALSE
  /\ copying = None
  /\ menu_shown = FALSE
  /\ wanted = main
  /\ faults = {}

(* nvs.set_u8 followed by nvs.commit.                                      *)
SetBootOption(option) ==
  /\ boot_option' = option
  /\ stored' = option

Restarts == phase' = "off" /\ copying' = None

(* open(..., "wb") creates main.py when it is missing.                     *)
OpenMain == main' = IF main = None THEN Partial ELSE main

(* The user makes p, or no program, what is to run.                        *)
Chooses(p) ==
  /\ wanted' = p
  /\ faults' = (faults \ ChoiceFaults) \cup (IF ota = None THEN {} ELSE {"overtaken"})

PowerOff ==
  /\ phase # "off"
  /\ Restarts
  /\ faults' = IF copying = None THEN faults ELSE faults \cup {"cut"}
  /\ UNCHANGED <<nvs, main, ota, held, menu_shown, wanted>>

PowerOn ==
  /\ phase = "off"
  /\ phase' = "_boot"
  /\ held' \in BOOLEAN
  /\ menu_shown' = FALSE
  /\ boot_option' \in {boot_option, stored}
  /\ stored' = boot_option'
  /\ faults' = faults \ BootFaults
  /\ UNCHANGED <<main, ota, copying, wanted>>
-----------------------------------------------------------------------------
(* _boot.py.                                                               *)

\* Mutants of OpenOta: the download is removed before it is copied; it is
\* moved only where there is no main.py.
OpenOtaRemoving ==
  /\ phase = "_boot"
  /\ IF ota = None
     THEN phase' = "startup" /\ UNCHANGED main
     ELSE phase' = "copy_ota" /\ OpenMain
  /\ ota' = None
  /\ UNCHANGED <<nvs, held, copying, history>>

OpenOtaWhenMissing ==
  /\ phase = "_boot"
  /\ IF ota = None \/ main # None
     THEN phase' = "startup" /\ UNCHANGED main
     ELSE phase' = "copy_ota" /\ OpenMain
  /\ UNCHANGED <<nvs, ota, held, copying, history>>

OpenOta ==
  /\ phase = "_boot"
  /\ IF ota = None
     THEN phase' = "startup" /\ UNCHANGED main
     ELSE phase' = "copy_ota" /\ OpenMain
  /\ UNCHANGED <<nvs, ota, held, copying, history>>

CopyOta ==
  /\ phase = "copy_ota"
  /\ main' = ota
  /\ phase' = "remove_ota"
  /\ UNCHANGED <<nvs, ota, held, copying, history>>

(* The download is removed, or removing it raises, which is passed over.   *)
RemoveOta ==
  /\ phase = "remove_ota"
  /\ phase' = "startup"
  /\ \/ ota' = None /\ UNCHANGED faults
     \/ ota' = ota /\ faults' = faults \cup {"remove"}
  /\ UNCHANGED <<nvs, main, held, copying, menu_shown, wanted>>

(* So is an error of opening or reading the download and of opening,       *)
(* writing or closing main.py, as when the file system is full; past the   *)
(* opening main.py stays open.                                             *)
OtaFails ==
  /\ \/ /\ phase = "_boot" /\ ota # None
        /\ faults' = faults \cup {"move"}
     \/ /\ phase = "copy_ota"
        /\ faults' = faults \cup {"move", "left_open"}
  /\ phase' = "startup"
  /\ UNCHANGED <<nvs, main, ota, held, copying, menu_shown, wanted>>

(* The garbage collector closes the main.py that _boot.py left open, when  *)
(* the program or the interpreter gives the name f another value, or at    *)
(* the soft reset that ends them: what was written of it is main.py then.  *)
CollectFile ==
  /\ phase \in {"main", "repl"}
  /\ "left_open" \in faults
  /\ main # None
  /\ main' = Partial
  /\ faults' = faults \ {"left_open"}
  /\ UNCHANGED <<phase, nvs, ota, held, copying, menu_shown, wanted>>
-----------------------------------------------------------------------------
(* boot.py calls startup(), and main.c runs main.py unless it raised.      *)

ShowMenu == phase' = "menu" /\ menu_shown' = TRUE

(* Reading a setting raises before BtnA is looked at.                      *)
StartupRaises ==
  /\ phase = "startup"
  /\ phase' = "repl"
  /\ faults' = faults \cup {"startup"}
  /\ UNCHANGED <<nvs, main, ota, held, copying, menu_shown, wanted>>

(* BtnA: the boot option becomes 1 without a commit, then main.py is       *)
(* removed, which raises when there is none and may raise when there is.   *)
StartupHeld ==
  /\ phase = "startup"
  /\ held
  /\ boot_option # 1
  /\ boot_option' = 1
  /\ \/ /\ main # None
        /\ main' = None
        /\ Chooses(None)
        /\ ShowMenu
     \/ /\ phase' = "repl"
        /\ faults' = IF main = None THEN faults ELSE faults \cup {"remove"}
        /\ UNCHANGED <<main, wanted, menu_shown>>
  /\ UNCHANGED <<stored, ota, held, copying>>

\* Mutant of Startup: BtnA is not looked at.
StartupUnheld ==
  /\ phase = "startup"
  /\ IF boot_option = 1
     THEN ShowMenu
     ELSE phase' = (IF main = None THEN "repl" ELSE "main") /\ UNCHANGED menu_shown
  /\ UNCHANGED <<nvs, main, ota, held, copying, wanted, faults>>

Startup ==
  /\ phase = "startup"
  /\ ~held \/ boot_option = 1
  /\ IF boot_option = 1
     THEN ShowMenu
     ELSE phase' = (IF main = None THEN "repl" ELSE "main") /\ UNCHANGED menu_shown
  /\ UNCHANGED <<nvs, main, ota, held, copying, wanted, faults>>
-----------------------------------------------------------------------------
(* What the menu's apps do to the boot option and main.py.                 *)

\* Mutant of SwitchBootScreen: the options do not wrap around.
SwitchBootScreenOn ==
  /\ phase = "menu"
  /\ SetBootOption(boot_option + 1)
  /\ UNCHANGED <<phase, main, ota, held, copying, menu_shown, wanted, faults>>

(* BootScreenSetting: the next of its two options.                         *)
SwitchBootScreen ==
  /\ phase = "menu"
  /\ SetBootOption(IF boot_option = 1 THEN 2 ELSE 1)
  /\ UNCHANGED <<phase, main, ota, held, copying, menu_shown, wanted, faults>>

(* RunApp, run once, and any error of an app: boot.py ends by an exception *)
(* and main.c leaves the device in the interpreter.                        *)
LeaveMenu ==
  /\ phase = "menu"
  /\ phase' = "repl"
  /\ UNCHANGED <<nvs, main, ota, held, copying, history>>

RunAlways ==
  /\ phase = "menu"
  /\ main # None
  /\ SetBootOption(2)
  /\ Chooses(main)
  /\ Restarts
  /\ UNCHANGED <<main, ota, held, menu_shown>>

(* ListApp, "a": the boot option first, then main.py chunk by chunk.       *)
ListAlways(p) ==
  /\ phase = "menu"
  /\ SetBootOption(2)
  /\ Chooses(p)
  /\ phase' = "open_main"
  /\ copying' = p
  /\ UNCHANGED <<main, ota, held, menu_shown>>

ListOpenMain ==
  /\ phase = "open_main"
  /\ OpenMain
  /\ phase' = "copy_main"
  /\ UNCHANGED <<nvs, ota, held, copying, history>>

ListCloseMain ==
  /\ phase = "copy_main"
  /\ main' = copying
  /\ Restarts
  /\ UNCHANGED <<nvs, ota, held, history>>

(* Opening, reading or writing raises: leaving the with block closes       *)
(* main.py after the chunks written so far, unless the file system gave    *)
(* them up, and the exception ends boot.py.                                *)
ListFails ==
  /\ \/ phase = "open_main" /\ UNCHANGED main
     \/ phase = "copy_main" /\ main' \in {main, Partial}
  /\ phase' = "repl"
  /\ copying' = None
  /\ faults' = faults \cup {"cut"}
  /\ UNCHANGED <<nvs, ota, held, menu_shown, wanted>>

(* DOWNLOAD on the web site: the device restarts with the program in       *)
(* main_ota_temp.py and the boot option 2, as boot.py tells.               *)
Download(p) ==
  /\ phase \in {"menu", "main", "repl"}
  /\ ota' = p
  /\ wanted' = p
  /\ faults' = faults \ ChoiceFaults
  /\ SetBootOption(2)
  /\ Restarts
  /\ UNCHANGED <<main, held, menu_shown>>
-----------------------------------------------------------------------------
BootNext ==
  \/ PowerOff \/ PowerOn
  \/ OpenOta \/ CopyOta \/ RemoveOta \/ OtaFails \/ CollectFile
  \/ StartupRaises \/ StartupHeld \/ Startup
  \/ SwitchBootScreen \/ LeaveMenu \/ RunAlways
  \/ \E p \in Programs : ListAlways(p) \/ Download(p)
  \/ ListOpenMain \/ ListCloseMain \/ ListFails

BootSpec == Init /\ [][BootNext]_bootVars
-----------------------------------------------------------------------------
TypeOK ==
  /\ phase \in {"off", "_boot", "copy_ota", "remove_ota", "startup", "menu",
                "open_main", "copy_main", "main", "repl"}
  /\ boot_option \in 0..2
  /\ stored \in 0..2
  /\ main \in Programs \cup {None, Partial}
  /\ ota \in Programs \cup {None}
  /\ held \in BOOLEAN
  /\ copying \in Programs \cup {None}
  /\ menu_shown \in BOOLEAN
  /\ wanted \in Programs \cup {None, Partial}
  /\ faults \subseteq BootFaults \cup ChoiceFaults

(* The program last downloaded or chosen is in main.py, waits as the       *)
(* download or is being copied, wherever power was lost and whichever      *)
(* error _boot.py passed over: only a copy of ListApp that was cut short,  *)
(* or an older download still there when the choice was made, loses it.    *)
NoProgramLost ==
  wanted # None /\ faults \cap ChoiceFaults = {}
    => wanted \in {main, ota, copying}

(* What runs is the program last downloaded or chosen, whole, and nothing  *)
(* runs that BtnA removed, but at a boot that could not move the download. *)
RunsTheWanted ==
  phase = "main" /\ faults \cap ({"move"} \cup ChoiceFaults) = {} => main = wanted

(* Holding BtnA at power-on keeps main.py from running.                    *)
HoldStopsMain == held => phase # "main"

(* boot.py: hold BtnA and repower the device, and the menu is shown.       *)
HoldShowsMenu ==
  held /\ phase \in {"main", "repl"} /\ faults = {} => menu_shown
=============================================================================
