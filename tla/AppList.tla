------------------------------ MODULE AppList ------------------------------
(***************************************************************************)
(* The app list of the Cardputer ADV's menu (ListApp): the scripts of the  *)
(* directory apps, a window of at most three of them on the display, and   *)
(* the cursor.  Enter runs the script at _file_pos, "a" makes it main.py;  *)
(* the user goes by the script the window shows at the cursor.             *)
(***************************************************************************)
EXTENDS Integers, Sequences

CONSTANT MaxFiles  \* bound: scripts in the directory

ASSUME AppListAssumption == MaxFiles \in Nat

VARIABLES
  files,      \* how many scripts there are; the script at place i is i
  file_pos,   \* self._file_pos
  cursor_pos, \* self._cursor_pos
  rows,       \* the script each row shows, the first row at 1
  outcome     \* "listing", or what ended it

listVars == <<files, file_pos, cursor_pos, rows, outcome>>

Least(a, b) == IF a < b THEN a ELSE b
Most(a, b)  == IF a > b THEN a ELSE b

(* zip of the rows with files[from:to]: a row beyond the slice keeps what  *)
(* it shows.                                                               *)
Redrawn(from, to) ==
  [r \in DOMAIN rows |-> IF from + r - 1 < Least(to, files) THEN from + r - 1 ELSE rows[r]]

TopRows == [r \in 1..Least(files, 3) |-> r - 1]

ListInit ==
  /\ files \in 0..MaxFiles
  /\ file_pos = 0
  /\ cursor_pos = 0
  /\ rows = TopRows
  /\ outcome = "listing"

\* Mutant of Launch: the list opens where it was left.
LaunchWhereLeft ==
  /\ rows' = TopRows
  /\ outcome' = "listing"
  /\ UNCHANGED <<files, file_pos, cursor_pos>>

(* on_launch and on_view when the app is opened again: the positions of    *)
(* the last visit are set back.                                            *)
Launch ==
  /\ file_pos' = 0
  /\ cursor_pos' = 0
  /\ rows' = TopRows
  /\ outcome' = "listing"
  /\ UNCHANGED files

\* Mutant of Up: the cursor stays.
UpKeepsCursor ==
  /\ ~(file_pos = 0 /\ cursor_pos = 0)
  /\ file_pos' = Most(file_pos - 1, 0)
  /\ UNCHANGED <<files, cursor_pos, rows, outcome>>

(* _btn_up_event_handler: at the very top only a tone sounds.              *)
Up ==
  /\ ~(file_pos = 0 /\ cursor_pos = 0)
  /\ file_pos' = Most(file_pos - 1, 0)
  /\ cursor_pos' = Most(cursor_pos - 1, 0)
  /\ rows' = IF file_pos' < cursor_pos'
             THEN Redrawn(0, files)
             ELSE Redrawn(file_pos' - cursor_pos', file_pos' + (3 - cursor_pos'))
  /\ UNCHANGED <<files, outcome>>

\* Mutants of Down: no lower end of the list; a slice one script short.
DownWithoutEnd ==
  /\ files > 0
  /\ cursor_pos' = Least(cursor_pos + 1, Least(files, 3) - 1)
  /\ file_pos' = Least(file_pos + 1, files)
  /\ UNCHANGED <<files, rows, outcome>>

DownShortSlice ==
  /\ files > 0
  /\ cursor_pos' = Least(cursor_pos + 1, Least(files, 3) - 1)
  /\ file_pos' = Least(file_pos + 1, files - 1)
  /\ rows' = IF file_pos' < 3 THEN Redrawn(0, files)
             ELSE Redrawn(file_pos' - 2, file_pos')
  /\ UNCHANGED <<files, outcome>>

(* _btn_down_event_handler.  Without scripts there is no row to deselect.  *)
Down ==
  \/ /\ files > 0
     /\ cursor_pos' = Least(cursor_pos + 1, Least(files, 3) - 1)
     /\ file_pos' = Least(file_pos + 1, files - 1)
     /\ rows' = IF file_pos' < 3 THEN Redrawn(0, files)
                ELSE Redrawn(file_pos' - 2, file_pos' + 1)
     /\ UNCHANGED <<files, outcome>>
  \/ /\ files = 0
     /\ outcome' = "IndexError"
     /\ UNCHANGED <<files, file_pos, cursor_pos, rows>>

(* Enter runs the script, "a" copies it to main.py: both name it by        *)
(* file_pos.                                                               *)
Take ==
  /\ outcome' = IF file_pos < files THEN "taken" ELSE "IndexError"
  /\ UNCHANGED <<files, file_pos, cursor_pos, rows>>

ListNext == outcome = "listing" /\ (Up \/ Down \/ Take \/ Launch)

ListSpec == ListInit /\ [][ListNext]_listVars
-----------------------------------------------------------------------------
ListTypeOK ==
  /\ files \in 0..MaxFiles
  /\ file_pos \in 0..MaxFiles
  /\ cursor_pos \in 0..2
  /\ rows \in [1..Least(files, 3) -> 0..MaxFiles]
  /\ outcome \in {"listing", "taken", "IndexError"}

(* Whatever keys are pressed, the cursor is on a row and _file_pos on a    *)
(* script, and only an empty directory makes a key fail.                   *)
OnAFile ==
  /\ files > 0 => cursor_pos < Least(files, 3) /\ file_pos < files
  /\ outcome = "IndexError" => files = 0

(* The window shows scripts that follow each other and never repeats one,  *)
(* so every script can be brought onto the display.                        *)
WindowIsASlice == \A r \in DOMAIN rows : rows[r] = rows[1] + r - 1

(* The cursor is never further down than the script: the rows above it can *)
(* always show the scripts before it, and those below what follows.        *)
CursorFits ==
  files > 0 => /\ cursor_pos <= file_pos
               /\ Least(files, 3) - cursor_pos <= files - file_pos

(* The script that Enter runs is the one the row under the cursor shows.   *)
RunsWhatIsShown == files > 0 => rows[cursor_pos + 1] = file_pos

(* Opening the list and every move up put the script that Enter runs under *)
(* the cursor again, whatever the rows showed before: the mismatch is made *)
(* by moving down alone.                                                   *)
OpenAndUpShow == [][Up \/ Launch => RunsWhatIsShown']_listVars

(* The user reads a mismatch only after moving up from below the third     *)
(* script and down again: with at most three scripts there is none.        *)
ShortListIsShown == files \in 1..3 => RunsWhatIsShown
=============================================================================
