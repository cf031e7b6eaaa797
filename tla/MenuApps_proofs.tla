-------------------------- MODULE MenuApps_proofs --------------------------
(***************************************************************************)
(* The two apps of the menu with a state of their own.  The app list for   *)
(* every number of scripts: the cursor is on a row and on a script, and    *)
(* the window shows consecutive scripts.  The WLAN page for texts of every *)
(* length: what was submitted is stored, committed and connected to,       *)
(* through power losses at any step, and the fields show what would be     *)
(* submitted.                                                              *)
(***************************************************************************)
EXTENDS AppList, WlanSettings, TLAPS

(* Up to three scripts fill the window, which then never moves.            *)
StaysAtTop == files \in 1..3 => \A r \in DOMAIN rows : rows[r] = r - 1

(* Without scripts nothing moves.                                          *)
EmptyStaysPut == files = 0 => file_pos = 0 /\ cursor_pos = 0

ListInv ==
  /\ ListTypeOK /\ OnAFile /\ CursorFits /\ WindowIsASlice
  /\ StaysAtTop /\ EmptyStaysPut

(* A redraw that has a script for every row shows the scripts from "from"  *)
(* on, and its rows are scripts of the directory.                          *)
LEMMA RedrawsAllRows ==
  ASSUME ListTypeOK, files > 0, NEW from \in Nat, NEW to \in Nat,
         from + Least(files, 3) <= Least(to, files)
  PROVE  /\ Redrawn(from, to) = [r \in DOMAIN rows |-> from + r - 1]
         /\ Redrawn(from, to) \in [1..Least(files, 3) -> 0..MaxFiles]
  BY AppListAssumption DEF ListTypeOK, Redrawn, Least

(* How many rows there are.                                                *)
LEMMA RowCount ==
  ASSUME NEW n \in Nat
  PROVE  /\ Least(n, 3) \in 0..3
         /\ n <= 3 => Least(n, 3) = n
         /\ n > 3 => Least(n, 3) = 3
  BY DEF Least

LEMMA ListInitInv == ListInit => ListInv
  BY AppListAssumption
     DEF ListInit, TopRows, ListInv, ListTypeOK, OnAFile, CursorFits, WindowIsASlice, StaysAtTop,
         EmptyStaysPut, Least

(* Opening the list again is starting afresh.                              *)
LEMMA LaunchInv == ListInv /\ Launch => ListInv' /\ RunsWhatIsShown'
<1> SUFFICES ASSUME ListInv, Launch PROVE ListInv' /\ RunsWhatIsShown'
  OBVIOUS
<1>1. ListInv'
  BY AppListAssumption
     DEF Launch, TopRows, ListInv, ListTypeOK, OnAFile, CursorFits, WindowIsASlice, StaysAtTop,
         EmptyStaysPut, Least
<1>2. RunsWhatIsShown'
  BY DEF Launch, TopRows, ListInv, ListTypeOK, RunsWhatIsShown, Least
<1> QED BY <1>1, <1>2

LEMMA UpInv == ListInv /\ outcome = "listing" /\ Up => ListInv' /\ RunsWhatIsShown'
<1> SUFFICES ASSUME ListInv, outcome = "listing", Up PROVE ListInv' /\ RunsWhatIsShown'
  OBVIOUS
<1> USE AppListAssumption DEF ListInv
<1>1. files > 0 /\ files' = files /\ outcome' = outcome
  BY DEF Up, ListTypeOK, EmptyStaysPut
<1>2. /\ file_pos' = Most(file_pos - 1, 0)
      /\ cursor_pos' = Most(cursor_pos - 1, 0)
  BY DEF Up
<1>3. OnAFile' /\ CursorFits' /\ file_pos' \in Nat /\ cursor_pos' \in 0..2
  BY <1>1, <1>2 DEF ListTypeOK, OnAFile, CursorFits, Least, Most
<1>4. files \in Nat /\ Least(files, 3) \in Nat
  BY RowCount DEF ListTypeOK
<1>5. /\ cursor_pos' <= file_pos'
      /\ Least(files, 3) - cursor_pos' <= files - file_pos'
      /\ Least(files, 3) <= 3 /\ Least(files, 3) <= files
      /\ files <= 3 => Least(files, 3) = files
  <2>1. /\ cursor_pos' <= file_pos'
        /\ Least(files', 3) - cursor_pos' <= files' - file_pos'
    BY <1>1, <1>3 DEF CursorFits
  <2>2. Least(files, 3) <= 3 /\ Least(files, 3) <= files /\ (files <= 3 => Least(files, 3) = files)
    BY <1>4 DEF Least
  <2> QED BY <1>1, <2>1, <2>2
<1> DEFINE n == Least(files, 3)
           p == file_pos'
           c == cursor_pos'
           from == p - c
           to   == p + (3 - c)
<1>6. rows' = Redrawn(from, to)
  BY <1>3, <1>5 DEF Up
<1>7. from \in Nat /\ to \in Nat /\ from + n <= to /\ from + n <= files
      /\ (files <= 3 => from = 0)
  <2>1. n \in Nat /\ p \in Nat /\ c \in 0..2 /\ files \in Nat
    BY <1>3, <1>4
  <2>2. n <= 3 /\ n <= files /\ (files <= 3 => n = files) /\ c <= p /\ n - c <= files - p
    BY <1>5
  <2> HIDE DEF n, p, c
  <2> QED BY ONLY <2>1, <2>2
<1> HIDE DEF from, to, p, c, n
<1>8. /\ rows' = [r \in DOMAIN rows |-> from + r - 1]
      /\ rows' \in [1..Least(files, 3) -> 0..MaxFiles]
  <2>1. from + Least(files, 3) <= Least(to, files)
    BY <1>4, <1>7 DEF Least, n
  <2> QED BY <1>1, <1>6, <1>7, <2>1, RedrawsAllRows
<1>9. DOMAIN rows = 1..n /\ DOMAIN rows' = 1..n
  BY <1>8 DEF ListTypeOK, n
<1>10. ListTypeOK'
  BY <1>1, <1>2, <1>3, <1>8 DEF ListTypeOK, OnAFile, Least, Most
<1>11. \A r \in 1..n : rows'[r] = from + r - 1
  BY <1>8, <1>9
<1>12. WindowIsASlice'
  <2>1. n \in 1..3
    BY <1>1, <1>4 DEF n, Least
  <2> QED BY <2>1, <1>7, <1>9, <1>11 DEF WindowIsASlice
<1>13. StaysAtTop'
  BY <1>1, <1>4, <1>7, <1>9, <1>11 DEF StaysAtTop
<1>14. EmptyStaysPut'
  BY <1>1 DEF EmptyStaysPut
<1>15. RunsWhatIsShown'
  <2>1. c + 1 \in 1..n
    <3>1. c < n /\ c \in 0..2 /\ n \in Nat
      BY <1>1, <1>3, <1>4 DEF OnAFile, c, n
    <3> QED BY ONLY <3>1
  <2>2. from + (c + 1) - 1 = p
    <3>1. p \in Nat /\ c \in 0..2 /\ from = p - c
      BY <1>3 DEF from, p, c
    <3> QED BY ONLY <3>1
  <2>3. rows'[c + 1] = p
    BY <1>11, <2>1, <2>2
  <2> QED BY <2>3 DEF RunsWhatIsShown, c, p
<1> QED BY <1>3, <1>10, <1>12, <1>13, <1>14, <1>15

LEMMA DownInv == ListInv /\ outcome = "listing" /\ Down => ListInv'
<1> SUFFICES ASSUME ListInv, outcome = "listing", Down PROVE ListInv'
  OBVIOUS
<1> USE AppListAssumption DEF ListInv
<1>1. CASE files = 0
  BY <1>1 DEF Down, ListTypeOK, OnAFile, CursorFits, WindowIsASlice, StaysAtTop, EmptyStaysPut, Least
<1>2. CASE files # 0
  <2>1. /\ files > 0 /\ files' = files /\ outcome' = outcome
        /\ cursor_pos' = Least(cursor_pos + 1, Least(files, 3) - 1)
        /\ file_pos' = Least(file_pos + 1, files - 1)
        /\ rows' = IF file_pos' < 3 THEN Redrawn(0, files)
                   ELSE Redrawn(file_pos' - 2, file_pos' + 1)
    BY <1>2 DEF Down, ListTypeOK
  <2>2. OnAFile' /\ CursorFits' /\ file_pos' \in 0..(files - 1) /\ cursor_pos' \in 0..2
    BY <2>1 DEF ListTypeOK, OnAFile, CursorFits, Least
  <2>3. PICK from \in Nat :
          /\ rows' = [r \in DOMAIN rows |-> from + r - 1]
          /\ rows' \in [1..Least(files, 3) -> 0..MaxFiles]
          /\ files <= 3 => from = 0
    <3>1. CASE file_pos' < 3
      <4>1. 0 + Least(files, 3) <= Least(files, files) /\ files \in Nat
        BY <2>1 DEF Least, ListTypeOK
      <4>2. rows' = Redrawn(0, files)
        BY <2>1, <3>1
      <4> QED BY <2>1, <4>1, <4>2, RedrawsAllRows
    <3>2. CASE ~(file_pos' < 3)
      <4> DEFINE from == file_pos' - 2
                 to   == file_pos' + 1
      <4>1. from \in Nat /\ to \in Nat /\ from + Least(files, 3) <= Least(to, files)
            /\ files > 3
        BY <2>1, <2>2, <3>2 DEF Least, ListTypeOK
      <4>2. rows' = Redrawn(from, to)
        BY <2>1, <3>2
      <4> HIDE DEF from, to
      <4>3. /\ rows' = [r \in DOMAIN rows |-> from + r - 1]
            /\ rows' \in [1..Least(files, 3) -> 0..MaxFiles]
        BY <2>1, <4>1, <4>2, RedrawsAllRows
      <4> QED BY <4>1, <4>3 DEF ListTypeOK
    <3> QED BY <3>1, <3>2
  <2>4. DOMAIN rows = 1..Least(files, 3)
    BY DEF ListTypeOK
  <2>5. ListTypeOK'
    BY <2>1, <2>2, <2>3 DEF ListTypeOK
  <2> DEFINE n == Least(files, 3)
  <2>6. files \in Nat /\ n \in 1..3
    BY <2>1, RowCount DEF ListTypeOK
  <2>7. DOMAIN rows' = 1..n
    BY <2>3, <2>4
  <2> HIDE DEF n
  <2>8. \A r \in 1..n : rows'[r] = from + r - 1
    BY <2>3, <2>4, <2>7
  <2>9. WindowIsASlice'
    BY <2>6, <2>7, <2>8 DEF WindowIsASlice
  <2>10. StaysAtTop' /\ EmptyStaysPut'
    BY <2>1, <2>3, <2>6, <2>7, <2>8 DEF StaysAtTop, EmptyStaysPut
  <2> QED BY <2>2, <2>5, <2>9, <2>10
<1> QED BY <1>1, <1>2

LEMMA ListNextInv == ListInv /\ [ListNext]_listVars => ListInv'
<1> SUFFICES ASSUME ListInv, [ListNext]_listVars PROVE ListInv'
  OBVIOUS
<1>1. CASE outcome = "listing" /\ Up
  BY <1>1, UpInv
<1>2. CASE outcome = "listing" /\ Down
  BY <1>2, DownInv
<1>3. CASE Take
  BY <1>3 DEF Take, ListInv, ListTypeOK, OnAFile, CursorFits, WindowIsASlice, StaysAtTop,
                     EmptyStaysPut
<1>4. CASE UNCHANGED listVars
  BY <1>4 DEF listVars, ListInv, ListTypeOK, OnAFile, CursorFits, WindowIsASlice, StaysAtTop,
                     EmptyStaysPut
<1>5. CASE Launch
  BY <1>5, LaunchInv
<1> QED BY <1>1, <1>2, <1>3, <1>4, <1>5 DEF ListNext

LEMMA ListAlwaysInv == ListSpec => []ListInv
<1> QED BY ListInitInv, ListNextInv, PTL DEF ListSpec

(* Every variable of ListApp keeps its type, and the rows are as many as   *)
(* the window has, whatever the number of scripts.                         *)
THEOREM ListTypeCorrect == ListSpec => []ListTypeOK
<1>1. ListInv => ListTypeOK
  BY DEF ListInv
<1> QED BY <1>1, ListAlwaysInv, PTL

(* However many scripts there are and whatever keys are pressed, the       *)
(* cursor is on a row and the position on a script, and only an empty      *)
(* directory makes a key handler of ListApp fail.                          *)
THEOREM OnAFileCorrect == ListSpec => []OnAFile
<1>1. ListInv => OnAFile
  BY DEF ListInv
<1> QED BY <1>1, ListAlwaysInv, PTL

(* The rows above the cursor always have scripts to show, and so have      *)
(* those below: the two separate limits of ListApp's moves fit together.   *)
THEOREM CursorFitsCorrect == ListSpec => []CursorFits
<1>1. ListInv => CursorFits
  BY DEF ListInv
<1> QED BY <1>1, ListAlwaysInv, PTL

(* Every redraw of ListApp fills every row, with consecutive scripts.      *)
THEOREM WindowIsASliceCorrect == ListSpec => []WindowIsASlice
<1>1. ListInv => WindowIsASlice
  BY DEF ListInv
<1> QED BY <1>1, ListAlwaysInv, PTL

(* Opening the list and moving up show the script that Enter runs, however *)
(* long the list and whatever the rows showed before.                      *)
THEOREM OpenAndUpShowCorrect == ListSpec => OpenAndUpShow
<1>1. ListInv /\ [ListNext]_listVars => [Up \/ Launch => RunsWhatIsShown']_listVars
  BY UpInv, LaunchInv DEF ListNext
<1> QED BY <1>1, ListAlwaysInv, PTL DEF ListSpec, OpenAndUpShow

(* With at most three scripts the row under the cursor shows the script    *)
(* that Enter runs: the mismatch needs a list longer than the window.      *)
LEMMA ShortIsShown == ListInv => ShortListIsShown
  BY DEF ListInv, ShortListIsShown, RunsWhatIsShown, StaysAtTop, OnAFile, CursorFits,
         ListTypeOK, Least

(* The same of every state the list by itself can be in.                   *)
THEOREM ShortListIsShownCorrect == ListSpec => []ShortListIsShown
<1> QED BY ShortIsShown, ListAlwaysInv, PTL
-----------------------------------------------------------------------------
(* set_data writes the fields in this order.                               *)
Written(p) == CASE p = "ssid"   -> {}
                [] p = "psk"    -> {"ssid"}
                [] p = "server" -> {"ssid", "psk"}
                [] OTHER        -> Fields

(* What holds in the middle of set_data, on the way to StoredAsEntered:    *)
(* the page's record of the NVS is right throughout; the fields show what  *)
(* was submitted, and those written so far hold it; nothing is committed before the commit,    *)
(* and unless is_save tells of a change, there is none.                    *)
Writing ==
  /\ page # "closed" => saved = nvs
  /\ page \notin {"closed", "open"} =>
       /\ wanted = edit /\ labels = Drawn(edit)
       /\ \A f \in Written(page) : nvs[f] = edit[f]
       /\ page # "reconnect" /\ ~is_save => flash = nvs /\ network = Connected(nvs)
       /\ page = "reconnect" => flash = nvs
       /\ page = "commit" => is_save

WlanInv == WlanTypeOK /\ StoredAsEntered /\ LabelsTellEdits /\ Writing

LEMMA DrawnTells ==
  ASSUME NEW t \in Texts
  PROVE  /\ Drawn(t) \in [Fields -> {Stars} \cup 0..MaxText]
         /\ \A f \in Fields \ {"psk"} : Drawn(t)[f] = t[f]
         /\ Drawn(t).psk = t.psk \/ (Drawn(t).psk = Stars /\ t.psk # 0)
  BY TextAssumption DEF Drawn, Texts, Fields, Stars

LEMMA ConnectedType ==
  ASSUME NEW t \in Texts
  PROVE  Connected(t) \in {None} \cup ((1..MaxText) \X (0..MaxText))
  BY TextAssumption DEF Connected, Texts, Fields

LEMMA WlanInitInv == WlanInit => WlanInv
<1> SUFFICES ASSUME WlanInit PROVE WlanInv
  OBVIOUS
<1>1. WlanTypeOK
  <2>1. nvs \in Texts
    BY DEF WlanInit
  <2>2. labels \in [Fields -> {Stars} \cup 0..MaxText]
    BY <2>1, DrawnTells DEF WlanInit
  <2>3. network \in {None} \cup ((1..MaxText) \X (0..MaxText))
    BY <2>1, ConnectedType DEF WlanInit
  <2>4. {nvs, flash, saved, edit, wanted} \subseteq Texts
    BY <2>1 DEF WlanInit
  <2>5. /\ page \in Fields \cup {"closed", "open", "commit", "reconnect"}
        /\ option \in 0..4
    BY DEF WlanInit
  <2>6. is_save \in BOOLEAN
    BY DEF WlanInit
  <2> QED BY <2>2, <2>3, <2>4, <2>5, <2>6 DEF WlanTypeOK
<1> QED BY <1>1 DEF WlanInit, WlanInv, StoredAsEntered, LabelsTellEdits, Writing

LEMMA OpenPageInv == WlanInv /\ OpenPage => WlanInv'
<1> SUFFICES ASSUME WlanInv, OpenPage PROVE WlanInv'
  OBVIOUS
<1> USE DEF WlanInv
<1>1. nvs \in Texts
  BY DEF WlanTypeOK
<1>2. WlanTypeOK'
  BY <1>1, DrawnTells DEF OpenPage, WlanTypeOK
<1>3. LabelsTellEdits'
  BY <1>1, DrawnTells DEF OpenPage, LabelsTellEdits
<1> QED BY <1>2, <1>3 DEF OpenPage, StoredAsEntered, Writing

LEMMA NoPageType ==
  ASSUME nvs' \in Texts, NoPage
  PROVE  /\ {saved', edit'} \subseteq Texts
         /\ option' = 0 /\ page' = "closed" /\ is_save' = FALSE
         /\ labels' \in [Fields -> {Stars} \cup 0..MaxText]
  BY DrawnTells DEF NoPage

LEMMA ClosePageInv == WlanInv /\ ClosePage => WlanInv'
<1> SUFFICES ASSUME WlanInv, ClosePage PROVE WlanInv'
  OBVIOUS
<1> USE DEF WlanInv
<1>1. nvs' \in Texts /\ NoPage
  BY DEF ClosePage, WlanTypeOK
<1>2. WlanTypeOK'
  BY <1>1, NoPageType DEF ClosePage, WlanTypeOK
<1> QED BY <1>1, <1>2 DEF ClosePage, NoPage, StoredAsEntered, LabelsTellEdits, Writing

LEMMA PowerCycleInv == WlanInv /\ PowerCycle => WlanInv'
<1> SUFFICES ASSUME WlanInv, PowerCycle PROVE WlanInv'
  OBVIOUS
<1> USE DEF WlanInv
<1>1. nvs' \in Texts /\ NoPage
  BY DEF PowerCycle
<1>2. wanted' \in Texts
  BY <1>1 DEF PowerCycle, WlanTypeOK
<1>3. WlanTypeOK'
  <2>1. network' \in {None} \cup ((1..MaxText) \X (0..MaxText))
    BY <1>1, ConnectedType DEF PowerCycle
  <2>2. flash' \in Texts
    BY <1>1 DEF PowerCycle
  <2> QED BY <1>1, <1>2, <2>1, <2>2, NoPageType DEF WlanTypeOK
<1>4. nvs' = wanted'
  <2>1. CASE page \in Fields \cup {"commit"}
    BY <2>1 DEF PowerCycle
  <2>2. CASE page \notin Fields \cup {"commit"}
    <3>1. nvs = wanted /\ flash = wanted
      <4>1. CASE page = "reconnect"
        <5>1. \A f \in Fields : nvs[f] = wanted[f]
          BY <4>1 DEF Writing, Written
        <5>2. nvs \in Texts /\ wanted \in Texts
          BY DEF WlanTypeOK
        <5>3. nvs = wanted
          BY <5>1, <5>2 DEF Texts
        <5> QED BY <4>1, <5>3 DEF Writing
      <4>2. CASE page \in {"closed", "open"}
        BY <4>2 DEF StoredAsEntered
      <4> QED BY <2>2, <4>1, <4>2 DEF WlanTypeOK
    <3>2. \A f \in Fields : nvs'[f] = wanted[f]
      BY <3>1 DEF PowerCycle
    <3>3. nvs' = wanted
      BY <1>1, <3>2 DEF Texts, WlanTypeOK
    <3> QED BY <2>2, <3>3 DEF PowerCycle
  <2> QED BY <2>1, <2>2
<1> QED BY <1>1, <1>3, <1>4 DEF PowerCycle, NoPage, StoredAsEntered, LabelsTellEdits, Writing

LEMMA WlanKeyInv == ASSUME NEW k PROVE WlanInv /\ WlanKey(k) => WlanInv'
<1> SUFFICES ASSUME WlanInv, WlanKey(k) PROVE WlanInv'
  OBVIOUS
<1> USE DEF WlanInv
<1>1. /\ page = "open" /\ saved = nvs /\ nvs = wanted /\ flash = wanted
      /\ network = Connected(wanted) /\ edit \in Texts /\ saved \in Texts
  BY DEF WlanKey, StoredAsEntered, Writing, WlanTypeOK
<1>2. CASE MoveOption(k)
  <2>1. option' \in 0..4
    BY <1>2 DEF MoveOption, WlanTypeOK
  <2>2. WlanTypeOK'
    BY <1>1, <1>2, <2>1, DrawnTells DEF MoveOption, Stored, WlanTypeOK
  <2>3. LabelsTellEdits'
    BY <1>1, <1>2, DrawnTells DEF MoveOption, Stored, LabelsTellEdits
  <2> QED BY <1>1, <1>2, <2>2, <2>3 DEF MoveOption, Stored, StoredAsEntered, Writing
<1>3. CASE EditField(k)
  <2>1. PICK f \in Fields, text \in 0..MaxText :
          /\ edit' = [edit EXCEPT ![f] = text]
          /\ labels' = [labels EXCEPT ![f] = text]
    <3>1. Field(option) \in Fields
      BY <1>3 DEF EditField, Field, Fields
    <3>2. edit[Field(option)] \in 0..MaxText
      BY <1>1, <3>1 DEF Texts
    <3> DEFINE text == IF k = "a" THEN edit[Field(option)] + 1
                       ELSE IF edit[Field(option)] = 0 THEN 0 ELSE edit[Field(option)] - 1
    <3>3. text \in Nat
      BY <3>2
    <3>4. text <= MaxText /\ edit' = [edit EXCEPT ![Field(option)] = text]
          /\ labels' = [labels EXCEPT ![Field(option)] = text]
      BY <1>3 DEF EditField
    <3>5. text \in 0..MaxText
      BY <3>3, <3>4, TextAssumption
    <3> QED BY <3>1, <3>4, <3>5
  <2>2. edit' \in Texts /\ labels' \in [Fields -> {Stars} \cup 0..MaxText]
    BY <1>1, <2>1 DEF Texts, WlanTypeOK
  <2>3. WlanTypeOK'
    BY <1>1, <1>3, <2>2 DEF EditField, Stored, WlanTypeOK
  <2>4. LabelsTellEdits'
    BY <1>1, <2>1 DEF LabelsTellEdits, Texts, WlanTypeOK, Fields
  <2> QED BY <1>1, <1>3, <2>3, <2>4 DEF EditField, Stored, StoredAsEntered, Writing
<1>4. CASE Submit
  <2>1. WlanTypeOK'
    BY <1>1, <1>4, DrawnTells DEF Submit, WlanTypeOK, Fields
  <2>2. Writing'
    BY <1>1, <1>4 DEF Submit, Writing, Written
  <2> QED BY <1>4, <2>1, <2>2 DEF Submit, StoredAsEntered, LabelsTellEdits
<1>5. CASE Restore
  <2>1. WlanTypeOK'
    BY <1>1, <1>5, DrawnTells DEF Restore, Stored, WlanTypeOK
  <2>2. LabelsTellEdits'
    BY <1>1, <1>5, DrawnTells DEF Restore, Stored, LabelsTellEdits
  <2> QED BY <1>1, <1>5, <2>1, <2>2 DEF Restore, Stored, StoredAsEntered, Writing
<1> QED BY <1>2, <1>3, <1>4, <1>5 DEF WlanKey

LEMMA WriteFieldInv ==
  ASSUME NEW f \in Fields PROVE WlanInv /\ WriteField(f) => WlanInv'
<1> SUFFICES ASSUME WlanInv, WriteField(f) PROVE WlanInv'
  OBVIOUS
<1> USE DEF WlanInv
<1>1. /\ page = f /\ page # "closed" /\ page # "open" /\ page # "reconnect" /\ page # "commit"
      /\ edit \in Texts /\ saved \in Texts /\ nvs \in Texts /\ is_save \in BOOLEAN
  BY DEF WriteField, WlanTypeOK, Fields
<1>2. /\ saved = nvs /\ wanted = edit /\ labels = Drawn(edit)
      /\ \A g \in Written(page) : nvs[g] = edit[g]
      /\ ~is_save => flash = nvs /\ network = Connected(nvs)
  BY <1>1 DEF Writing
<1>3. /\ flash' = flash /\ option' = option /\ edit' = edit /\ labels' = labels
      /\ network' = network /\ wanted' = wanted
      /\ page' = Following(f)
  BY DEF WriteField
<1>4. /\ nvs' = [nvs EXCEPT ![f] = edit[f]]
      /\ saved' = nvs'
      /\ is_save' \in BOOLEAN
      /\ ~is_save' => ~is_save /\ nvs' = nvs
  <2>1. CASE saved[f] # edit[f]
    BY <1>2, <2>1 DEF WriteField
  <2>2. CASE saved[f] = edit[f]
    <3>1. UNCHANGED <<saved, nvs, is_save>>
      BY <2>2 DEF WriteField
    <3>2. nvs = [nvs EXCEPT ![f] = edit[f]]
      BY <1>1, <1>2, <2>2 DEF Texts
    <3> QED BY <1>1, <1>2, <3>1, <3>2
  <2> QED BY <2>1, <2>2
<1>5. nvs' \in Texts /\ \A g \in Written(page) \cup {f} : nvs'[g] = edit[g]
  BY <1>1, <1>2, <1>4 DEF Texts, Written, Fields
<1>6. CASE f = "server"
  <2>1. page' = IF is_save' THEN "commit" ELSE "open"
    BY <1>3, <1>6 DEF Following
  <2>2. nvs' = edit
    <3>1. \A g \in Fields : nvs'[g] = edit[g]
      BY <1>1, <1>5, <1>6 DEF Written, Fields
    <3> QED BY <1>1, <1>5, <3>1 DEF Texts
  <2>3. WlanTypeOK'
    BY <1>3, <1>4, <1>5, <2>1 DEF WlanTypeOK
  <2>4. StoredAsEntered'
    BY <1>2, <1>3, <1>4, <2>1, <2>2 DEF StoredAsEntered
  <2>5. Writing'
    <3>1. CASE is_save'
      <4>1. page' = "commit"
        BY <2>1, <3>1
      <4>2. \A g \in Written(page') : nvs'[g] = edit'[g]
        BY <1>1, <1>3, <2>2, <4>1
      <4> QED BY <1>2, <1>3, <1>4, <3>1, <4>1, <4>2 DEF Writing
    <3>2. CASE ~is_save'
      <4>1. page' = "open"
        BY <2>1, <3>2
      <4> QED BY <1>4, <4>1 DEF Writing
    <3> QED BY <3>1, <3>2
  <2>6. LabelsTellEdits'
    BY <1>1, <1>3, DrawnTells DEF LabelsTellEdits, Writing
  <2> QED BY <2>3, <2>4, <2>5, <2>6
<1>7. CASE f # "server"
  <2>1. /\ page' \in {"psk", "server"}
        /\ Written(page') = Written(page) \cup {f}
    BY <1>1, <1>3, <1>7 DEF Following, Written, Fields
  <2>2. WlanTypeOK'
    BY <1>3, <1>4, <1>5, <2>1 DEF WlanTypeOK, Fields
  <2>3. Writing'
    <3>1. \A g \in Written(page') : nvs'[g] = edit'[g]
      BY <1>3, <1>5, <2>1
    <3>2. ~is_save' => flash' = nvs' /\ network' = Connected(nvs')
      BY <1>2, <1>3, <1>4
    <3> QED BY <1>2, <1>3, <1>4, <2>1, <3>1, <3>2 DEF Writing
  <2> QED BY <2>1, <2>2, <2>3 DEF StoredAsEntered, LabelsTellEdits
<1> QED BY <1>6, <1>7

LEMMA CommitInv == WlanInv /\ Commit => WlanInv'
<1> SUFFICES ASSUME WlanInv, Commit PROVE WlanInv'
  OBVIOUS
<1> USE DEF WlanInv
<1>1. WlanTypeOK'
  BY DEF Commit, WlanTypeOK
<1>2. Writing'
  <2>1. /\ saved = nvs /\ wanted = edit /\ labels = Drawn(edit)
        /\ \A f \in Fields : nvs[f] = edit[f]
    BY DEF Commit, Writing, Written
  <2>2. Written(page') = Fields
    BY DEF Commit, Written
  <2> QED BY <2>1, <2>2 DEF Commit, Writing
<1> QED BY <1>1, <1>2 DEF Commit, StoredAsEntered, LabelsTellEdits

LEMMA ReconnectInv == WlanInv /\ Reconnect => WlanInv'
<1> SUFFICES ASSUME WlanInv, Reconnect PROVE WlanInv'
  OBVIOUS
<1> USE DEF WlanInv
<1>1. /\ page = "reconnect" /\ saved = nvs /\ flash = nvs
      /\ wanted = edit /\ labels = Drawn(edit)
      /\ \A f \in Fields : nvs[f] = edit[f]
  BY DEF Reconnect, Writing, Written
<1>2. edit \in Texts /\ nvs \in Texts /\ saved \in Texts
  BY DEF WlanTypeOK
<1>3. nvs = edit
  BY <1>1, <1>2 DEF Texts
<1>4. WlanTypeOK'
  <2>1. network' \in {None} \cup ((1..MaxText) \X (0..MaxText))
    BY <1>2, ConnectedType DEF Reconnect
  <2> QED BY <2>1 DEF Reconnect, WlanTypeOK
<1>5. LabelsTellEdits'
  BY <1>1, <1>2, DrawnTells DEF Reconnect, LabelsTellEdits
<1> QED BY <1>1, <1>3, <1>4, <1>5 DEF Reconnect, StoredAsEntered, Writing

LEMMA WlanNextInv == WlanInv /\ [WlanNext]_wlanVars => WlanInv'
<1> SUFFICES ASSUME WlanInv, [WlanNext]_wlanVars PROVE WlanInv'
  OBVIOUS
<1>1. CASE \E k \in WlanKeys : WlanKey(k)
  BY <1>1, WlanKeyInv
<1>2. CASE SetData
  BY <1>2, WriteFieldInv, CommitInv, ReconnectInv DEF SetData
<1>3. CASE UNCHANGED wlanVars
  BY <1>3 DEF wlanVars, WlanInv, WlanTypeOK, StoredAsEntered, LabelsTellEdits, Writing
<1> QED BY <1>1, <1>2, <1>3, OpenPageInv, ClosePageInv, PowerCycleInv DEF WlanNext

LEMMA WlanAlwaysInv == WlanSpec => []WlanInv
<1> QED BY WlanInitInv, WlanNextInv, PTL DEF WlanSpec

(* Every attribute of WiFiSettingApp keeps its type, for every bound on    *)
(* the length of a text.                                                   *)
THEOREM WlanTypeCorrect == WlanSpec => []WlanTypeOK
<1>1. WlanInv => WlanTypeOK
  BY DEF WlanInv
<1> QED BY <1>1, WlanAlwaysInv, PTL

(* What set_data was last asked to store is in the NVS, committed, and is  *)
(* what the network was given, through edits, ESC, BtnA and power losses   *)
(* at any step but those between the first write and the commit.           *)
THEOREM StoredAsEnteredCorrect == WlanSpec => []StoredAsEntered
<1>1. WlanInv => StoredAsEntered
  BY DEF WlanInv
<1> QED BY <1>1, WlanAlwaysInv, PTL

(* The fields of the page show what Enter would submit.                    *)
THEOREM LabelsTellEditsCorrect == WlanSpec => []LabelsTellEdits
<1>1. WlanInv => LabelsTellEdits
  BY DEF WlanInv
<1> QED BY <1>1, WlanAlwaysInv, PTL

(* ESC restores what is stored: the page's record of the NVS is never      *)
(* stale.                                                                  *)
THEOREM RestoresTheStoredCorrect == WlanSpec => []RestoresTheStored
<1>1. WlanInv => RestoresTheStored
  BY DEF WlanInv, Writing, RestoresTheStored
<1> QED BY <1>1, WlanAlwaysInv, PTL
=============================================================================
