------------------------------- MODULE Keyboard -------------------------------
(***************************************************************************)
(* The keyboard of the web client: one listener resolves every key against *)
(* what App.tsx holds (the rows last reported, the cursor, the ticks, the  *)
(* open message) and a pending "g", whose age is only looked at when the   *)
(* next key comes.  The list is unmounted in the other views, and reports  *)
(* nothing when it goes.                                                   *)
(***************************************************************************)
EXTENDS Integers, Sequences, Functions, FiniteSets

CONSTANTS Messages, Folders,
          Timeout,      \* CHORD_TIMEOUT_MS
          MaxNow,       \* bound of the clock
          None

VARIABLES now,
          view, folder,   \* what is shown
          focus,    \* where the focus is: "page" or "field"
          help,     \* TRUE: the overlay of shortcuts is open
          reader,   \* the message open, or None
          rows,     \* the rows last reported, in order
          cursor,   \* index of the keyboard cursor, 0 for none
          ticked,   \* rows ticked
          chord,    \* when the pending "g" was pressed, or None
          last      \* history: what the last key did, and what it moved unseen
vars == <<now, view, folder, focus, help, reader, rows, cursor, ticked, chord, last>>
place == <<view, folder, focus>>

Views == {"inbox", "opens", "followup", "compose"}
Nothing == [kind |-> "none", unseen |-> {}]
Lists == {l \in UNION {[1 .. n -> Messages] : n \in 0 .. Cardinality(Messages)} :
            IsInjective(l)}

TypeOK ==
  /\ now \in 0 .. MaxNow /\ chord \in 0 .. MaxNow \union {None}
  /\ view \in Views /\ folder \in Folders /\ focus \in {"page", "field"}
  /\ help \in BOOLEAN /\ reader \in Messages \union {None}
  /\ rows \in Seq(Messages) /\ cursor \in 0 .. Len(rows)
  /\ ticked \subseteq Messages /\ last.unseen \subseteq Messages

Init == /\ now = 0 /\ view = "inbox" /\ folder \in Folders /\ focus = "page"
        /\ help = FALSE /\ reader = None
        /\ rows = <<>> /\ cursor = 0 /\ ticked = {}
        /\ chord = None /\ last = Nothing

(*------------------------- resolving a keystroke -------------------------*)
Letters == {"j", "k", "o", "u", "e", "x", "g", "i", "s", "Escape", "?", "Shift"}
FolderOf(key) == IF key = "i" THEN "inbox" ELSE "starred"
IsFolderKey(key) == key \in {"i", "s"}

(* Mutant: only a timer ends a chord.                                      *)
ExpiredNever(at) == FALSE
Expired(at) == now - at > Timeout

OnRow == cursor \in 1 .. Len(rows)
InHand == reader # None \/ OnRow

Clamp(index) == IF index < 1 THEN 1 ELSE IF index > Len(rows) THEN Len(rows) ELSE index
(* moveTo: the first press lands on the top row, and nothing wraps.        *)
MovedTo(delta) == IF cursor = 0 THEN 1 ELSE Clamp(cursor + delta)
Delta(key) == IF key = "j" THEN 1 ELSE -1

(* resolveBareKey.                                                         *)
BareKey(key) ==
  CASE key = "?" -> IF help THEN "close-help" ELSE "open-help"
    [] key = "Escape" -> IF help THEN "close-help"
                         ELSE IF reader # None THEN "close-reader" ELSE "none"
    [] help /\ key \notin {"?", "Escape"} -> "none"
    [] key \in {"j", "k"} /\ ~help ->
         IF rows = <<>> THEN "none" ELSE IF reader # None THEN "step" ELSE "select"
    [] key = "o" /\ ~help -> IF reader = None /\ OnRow THEN "open" ELSE "none"
    [] key = "u" /\ ~help -> IF reader # None THEN "close-reader" ELSE "none"
    [] key = "e" /\ ~help -> IF InHand THEN "move" ELSE "none"
    [] key = "x" /\ ~help -> IF reader = None /\ OnRow THEN "tick" ELSE "none"
    [] key = "s" /\ ~help -> IF InHand THEN "star" ELSE "none"
    [] OTHER -> "none"

Pending == chord # None /\ ~Expired(chord)
Refused == focus = "field" \/ view = "compose"

Action(key) == CASE key = "Shift" \/ Refused -> "none"
                 [] Pending /\ IsFolderKey(key) /\ ~Refused -> "go-folder"
                 [] OTHER -> BareKey(key)
ChordAfter(key) == CASE key = "Shift" -> chord
                     [] key = "g" /\ ~Refused /\ ~help
                        /\ ~(Pending /\ IsFolderKey(key)) -> now
                     [] OTHER -> None

(* moveTargetsFor: the open message, else the ticked rows, else the row.   *)
Targets == IF reader # None THEN {reader}
           ELSE IF ticked # {} THEN ticked ELSE {rows[cursor]}

(* Where App draws what the keys act on.                                   *)
OnScreen(m) == \/ reader = m /\ view \in {"inbox", "followup"}
               \/ reader = None /\ view = "inbox" /\ m \in Range(rows)

(*-------------------------------- actions --------------------------------*)
(* reconcileSelection: the cursor keeps its message, else its place.       *)
CursorIn(list) ==
  IF list = <<>> \/ cursor = 0 THEN 0
  ELSE IF rows[cursor] \in Range(list) THEN CHOOSE i \in DOMAIN list : list[i] = rows[cursor]
  ELSE IF list[1] = rows[1] THEN (IF cursor > Len(list) THEN Len(list) ELSE cursor)
  ELSE 1

(* Mutant: a tick outlives its row.                                        *)
ReportedKeepsTicks(list) == /\ rows' = list
                            /\ cursor' = CursorIn(list)
                            /\ ticked' = ticked
Reported(list) == /\ rows' = list
                  /\ cursor' = CursorIn(list)
                  /\ ticked' = ticked \intersect Range(list)

(* The list reports no row as it mounts, and nothing as it goes.           *)
MountedIn(v) == IF v = "inbox" /\ view # "inbox" THEN Reported(<<>>)
                ELSE UNCHANGED <<rows, cursor, ticked>>

(* A page arrives, or the folder's first one: only while the list is up.   *)
Report(list) == /\ view = "inbox" /\ list # rows
                /\ Reported(list)
                /\ last' = Nothing
                /\ UNCHANGED <<now, place, help, reader, chord>>

Select(key) == /\ Action(key) = "select"
               /\ cursor' = MovedTo(Delta(key))
               /\ UNCHANGED <<place, help, reader, rows, ticked>>

Open(key) == /\ Action(key) \in {"open", "step"}
             /\ LET index == IF Action(key) = "open" THEN cursor ELSE MovedTo(Delta(key))
                IN /\ reader' = rows[index]
                   /\ cursor' = IF reader = rows[index] THEN cursor ELSE index
             /\ UNCHANGED <<place, help, rows, ticked>>

CloseReader(key) == /\ Action(key) = "close-reader"
                    /\ reader' = None
                    /\ UNCHANGED <<place, help, rows, cursor, ticked>>

Help(key) == /\ Action(key) \in {"open-help", "close-help"}
             /\ help' = (Action(key) = "open-help")
             /\ UNCHANGED <<place, reader, rows, cursor, ticked>>

Tick(key) == /\ Action(key) = "tick"
             /\ ticked' = IF rows[cursor] \in ticked THEN ticked \ {rows[cursor]}
                                                     ELSE ticked \union {rows[cursor]}
             /\ UNCHANGED <<place, help, reader, rows, cursor>>

(* The rows without those that are moved.                                  *)
Without(list, gone) ==
  LET kept[n \in 0 .. Len(list)] ==
        IF n = 0 THEN <<>>
        ELSE IF list[n] \in gone THEN kept[n - 1] ELSE Append(kept[n - 1], list[n])
  IN kept[Len(list)]

(* moveMessageInHand: a mounted list reports that the rows have gone; a    *)
(* batch is deselected at once.                                            *)
MoveInHand(key) ==
  /\ Action(key) = "move"
  /\ reader' = None
  /\ IF view = "inbox" THEN Reported(Without(rows, Targets))
     ELSE /\ ticked' = IF reader = None THEN ticked \ Targets ELSE ticked
          /\ UNCHANGED <<rows, cursor>>
  /\ UNCHANGED <<place, help>>

GoFolder(key) == /\ Action(key) = "go-folder"
                 /\ view' = "inbox" /\ folder' = FolderOf(key)
                 /\ reader' = None
                 /\ MountedIn("inbox")
                 /\ UNCHANGED <<focus, help>>

Ignore(key) == /\ Action(key) \in {"none", "star"}
               /\ UNCHANGED <<place, help, reader, rows, cursor, ticked>>

Press(key) == /\ \/ Select(key) \/ Open(key) \/ CloseReader(key) \/ Help(key)
                 \/ Tick(key) \/ MoveInHand(key) \/ GoFolder(key) \/ Ignore(key)
              /\ chord' = ChordAfter(key)
              /\ last' = [kind |-> Action(key),
                          unseen |-> IF Action(key) = "move"
                                     THEN {m \in Targets : ~OnScreen(m)} ELSE {}]
              /\ UNCHANGED now

(* The navigation: Opens, Follow-up and Compose take the list's place.     *)
ChangeView(v) == /\ v # view
                 /\ view' = v /\ reader' = None /\ focus' = "page"
                 /\ MountedIn(v)
                 /\ last' = Nothing
                 /\ UNCHANGED <<now, folder, help, chord>>

Focus(f) == /\ f # focus
            /\ focus' = f /\ last' = Nothing
            /\ UNCHANGED <<now, view, folder, help, reader, rows, cursor, ticked, chord>>

Clock == /\ now < MaxNow /\ now' = now + 1
         /\ last' = Nothing
         /\ UNCHANGED <<place, help, reader, rows, cursor, ticked, chord>>

(* The timer that takes the hint away clears the chord; it may be late.    *)
HintTimer == /\ chord # None /\ now - chord > Timeout
             /\ chord' = None /\ last' = Nothing
             /\ UNCHANGED <<now, place, help, reader, rows, cursor, ticked>>

Next == \/ \E list \in Lists : Report(list)
        \/ \E key \in Letters : Press(key)
        \/ \E v \in Views : ChangeView(v)
        \/ \E f \in {"page", "field"} : Focus(f)
        \/ Clock \/ HintTimer
Spec == Init /\ [][Next]_vars

(*------------------------------ properties -------------------------------*)
(* A key only changes the folder as the answer to a "g" pressed within the *)
(* timeout: a forgotten one never turns a later letter into a new folder.  *)
GoIsAnsweredStep ==
  last'.kind = "go-folder" => chord # None /\ now - chord <= Timeout
GoIsAnswered == [][GoIsAnsweredStep]_vars

(* A key only moves messages that are on screen when it is pressed.        *)
OnlyShownIsMoved == last.unseen = {}

(* In the list itself it does: whatever the list became since the row was  *)
(* ticked or the cursor put there, what a key moves is still in it.        *)
ListShowsWhatIsMovedStep == view = "inbox" => last'.unseen = {}
ListShowsWhatIsMoved == [][ListShowsWhatIsMovedStep]_vars

(* The inductive invariant: a ticked message is a row of the last report.  *)
KeysInv == TypeOK /\ ticked \subseteq Range(rows)
==============================================================================
