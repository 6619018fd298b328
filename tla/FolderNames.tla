----------------------------- MODULE FolderNames -----------------------------
(***************************************************************************)
(* Which mailbox a folder's name stands for.  The mail server names its    *)
(* mailboxes in the account's language and flags some of them with a       *)
(* special use; the service lists them once per connection, syncs those it *)
(* found, shows a logical folder by the path last found, and moves a       *)
(* message from the path of its row to the path of a logical folder.       *)
(* Spam is left out: it is treated as Trash is.                            *)
(***************************************************************************)
EXTENDS Integers, FiniteSets

CONSTANTS Langs,      \* languages the account may be set to
          MaxTurns,   \* bound: changes made at the mail server
          MaxUid,     \* bound: UIDs the message is given
          None

VARIABLES lang, flagged, turns,  \* the mail server's names and special uses
          at, uid,       \* the mailbox the message is in, and its UID there
          connection,    \* folders found on this connection, or None
          account,       \* folders last found for the account, or None
          rows,          \* rows of the message: <<path, uid>>
          ticket,        \* the undo on offer, or None
          restored       \* history: where the last undo was to put it, or None
vars == <<lang, flagged, turns, at, uid, connection, account, rows, ticket, restored>>
message == <<at, uid, ticket, restored>>
server == <<lang, flagged, turns>>

Uses == {"Sent", "Trash", "Archive", "All"}
Mailboxes == {"INBOX", "Label"} \union Uses
Kinds == {"inbox", "sent", "trash", "archive"}
Path(m) == <<m, IF m = "INBOX" THEN None ELSE lang>>
Paths == {<<m, l>> : m \in Mailboxes, l \in Langs \union {None}}
Folders == [Kinds -> Paths \union {None}]
NoTicket == [path |-> None, uid |-> 0, origin |-> None, home |-> None]

TypeOK ==
  /\ lang \in Langs /\ flagged \subseteq Uses /\ turns \in 0 .. MaxTurns
  /\ at \in Mailboxes /\ uid \in 1 .. MaxUid
  /\ connection \in Folders \union {None} /\ account \in Folders \union {None}
  /\ rows \subseteq Paths \X (1 .. MaxUid)
  /\ ticket.origin \in Kinds \union {None} /\ ticket.home \in Mailboxes \union {None}
  /\ restored \in Mailboxes \union {None}

Init == /\ lang \in Langs /\ flagged \in {Uses, Uses \ {"Archive"}} /\ turns = 0
        /\ at \in {"INBOX", "Sent", "Trash"} /\ uid = 1
        /\ connection = None /\ account = None
        /\ rows = {} /\ ticket = NoTicket /\ restored = None

(*------------------------------- discovery -------------------------------*)
KindOfUse(use) == CASE use = "Sent" -> "sent" [] use = "Trash" -> "trash" [] OTHER -> None

PathOfUse(use) == IF use \in flagged THEN Path(use) ELSE None
(* discoverFolders: what is archived goes to \Archive, and without it to   *)
(* \All; neither is a folder to sync.                                      *)
Discovered ==
  [k \in Kinds |->
     CASE k = "inbox" -> Path("INBOX")
       [] k = "archive" -> IF "Archive" \in flagged THEN Path("Archive") ELSE PathOfUse("All")
       [] OTHER -> PathOfUse(CHOOSE use \in Uses : KindOfUse(use) = k)]

(* Mutant: whatever was discovered is synced.                              *)
SyncedAll(folders) == {folders[k] : k \in Kinds} \ {None}
(* folderSyncOrder.                                                        *)
Synced(folders) == {folders[k] : k \in Kinds \ {"archive"}} \ {None}

(* Mutant: a path nobody discovered is taken for INBOX.                    *)
KindForPathOrInbox(folders, path) ==
  IF \E k \in Kinds : folders[k] = path THEN CHOOSE k \in Kinds : folders[k] = path
  ELSE "inbox"
KindForPath(folders, path) ==
  IF \E k \in Kinds : folders[k] = path THEN CHOOSE k \in Kinds : folders[k] = path
  ELSE None

(* Mutant: the account keeps the folders it first had.                     *)
AccountAfterFirst(folders) == IF account = None THEN folders ELSE account
AccountAfter(folders) == folders

(* A cycle: LIST on a new connection, then every folder it found; a folder *)
(* whose name is gone fails by itself.                                     *)
Cycle == LET folders == IF connection = None THEN Discovered ELSE connection
         IN /\ connection' = folders
            /\ account' = IF connection = None THEN AccountAfter(folders) ELSE account
            /\ rows' = rows \union ({<<Path(at), uid>>} \intersect
                                      (Synced(folders) \X {uid}))
            /\ UNCHANGED <<server, message>>

Reconnect == /\ connection # None /\ connection' = None
             /\ UNCHANGED <<server, message, account, rows>>

(*--------------------------------- views ---------------------------------*)
(* resolveFolderFilter: the path whose rows a logical folder lists.        *)
Listed(kind) == IF kind = "inbox" THEN {Path("INBOX")}
                ELSE IF account = None THEN {} ELSE {account[kind]} \ {None}

(*--------------------------------- moves ---------------------------------*)
Named(path) == \E m \in Mailboxes : Path(m) = path
MailboxOf(path) == CHOOSE m \in Mailboxes : Path(m) = path

(* resolveDestination and moveMessage: refused when the folder was never   *)
(* found or is the one the message is in, and when a name is gone.         *)
Accepted(from, kind) ==
  /\ account # None /\ account[kind] # None
  /\ account[kind] # from /\ KindForPath(account, from) # kind
  /\ Named(from) /\ Named(account[kind])

(* The message is addressed by folder and UID: none may match.             *)
Moved(from, n, kind) == IF Path(at) = from /\ uid = n
                        THEN at' = MailboxOf(account[kind]) /\ uid' = uid + 1
                        ELSE UNCHANGED <<at, uid>>

(* handleMove: the answer carries an undo for a message that came from a   *)
(* folder with a logical name.                                             *)
Move(row, kind) ==
  LET origin == KindForPath(account, row[1])
  IN /\ row \in rows /\ uid < MaxUid
     /\ Accepted(row[1], kind)
     /\ Moved(row[1], row[2], kind)
     /\ rows' = rows \ {row}
     /\ ticket' = IF at' # at /\ origin # None
                  THEN [path |-> account[kind], uid |-> uid', origin |-> origin, home |-> at]
                  ELSE NoTicket
     /\ restored' = IF at' # at THEN None ELSE restored
     /\ UNCHANGED <<server, connection, account>>

Undo == /\ ticket # NoTicket /\ uid < MaxUid
        /\ Accepted(ticket.path, ticket.origin)
        /\ Moved(ticket.path, ticket.uid, ticket.origin)
        /\ rows' = rows \ {<<ticket.path, ticket.uid>>}
        /\ ticket' = NoTicket
        /\ restored' = IF at' # at THEN ticket.home ELSE restored
        /\ UNCHANGED <<server, connection, account>>

(*---------------------------- the mail server ----------------------------*)
Turn == turns < MaxTurns /\ turns' = turns + 1

SetLanguage == /\ Turn /\ \E l \in Langs \ {lang} : lang' = l
               /\ UNCHANGED <<flagged, message, connection, account, rows>>

(* A special use is given or taken away; the mailbox and its mail stay.    *)
Flag(use) == /\ Turn
             /\ flagged' = IF use \in flagged THEN flagged \ {use} ELSE flagged \union {use}
             /\ UNCHANGED <<lang, message, connection, account, rows>>

(* Another mail client moves the message.                                  *)
MoveElsewhere == /\ Turn /\ uid < MaxUid
                 /\ at' \in {"INBOX", "Label", "Trash"} \ {at}
                 /\ uid' = uid + 1 /\ restored' = None
                 /\ UNCHANGED <<lang, flagged, connection, account, rows, ticket>>

Next == \/ Cycle \/ Reconnect \/ Undo \/ SetLanguage \/ MoveElsewhere
        \/ \E row \in rows, kind \in Kinds \ {"inbox", "sent"} : Move(row, kind)
        \/ \E use \in Uses : Flag(use)
Spec == Init /\ [][Next]_vars

(*------------------------------ properties -------------------------------*)
(* An undo puts the message where it was, or is refused: whatever the      *)
(* server's names became since, it never lands in a third folder.          *)
UndoReturnsHome == restored # None => at = restored

(* Every row is of a folder of its own: All Mail holds each message a      *)
(* second time, and no row ever names it.                                  *)
NothingTwice == \A row \in rows : row[1][1] \notin {"All", "Archive"}

(* What a folder lists is what the cycles of the connection sync: a view   *)
(* is never pinned to the names an earlier connection found.               *)
ViewsAreSynced ==
  connection # None => \A kind \in Kinds \ {"archive"} : Listed(kind) \subseteq Synced(connection)

(* The inductive invariant: a folder found under a kind is the mailbox of  *)
(* that use in some language, a row is of a folder that is synced, and the *)
(* kind a ticket names is the use of the mailbox the message was in; so    *)
(* the undo finds that mailbox under whatever name it has by then.         *)
Use(kind) == CASE kind = "inbox" -> "INBOX" [] kind = "sent" -> "Sent" [] OTHER -> "Trash"
Faithful(folders) ==
  /\ folders["inbox"] = <<"INBOX", None>>
  /\ \A kind \in Kinds \ {"archive"} : folders[kind] # None => folders[kind][1] = Use(kind)
  /\ folders["archive"] # None => folders["archive"][1] \in {"Archive", "All"}

FoldersAreFaithful ==
  /\ account # None => Faithful(account)
  /\ connection # None => account = connection
RowsAreSynced == \A row \in rows : row[1][1] \in {"INBOX", "Sent", "Trash"}
TicketNamesHome ==
  ticket # NoTicket => ticket.origin \in Kinds \ {"archive"} /\ ticket.home = Use(ticket.origin)

NamesInv == TypeOK /\ FoldersAreFaithful /\ RowsAreSynced /\ TicketNamesHome /\ UndoReturnsHome
==============================================================================
