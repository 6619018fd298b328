------------------------------ MODULE OpenTargets ------------------------------
(***************************************************************************)
(* From an open to the message it is about: the client keeps every message *)
(* it has loaded this session, from any folder, and looks the Message-ID   *)
(* of the open up among them.  A message mailed between the user's own     *)
(* accounts is there twice, once in the sender's sent mail.                *)
(***************************************************************************)
EXTENDS FiniteSets

CONSTANTS Accounts, Folders, SentFolders, Uids, Ids, None

VARIABLES mail,    \* what each place of each mailbox holds
          index,   \* the messages the client remembers
          loaded,  \* every message a page ever brought (history)
          opened,  \* the message shown for the last open, or None
          sought   \* the open last clicked: [account, id], or None
vars == <<mail, index, loaded, opened, sought>>

Place == Accounts \X Folders \X Uids
Message == [account: Accounts, folder: Folders, uid: Uids, id: Ids]
At(p) == [account |-> p[1], folder |-> p[2], uid |-> p[3], id |-> mail[p]]

TypeOK ==
  /\ mail \in [Place -> Ids]
  /\ index \subseteq Message
  /\ loaded \subseteq Message
  /\ opened \in Message \union {None}
  /\ sought \in [account: Accounts, id: Ids] \union {None}

Init == /\ mail \in [Place -> Ids]
        /\ index = {} /\ loaded = {}
        /\ opened = None /\ sought = None

(* accountId:uid, without the folder.                                      *)
MessageKey(m) == <<m.account, m.uid>>

(* Mutant: only the page on screen is searched.                            *)
FoldReplaces(known, observed) == observed
(* foldMessageIndex: an observed row replaces the one of the same key.     *)
Fold(known, observed) ==
  observed \union {m \in known : \A o \in observed : MessageKey(o) # MessageKey(m)}

(* The list reports the pages of the folder and account on screen.         *)
LoadPage(account, folder) ==
  LET page == {At(p) : p \in {account} \X {folder} \X Uids}
  IN /\ index' = Fold(index, page)
     /\ loaded' = loaded \union page
     /\ UNCHANGED <<mail, opened, sought>>

LooksLikeSent(folder) == folder \in SentFolders

(* Mutant: the account of the send is not asked for.                       *)
PoolOfAll(event, found) == found
Pool(event, found) ==
  LET same == {m \in found : m.account = event.account}
  IN IF same # {} THEN same ELSE found

(* Which of several equal candidates comes first is the index's order.     *)
Targets(event) ==
  LET found == {m \in index : m.id = event.id}
      sent  == {m \in Pool(event, found) : LooksLikeSent(m.folder)}
  IN IF sent # {} THEN sent ELSE Pool(event, found)

OpenEvent(event) ==
  /\ sought' = event
  /\ IF Targets(event) = {} THEN opened' = None
                            ELSE opened' \in Targets(event)
  /\ UNCHANGED <<mail, index, loaded>>

Next == \/ \E account \in Accounts, folder \in Folders : LoadPage(account, folder)
        \/ \E event \in [account: Accounts, id: Ids] : OpenEvent(event)
Spec == Init /\ [][Next]_vars

(*------------------------------ properties -------------------------------*)
(* A click on an open shows a message of that Message-ID, and the sender's *)
(* own sent copy when the client remembers one: never the recipient's copy *)
(* in another of the user's accounts instead.  (resolveOpenTarget)         *)
OpensTheSentCopyStep ==
  opened' # None /\ <<opened, sought>>' # <<opened, sought>> =>
    /\ opened'.id = sought'.id
    /\ (\E m \in index : /\ m.id = sought'.id
                         /\ m.account = sought'.account
                         /\ LooksLikeSent(m.folder))
       => opened'.account = sought'.account /\ LooksLikeSent(opened'.folder)
OpensTheSentCopy == [][OpensTheSentCopyStep]_vars

(* messageIndex.ts: once a message has been loaded, in any folder, it      *)
(* stays resolvable for the rest of the session.  The code forgets it when *)
(* a message of the same number in another folder is loaded.               *)
OnceLoadedResolvable ==
  \A m \in loaded : \E known \in index : known.id = m.id
================================================================================
