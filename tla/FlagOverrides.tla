---------------------------- MODULE FlagOverrides ----------------------------
(***************************************************************************)
(* The optimistic layer over \Seen and \Flagged of the web client.  A row  *)
(* is drawn with the override of its flag when there is one and with the   *)
(* flags its page came with otherwise.  Opening a message, starring it and *)
(* marking a selection read or unread set overrides at once and send one   *)
(* write per message; a failed write DELETES the override.  The two maps   *)
(* work alike and never meet, so `field' picks the one that is looked at.  *)
(***************************************************************************)
EXTENDS Integers, Sequences

CONSTANTS Msgs,       \* messages of the list
          MaxCalls,   \* bound: user actions that send a write
          None        \* no override

VARIABLES field,      \* the flag of this behaviour
          mailbox,    \* message -> the flag in the mailbox
          page,       \* message -> the flag in the page the list fetched
          override,   \* message -> what this app set, or None
          calls,      \* call number -> its value, keys still out, keys failed
          agreed,     \* history: <<m, v>> the server accepted
          wanted      \* history: message -> what the reader last asked for
vars == <<field, mailbox, page, override, calls, agreed, wanted>>

Call == [value: BOOLEAN, out: SUBSET Msgs, failed: SUBSET Msgs, over: BOOLEAN]

TypeOK ==
  /\ field \in {"seen", "flagged"}
  /\ mailbox \in [Msgs -> BOOLEAN]
  /\ page \in [Msgs -> BOOLEAN]
  /\ override \in [Msgs -> BOOLEAN \union {None}]
  /\ calls \in Seq(Call) /\ Len(calls) <= MaxCalls
  /\ agreed \subseteq Msgs \X BOOLEAN
  /\ wanted \in [Msgs -> BOOLEAN \union {None}]

(* resolveStar, resolveUnread: the override decides, absent means no       *)
(* opinion.                                                                *)
Drawn(m) == IF override[m] = None THEN page[m] ELSE override[m]

WithOverrides(keys, v) ==
  [m \in Msgs |-> IF m \in keys THEN v ELSE override[m]]
(* Mutant: a failed write flips the entry instead of dropping it.          *)
FlippedOverrides(keys) ==
  [m \in Msgs |-> IF m \in keys /\ override[m] # None
                    THEN ~override[m] ELSE override[m]]
WithoutOverrides(keys) == WithOverrides(keys, None)

Init ==
  /\ field \in {"seen", "flagged"}
  /\ mailbox \in [Msgs -> BOOLEAN]
  /\ page = mailbox
  /\ override = [m \in Msgs |-> None]
  /\ calls = << >>
  /\ agreed = {}
  /\ wanted = [m \in Msgs |-> None]

(* Overrides are set and the writes go out in one step.                    *)
Send(keys, v) ==
  /\ Len(calls) < MaxCalls
  /\ override' = WithOverrides(keys, v)
  /\ calls' = Append(calls, [value |-> v, out |-> keys, failed |-> {},
                             over |-> FALSE])
  /\ UNCHANGED <<field, mailbox, page, agreed>>

(* openMessage, markReadOnOpen: a message drawn as read sends nothing.     *)
OpenMessage(m) ==
  /\ field = "seen"
  /\ ~Drawn(m)
  /\ Send({m}, TRUE)
  /\ wanted' = [wanted EXCEPT ![m] = TRUE]

(* Mutant: the opposite of what the page says.                             *)
NextStarOfPage(m) == ~page[m]
(* What the star key asks for: the opposite of what is drawn.              *)
NextStar(m) == ~Drawn(m)

ToggleStar(m) ==
  /\ field = "flagged"
  /\ Send({m}, NextStar(m))
  /\ wanted' = [wanted EXCEPT ![m] = ~Drawn(m)]

(* markSeen: one call per bulk action, one request per selected message.   *)
(* Its ticks and the generation it takes are MailboxMoves!MarkSeen's.      *)
MarkSeen(keys, v) ==
  /\ field = "seen"
  /\ keys # {}
  /\ Send(keys, v)
  /\ wanted' = [m \in Msgs |-> IF m \in keys THEN v ELSE wanted[m]]

(* PATCH .../flags of one message: applied and answered, applied with the  *)
(* answer lost, or refused.  Requests are answered in any order.           *)
Request(c, m, applied, ok) ==
  /\ m \in calls[c].out
  /\ ok => applied
  /\ mailbox' = IF applied THEN [mailbox EXCEPT ![m] = calls[c].value]
                           ELSE mailbox
  /\ agreed' = IF applied THEN agreed \union {<<m, calls[c].value>>}
                          ELSE agreed
  /\ calls' = [calls EXCEPT ![c].out = @ \ {m},
                            ![c].failed = IF ok THEN @ ELSE @ \union {m}]
  /\ UNCHANGED <<field, page, override, wanted>>

(* The call's last answer is in: what failed loses its override, whatever  *)
(* happened to the selection or the folder since.                          *)
Settle(c) ==
  /\ calls[c].out = {}
  /\ ~calls[c].over
  /\ calls' = [calls EXCEPT ![c].over = TRUE]
  /\ override' = WithoutOverrides(calls[c].failed)
  /\ UNCHANGED <<field, mailbox, page, agreed, wanted>>

(* The first page is fetched again.                                        *)
Reload == /\ page' = mailbox
          /\ UNCHANGED <<field, mailbox, override, calls, agreed, wanted>>

OtherClient(m) ==
  /\ mailbox' = [mailbox EXCEPT ![m] = ~@]
  /\ UNCHANGED <<field, page, override, calls, agreed, wanted>>

Next ==
  \/ \E m \in Msgs : OpenMessage(m) \/ ToggleStar(m) \/ OtherClient(m)
  \/ \E keys \in SUBSET Msgs, v \in BOOLEAN : MarkSeen(keys, v)
  \/ \E c \in DOMAIN calls : Settle(c)
  \/ \E c \in DOMAIN calls, m \in Msgs, applied, ok \in BOOLEAN :
       Request(c, m, applied, ok)
  \/ Reload

Spec == Init /\ [][Next]_vars

AtRest == \A c \in DOMAIN calls : calls[c].over

(* At rest an override stands only for a value some write of which the     *)
(* server accepted (messageFlags.ts: "this app changed this flag and the   *)
(* server agreed"), whatever the order of answers and failures.            *)
OverrideIsConfirmed ==
  AtRest => \A m \in Msgs :
    override[m] = None \/ <<m, override[m]>> \in agreed

(* When no write failed, every message is drawn as the reader last asked,  *)
(* in flight and at rest, however stale the page is.                       *)
ShowsLastIntent ==
  (\A c \in DOMAIN calls : calls[c].failed = {}) =>
    \A m \in Msgs : wanted[m] = None \/ Drawn(m) = wanted[m]

(* The inductive invariant: an override is of a value that the server has  *)
(* accepted or that a call not yet settled may still see accepted or drop; *)
(* and until a write fails what the reader asked for is the override, for  *)
(* the page may be as stale as it likes.                                   *)
Awaits(c, m) == ~c.over /\ m \in c.out \union c.failed
OverridesAreAnswered ==
  \A m \in Msgs : override[m] # None =>
    \/ <<m, override[m]>> \in agreed
    \/ \E c \in DOMAIN calls : Awaits(calls[c], m) /\ calls[c].value = override[m]
IntentIsOverride ==
  (\A c \in DOMAIN calls : calls[c].failed = {}) =>
    \A m \in Msgs : wanted[m] = None \/ override[m] = wanted[m]

OverridesInv == TypeOK /\ OverridesAreAnswered /\ IntentIsOverride
=============================================================================
