--------------------------- MODULE PushSubscriptions ---------------------------
(***************************************************************************)
(* The notifications switch of one browser, the table of subscriptions     *)
(* behind it and the dispatcher that sends to every row of it.  Turning on *)
(* asks for permission, reads the key, registers the worker, subscribes    *)
(* and saves the row; turning off unsubscribes and then deletes it.  Every *)
(* step may fail, an answer may be lost, the browser may drop its          *)
(* subscription, and a pass of the dispatcher runs meanwhile.              *)
(***************************************************************************)
EXTENDS Integers

CONSTANTS MaxSub,    \* subscriptions this browser ever creates
          Others,    \* endpoints of other devices, always alive
          Messages,  \* what one pass announces
          MaxPasses, None

VARIABLES vapid,       \* the service has a key pair
          permission,  \* "default", "granted" or "denied"
          sub,         \* the subscription the browser holds, or None
          minted,      \* subscriptions created so far
          rows,        \* endpoints in the table
          switch,      \* the control: [shown, on, busy, failed]
          step,        \* the toggle's next step, or "none"
          endpoint,    \* the subscription the toggle works with, or None
          lookup,      \* of the subscription: "asked" by the mount effect,
                       \* or the last one is "answered", or "failed"
          pass,        \* the dispatcher: None or [to, left, told, missed]
          passes       \* passes begun
vars == <<vapid, permission, sub, minted, rows, switch, step, endpoint,
          lookup, pass, passes>>

Endpoint == (1 .. MaxSub) \union Others
Pair == Endpoint \X Messages
Switch == [shown: BOOLEAN, on: BOOLEAN, busy: BOOLEAN,
           failed: {"none", "turning on", "turning off"}]
Pass == [to: SUBSET Endpoint, left: SUBSET Pair, told: SUBSET Pair,
         missed: SUBSET Pair]

TypeOK ==
  /\ vapid \in BOOLEAN
  /\ permission \in {"default", "granted", "denied"}
  /\ sub \in 1 .. MaxSub \union {None}
  /\ minted \in 0 .. MaxSub
  /\ rows \subseteq Endpoint
  /\ switch \in Switch
  /\ step \in {"none", "ask", "key", "subscribe", "save",
               "unsubscribe", "delete", "reread"}
  /\ endpoint \in 1 .. MaxSub \union {None}
  /\ lookup \in {"asked", "answered", "failed"}
  /\ pass \in Pass \union {None}
  /\ passes \in 0 .. MaxPasses

Alive(e) == e \in Others \/ e = sub

Init ==
  /\ vapid \in BOOLEAN
  /\ permission = "default"
  /\ sub = None /\ minted = 0
  /\ rows = Others
  /\ switch = [shown |-> TRUE, on |-> FALSE, busy |-> FALSE, failed |-> "none"]
  /\ step = "none" /\ endpoint = None
  /\ lookup = "asked"
  /\ pass = None /\ passes = 0

service == <<vapid, rows, pass, passes>>
browser == <<permission, sub, minted>>

(*------------------------------ the switch -------------------------------*)
(* The mount effect: the switch is drawn as the browser's subscription, or *)
(* off where the lookup failed.                                            *)
ReadPushState ==
  /\ lookup = "asked"
  /\ lookup' \in {"answered", "failed"}
  /\ switch' = [switch EXCEPT !.on = (lookup' = "answered" /\ sub # None)]
  /\ UNCHANGED <<service, browser, step, endpoint>>

(* A reload: the page's operation is lost wherever it stood.               *)
Reload ==
  /\ switch' = [shown |-> permission # "denied", on |-> FALSE,
                busy |-> FALSE, failed |-> "none"]
  /\ lookup' = IF permission # "denied" THEN "asked" ELSE "answered"
  /\ step' = "none" /\ endpoint' = None
  /\ UNCHANGED <<service, browser>>

OnToggle ==
  /\ switch.shown /\ ~switch.busy
  /\ switch' = [switch EXCEPT !.busy = TRUE, !.failed = "none"]
  /\ step' = IF switch.on THEN "unsubscribe" ELSE "ask"
  /\ endpoint' = None
  /\ UNCHANGED <<service, browser, lookup>>

Done(on, failed) ==
  /\ switch' = [switch EXCEPT !.busy = FALSE, !.on = on, !.failed = failed]
  /\ step' = "none" /\ endpoint' = None

(* enablePush failed: the switch is re-read from the permission only.      *)
EnableFails ==
  /\ step' = "none" /\ endpoint' = None
  /\ switch' = [switch EXCEPT !.busy = FALSE, !.failed = "turning on",
                              !.shown = (permission' # "denied")]
  /\ lookup' = IF lookup = "asked" /\ permission' = "denied" THEN "answered" ELSE lookup

RequestPermission ==
  /\ step = "ask"
  /\ permission' \in IF permission = "default" THEN {"default", "granted", "denied"}
                                               ELSE {permission}
  /\ IF permission' = "granted"
     THEN step' = "key" /\ UNCHANGED <<switch, endpoint, lookup>>
     ELSE EnableFails
  /\ UNCHANGED <<service, sub, minted>>

GetPublicKey ==
  /\ step = "key"
  /\ UNCHANGED <<service, browser>>
  /\ \/ /\ vapid
        /\ step' = "subscribe"
        /\ UNCHANGED <<switch, endpoint, lookup>>
     \/ EnableFails

(* register() and subscribe(): a browser that is subscribed keeps what it  *)
(* has.                                                                    *)
Subscribe ==
  /\ step = "subscribe"
  /\ UNCHANGED <<service, permission>>
  /\ \/ /\ permission = "granted"
        /\ IF sub # None THEN UNCHANGED <<sub, minted>>
                         ELSE /\ minted < MaxSub
                              /\ minted' = minted + 1
                              /\ sub' = minted'
        /\ endpoint' = sub'
        /\ step' = "save"
        /\ UNCHANGED <<switch, lookup>>
     \/ UNCHANGED <<sub, minted>> /\ EnableFails

(* POST /api/push/subscribe, an upsert; its answer may be lost.            *)
SaveSubscription ==
  /\ step = "save"
  /\ UNCHANGED <<vapid, browser, pass, passes>>
  /\ \/ rows' = rows \union {endpoint} /\ (Done(TRUE, "none") /\ UNCHANGED lookup)
     \/ rows' \in {rows, rows \union {endpoint}} /\ EnableFails

(* Mutant: the row goes first, and the browser is asked afterwards.        *)
UnsubscribeLater(e) ==
  /\ endpoint' = e
  /\ step' = "delete"
  /\ UNCHANGED <<sub, switch>>
(* The browser first; a failure ends the attempt with the subscription.    *)
Unsubscribe(e) ==
  /\ endpoint' = e
  /\ \/ sub' = None /\ step' = "delete" /\ UNCHANGED switch
     \/ step' = "reread" /\ switch' = [switch EXCEPT !.failed = "turning off"]
        /\ UNCHANGED sub

\* The lookup may reject, and nothing is unsubscribed.
DisableBegins ==
  /\ step = "unsubscribe"
  /\ \/ IF sub = None
        THEN step' = "reread" /\ UNCHANGED <<sub, endpoint, switch>>
        ELSE Unsubscribe(sub)
     \/ /\ step' = "reread"
        /\ switch' = [switch EXCEPT !.failed = "turning off"]
        /\ UNCHANGED <<sub, endpoint>>
  /\ UNCHANGED <<service, permission, minted, lookup>>

DeleteSubscription ==
  /\ step = "delete"
  /\ step' = "reread"
  /\ \/ rows' = rows \ {endpoint} /\ UNCHANGED switch
     \/ /\ rows' \in {rows, rows \ {endpoint}}
        /\ switch' = [switch EXCEPT !.failed = "turning off"]
  /\ UNCHANGED <<vapid, pass, passes, browser, endpoint, lookup>>

(* Mutant: a finished switch-off draws the switch off, whatever happened.  *)
RereadForgets == FALSE
Reread == sub # None
DisableEnds ==
  /\ step = "reread"
  /\ \E looked \in {"answered", "failed"} :
       /\ Done(looked = "answered" /\ Reread, switch.failed)
       /\ lookup' = IF lookup = "asked" THEN "asked" ELSE looked
  /\ UNCHANGED <<service, browser>>

(* The browser drops the subscription: permission revoked, data cleared.   *)
DropSubscription ==
  /\ sub # None
  /\ sub' = None
  /\ permission' \in {"default", "denied"}
  /\ UNCHANGED <<service, minted, switch, step, endpoint, lookup>>

(*---------------------------- the dispatcher -----------------------------*)
(* notifyNewMail, notifyOpens: the table is read once for the whole batch. *)
NotifyBegins ==
  /\ vapid /\ pass = None /\ passes < MaxPasses
  /\ rows # {}
  /\ passes' = passes + 1
  /\ pass' = [to |-> rows, left |-> rows \X Messages, told |-> {}, missed |-> {}]
  /\ UNCHANGED <<vapid, rows, browser, switch, step, endpoint, lookup>>

(* Mutant: any refusal of the push service prunes.                         *)
ShouldPruneOnAny(status) == status # "ok"
ShouldPrune(status) == status = "gone"

(* What the push service answers for an endpoint.                          *)
Statuses(e) == IF Alive(e) THEN {"ok", "busy"} ELSE {"gone", "busy"}

(* Mutant: a failed prune ends the pass.                                   *)
AfterPruneStops(left, pruned) == IF pruned = "failed" THEN {} ELSE left
(* A failed prune is logged and the pass goes on.                          *)
AfterPrune(left, pruned) == left

SendPush(pair, status, pruned) ==
  /\ pair \in pass.left
  /\ status \in Statuses(pair[1])
  /\ pruned \in IF ShouldPrune(status) THEN {"done", "failed"} ELSE {"none"}
  /\ rows' = IF pruned = "done" THEN rows \ {pair[1]} ELSE rows
  /\ pass' = [pass EXCEPT
       !.left = AfterPrune(@ \ {pair}, pruned),
       !.told = IF status = "ok" THEN @ \union {pair} ELSE @,
       !.missed = IF status # "ok" THEN @ \union {pair} ELSE @]
  /\ UNCHANGED <<vapid, passes, browser, switch, step, endpoint, lookup>>

NotifyEnds ==
  /\ pass # None /\ pass.left = {}
  /\ pass' = None
  /\ UNCHANGED <<vapid, rows, passes, browser, switch, step, endpoint, lookup>>

Next ==
  \/ ReadPushState \/ Reload \/ OnToggle
  \/ RequestPermission \/ GetPublicKey \/ Subscribe \/ SaveSubscription
  \/ DisableBegins \/ DeleteSubscription \/ DisableEnds
  \/ DropSubscription
  \/ NotifyBegins
  \/ pass # None /\ \E pair \in pass.left, status \in {"ok", "busy", "gone"},
                      pruned \in {"none", "done", "failed"} :
                      SendPush(pair, status, pruned)
  \/ NotifyEnds
Spec == Init /\ [][Next]_vars

(*------------------------------ properties -------------------------------*)
(* No row leaves the table while its subscription is alive: neither a      *)
(* switch-off whose steps fail half-way nor a pass that loaded the table   *)
(* long ago takes a device's row that still wants its notifications.       *)
(* (disablePush, dispatchToAll)                                            *)
RowsOutliveNothingAliveStep == \A e \in rows \ rows' : ~Alive(e)
RowsOutliveNothingAlive == [][RowsOutliveNothingAliveStep]_vars

(* A browser that receives notifications looks switched on, once the page  *)
(* has settled, unless turning it on failed half-way and the failure is on *)
(* screen, or the subscription could not be looked up.  Above all, a       *)
(* switch-off that failed, and was followed by a lookup, leaves the switch *)
(* on.  (PushToggle.onToggle, readPushState)                               *)
SubscribedIsVisible ==
  switch.shown /\ ~switch.busy /\ lookup = "answered" /\ sub # None
    => switch.on \/ switch.failed = "turning on"

(* A dead or slow endpoint costs no other device its notification: when a  *)
(* pass is over, every row it loaded was tried for every message.          *)
(* (dispatchToAll, pruneSubscription)                                      *)
EveryDeviceTried ==
  pass # None /\ pass.left = {} => pass.told \union pass.missed = pass.to \X Messages

(* The inductive invariant: the routes are called with an endpoint this    *)
(* browser had, and what is about to be deleted is no longer its           *)
(* subscription, nor will a later one be it.                               *)
DeletesWhatIsOver ==
  /\ sub \in 1 .. minted \union {None}
  /\ step \in {"save", "delete"} => endpoint \in 1 .. minted
  /\ step = "delete" => endpoint # sub

PushCore == TypeOK /\ DeletesWhatIsOver

(* And, beside that: the switch is busy as long as a toggle is under way,   *)
(* and a pass has every pair before it or behind it.                       *)
BusyWhileStepping == step # "none" => switch.busy
PassIsWhole ==
  pass # None => pass.left \union pass.told \union pass.missed = pass.to \X Messages

PushInv == PushCore /\ BusyWhileStepping /\ SubscribedIsVisible /\ PassIsWhole
================================================================================
