----------------------------- MODULE NewMailPush -----------------------------
(***************************************************************************)
(* From new mail and opens to notices on the devices.  A cycle starts a    *)
(* dispatch and does not wait for it, so dispatches overlap, those of one  *)
(* account too; each sends its messages in order, every one to all devices *)
(* of the table as it was read once.  A notice carries a tag and takes the *)
(* place of the one with the same tag; clicking it shows a view.           *)
(*                                                                         *)
(* A piece of news is a number: its place in the order of arrival, which   *)
(* is the order of UIDs within an account and of hits within a token.  The *)
(* push services are external: a message shows at once, or never.          *)
(***************************************************************************)
EXTENDS Integers, Sequences, FiniteSets

CONSTANTS Accounts, Threads, Tokens,   \* each mailbox numbers its own threads
          NoThread,
          Short,      \* accounts whose id leaves the tag room for its number
          Subscribers,
          SanityWindow,       \* NEW_MAIL_SANITY_WINDOW_MS, in ticks
          MaxNews, MaxBatch,  \* bounds
          None

VARIABLES news,     \* what was found worth telling so far, in order
          table,    \* devices with a subscription
          chains,   \* dispatches under way
          told,     \* device -> news it showed
          screen,   \* device -> the notices on it: news, one for each tag
          clicked,  \* device -> news whose notice was clicked
          view,     \* device -> [shown, of] since the last click, or None
          mixed     \* history: accounts that had two dispatches at once
vars == <<news, table, chains, told, screen, clicked, view, mixed>>
device == <<told, screen, clicked, view>>

(* A message's age is what its Date header says, if it has one.            *)
Mail == [thread: Threads \union {NoThread}, age: (0 .. SanityWindow + 1) \union {None}]
Open == [token: Tokens, classification: {"open", "prefetch"},
         device: BOOLEAN, own: BOOLEAN]
MailItem == [kind: {"mail"}, account: Accounts, thread: Threads \union {NoThread}]
OpenItem == [kind: {"open"}, token: Tokens]
Chain == [of: Accounts \union {"opens"}, todo: Seq(1 .. MaxNews),
          subs: (SUBSET Subscribers) \union {None}, left: SUBSET Subscribers]
News == 1 .. Len(news)

TypeOK ==
  /\ news \in Seq(MailItem \union OpenItem) /\ Len(news) <= MaxNews
  /\ table \subseteq Subscribers /\ chains \subseteq Chain
  /\ {told, screen, clicked} \subseteq [Subscribers -> SUBSET News]
  /\ view \in [Subscribers -> [shown: {"inbox", "opens"}, of: News] \union {None}]
  /\ mixed \subseteq Accounts

Init ==
  /\ news = << >> /\ chains = {} /\ mixed = {}
  /\ table \in SUBSET Subscribers
  /\ told = [d \in Subscribers |-> {}] /\ screen = told /\ clicked = told
  /\ view = [d \in Subscribers |-> None]

(*---------------------------- what is notified ---------------------------*)
(* isRecentEnough: without a date there is no telling.                     *)
IsRecentEnough(m) == m.age # None /\ m.age <= SanityWindow

(* shouldNotifyOpen: a person's open, from a client that said what it is,  *)
(* of mail to somebody else.                                               *)
ShouldNotifyOpen(e) == e.classification = "open" /\ e.device /\ ~e.own

(* Mutant: an unthreaded message is tagged like a thread.                  *)
TagOfThread(i) ==
  IF news[i].kind = "open" THEN <<"open", news[i].token>>
  ELSE <<"thread", news[i].account, news[i].thread>>
(* Mutant: threads of all accounts share the tag.                          *)
TagWithoutAccount(i) ==
  IF news[i].kind = "open" THEN <<"open", news[i].token>>
  ELSE IF news[i].thread # NoThread THEN <<"thread", news[i].thread>>
  ELSE <<"mail", news[i].account, i>>
(* buildMailNotification, buildOpenNotification.                           *)
FullTag(i) ==
  IF news[i].kind = "open" THEN <<"open", news[i].token>>
  ELSE IF news[i].thread # NoThread
       THEN <<"thread", news[i].account, news[i].thread>>
       ELSE <<"mail", news[i].account, i>>

(* boundPayload: a tag that is too long loses its end, which is the number.*)
Tag(i) == IF news[i].kind = "mail" /\ news[i].account \notin Short
          THEN <<FullTag(i)[1], FullTag(i)[2]>> ELSE FullTag(i)

(*------------------------------ dispatching ------------------------------*)
(* A dispatch of news worth telling, if there is any.                      *)
Begin(of, items) ==
  /\ Len(news) + Len(items) <= MaxNews
  /\ news' = news \o items
  /\ chains' = IF items = << >> THEN chains ELSE chains \union
       {[of |-> of, subs |-> None, left |-> {},
         todo |-> [k \in 1 .. Len(items) |-> Len(news) + k]]}
  /\ mixed' = IF of \in Accounts /\ items # << >> /\ \E c \in chains : c.of = of
              THEN mixed \union {of} ELSE mixed
  /\ UNCHANGED <<table, device>>

(* What a batch has at these places, in its order.                         *)
At(batch, places) ==
  LET kept[k \in 0 .. Len(batch)] ==
        IF k = 0 THEN << >>
        ELSE IF k \in places THEN Append(kept[k - 1], batch[k]) ELSE kept[k - 1]
  IN kept[Len(batch)]

(* dispatchNewMessages, notifyNewMail: a cycle's new messages, detached.   *)
NotifyNewMail(account, batch) ==
  LET worthy == At(batch, {k \in DOMAIN batch : IsRecentEnough(batch[k])})
  IN /\ batch # << >>
     /\ Begin(account, [k \in DOMAIN worthy |->
          [kind |-> "mail", account |-> account, thread |-> worthy[k].thread]])

(* notifyOpens: one poll at a time (OpensPoll).                            *)
NotifyOpens(batch) ==
  LET worthy == At(batch, {k \in DOMAIN batch : ShouldNotifyOpen(batch[k])})
  IN /\ \A c \in chains : c.of # "opens"
     /\ Begin("opens", [k \in DOMAIN worthy |->
          [kind |-> "open", token |-> worthy[k].token]])

(* loadSubscriptions: read once for the batch; if there are none, or the   *)
(* read fails, the news is told to nobody.                                 *)
LoadSubscriptions(c, ok) ==
  /\ c.subs = None
  /\ chains' = (chains \ {c}) \union
       (IF ok /\ table # {} THEN {[c EXCEPT !.subs = table, !.left = table]} ELSE {})
  /\ UNCHANGED <<news, table, device, mixed>>

(* The next message once a message has been to every device.               *)
After(c, d) ==
  LET rest == c.left \ {d}
  IN IF rest # {} THEN {[c EXCEPT !.left = rest]}
     ELSE IF Len(c.todo) = 1 THEN {}
     ELSE {[c EXCEPT !.todo = Tail(@), !.left = c.subs]}

(* Mutant: the tag is lost on the way, and notices pile up.                *)
ShowUntagged(d, i) ==
  /\ screen' = [screen EXCEPT ![d] = @ \union {i}]
  /\ told' = [told EXCEPT ![d] = @ \union {i}]
  /\ UNCHANGED <<clicked, view>>
(* showFromPush: a notice replaces the one with its tag.                   *)
Show(d, i) ==
  /\ screen' = [screen EXCEPT ![d] = {j \in @ : Tag(j) # Tag(i)} \union {i}]
  /\ told' = [told EXCEPT ![d] = @ \union {i}]
  /\ UNCHANGED <<clicked, view>>

(* sendPush and what becomes of it: it is shown, or not, and an answer     *)
(* that never came says neither; a device that is gone is pruned, or is    *)
(* not if the delete fails.  The order of the rows is the database's.      *)
SendPush(c, d, outcome) ==
  /\ c.subs # None /\ d \in c.left
  /\ chains' = (chains \ {c}) \union After(c, d)
  /\ IF outcome = "shown" THEN Show(d, Head(c.todo)) ELSE UNCHANGED device
  /\ table' \in IF outcome = "gone" THEN {table, table \ {d}} ELSE {table}
  /\ UNCHANGED <<news, mixed>>

(*------------------------------ the devices ------------------------------*)
(* OPENS_URL, INBOX_URL.                                                   *)
Url(i) == IF news[i].kind = "open" THEN <<"/", "?rail=opens">> ELSE <<"/", "">>

(* Mutant: the query of the address is dropped.                            *)
SameOriginPathOnly(url) == <<url[1], "">>
SameOriginPath(url) == url

InitialViewFromSearch(search) == IF search = "?rail=opens" THEN "opens" ELSE "inbox"

(* openApp: a window that is up is sent to the address, and keeps what it  *)
(* shows if it will not go; otherwise one is opened there.                 *)
NotificationClick(d, i, goes) ==
  /\ i \in screen[d]
  /\ screen' = [screen EXCEPT ![d] = @ \ {i}]
  /\ clicked' = [clicked EXCEPT ![d] = @ \union {i}]
  /\ view' = IF view[d] # None /\ ~goes THEN view
             ELSE [view EXCEPT ![d] =
               [shown |-> InitialViewFromSearch(SameOriginPath(Url(i))[2]), of |-> i]]
  /\ UNCHANGED <<news, table, chains, told, mixed>>

(* A device is turned on (PushSubscriptions has the rest of its switch).   *)
Subscribe(d) ==
  /\ d \notin table
  /\ table' = table \union {d}
  /\ UNCHANGED <<news, chains, device, mixed>>

Next ==
  \/ \E account \in Accounts, n \in 0 .. MaxBatch : \E batch \in [1 .. n -> Mail] :
       NotifyNewMail(account, batch)
  \/ \E open \in Open : NotifyOpens(<<open>>)
  \/ \E c \in chains :
       \/ \E ok \in BOOLEAN : LoadSubscriptions(c, ok)
       \/ \E d \in c.left, outcome \in {"shown", "lost", "gone"} : SendPush(c, d, outcome)
  \/ \E d \in Subscribers :
       \/ Subscribe(d)
       \/ \E i \in screen[d], goes \in BOOLEAN : NotificationClick(d, i, goes)
Spec == Init /\ [][Next]_vars

(*------------------------------ properties -------------------------------*)
(* What a conversation is to its reader.                                   *)
Same(i, j) ==
  \/ i = j
  \/ /\ news[i].kind = "open" /\ news[j].kind = "open"
     /\ news[i].token = news[j].token
  \/ /\ news[i].kind = "mail" /\ news[j].kind = "mail"
     /\ news[i].account = news[j].account
     /\ news[i].thread = news[j].thread /\ news[i].thread # NoThread

(* News that was shown is still there, or gave way to its own conversation *)
(* or to a click on that: no notice is replaced by an unrelated one, be it *)
(* of another account's thread of the same number. (buildMailNotification) *)
NothingIsHidden ==
  \A d \in Subscribers : \A i \in told[d] :
    news[i].kind = "open" \/ news[i].account \in Short =>
      \E j \in screen[d] \union clicked[d] : Same(i, j)

(* "The newest replaces the older ones" (buildMailNotification), as long   *)
(* as no two dispatches of the account overlapped.                         *)
NewestStays ==
  \A d \in Subscribers : \A j \in screen[d] : \A i \in told[d] :
    (Same(i, j) /\ news[j].kind = "mail" /\ news[j].account \notin mixed) => i <= j

(* The same, however slow the push service: not so, since a cycle does not *)
(* wait for the dispatch of the one before it.                             *)
NewestAlwaysStays ==
  \A d \in Subscribers : \A j \in screen[d] : \A i \in told[d] :
    (Same(i, j) /\ news[j].kind = "mail") => i <= j

(* A click shows the view its notice spoke of. (openApp,                   *)
(* initialViewFromSearch)                                                  *)
ClickLands ==
  \A d \in Subscribers : view[d] # None =>
    (view[d].shown = "opens" <=> news[view[d].of].kind = "open")

(* The inductive invariant: what is or was shown is news that was told; a  *)
(* dispatch has the news of its account before it, in order; an account    *)
(* that never had two dispatches has at most one, and nothing it has told  *)
(* is newer than what that one has before it.                              *)
ShownWasTold ==
  \A d \in Subscribers : screen[d] \union clicked[d] \subseteq told[d]
ChainsAreOrdered ==
  \A c \in chains :
    /\ c.todo # << >>
    /\ \A k \in DOMAIN c.todo :
         /\ c.todo[k] \in News
         /\ \A l \in DOMAIN c.todo : k < l => c.todo[k] < c.todo[l]
         /\ news[c.todo[k]].kind = (IF c.of = "opens" THEN "open" ELSE "mail")
         /\ c.of # "opens" => news[c.todo[k]].account = c.of
AloneUnlessMixed ==
  \A c, e \in chains : c.of = e.of /\ c.of \notin mixed \union {"opens"} => c = e
NothingIsAhead ==
  \A c \in chains, d \in Subscribers : c.of \notin mixed \union {"opens"} =>
    \A i \in told[d] : news[i].kind = "mail" /\ news[i].account = c.of =>
      \A k \in DOMAIN c.todo : i <= c.todo[k]

NoticesInv ==
  /\ TypeOK /\ ShownWasTold /\ ChainsAreOrdered /\ AloneUnlessMixed /\ NothingIsAhead
  /\ NothingIsHidden /\ NewestStays /\ ClickLands
=============================================================================
