---------------------------- MODULE MailboxMoves ----------------------------
(***************************************************************************)
(* The browser's mailbox: archiving, undoing and bulk actions over an      *)
(* optimistic overlay (App.tsx, useBulkSelection.ts, bulkActions.ts,       *)
(* bulkRunner.ts, bulkSelection.ts, mailboxActions.ts).  A row is hidden   *)
(* when the key is pressed; the answers of the requests decide which hides *)
(* stand.  A request is served and answered in two steps, so requests of   *)
(* several batches, the undo bars, the reader, a folder switch, another    *)
(* mail client and the store's sync interleave freely.                     *)
(*                                                                         *)
(* A key is <<m, v>>: message m under its v-th UID.  A move back gives the *)
(* message a new UID, so <<m, 0>> names nothing once m came back.          *)
(***************************************************************************)
EXTENDS Naturals, Sequences, FiniteSets, Functions

CONSTANTS
  Msgs,        \* messages
  Sent,        \* those that live in the Sent folder, the others in INBOX
  Trials,      \* the mailboxes tried: [thread: [Msgs -> thread], limit: how
               \* many requests of a batch are out at once]
  MaxVer,      \* bound: UIDs a message can be given
  MaxOps,      \* bound: user actions that send requests
  None

Home == <<"home">>
Elsewhere == <<"elsewhere">>
Keys == Msgs \X (0 .. MaxVer)
Folders == {"inbox", "sent"}
Kinds == {"one", "bulk", "undoOne", "undoBulk", "seen", "over"}
Forward == {"one", "bulk"}

VARIABLES
  where,      \* server: Home, Elsewhere, or the key m left INBOX under
  ver,        \* server: the version of m's UID in its home folder
  tickets,    \* server: keys for which an undo ticket was issued
  stored,     \* server: keys with a row in the store
  view,       \* the folder on screen
  rows,       \* InboxList's messages: the keys of the pages loaded
  hidden,     \* hiddenKeys: the optimistic overlay
  ticks,      \* selectedKeys
  reader,     \* the open message, or None
  offer,      \* pendingUndo: key of the message moved last, or None
  bulkOffer,  \* the bulk undo bar: [id, undos], or None
  gen,        \* generationRef
  mounted,    \* the app is on screen
  ops,        \* the requests of each action, in the order they were started
  trial       \* the mailbox of this behaviour, one of Trials

server == <<where, ver, tickets, stored>>
screen == <<view, rows, reader>>
vars == <<server, screen, hidden, ticks, offer, bulkOffer, gen, mounted, ops, trial>>

\* What the server calls one conversation, and MAX_CONCURRENT_BULK_REQUESTS.
Thread == trial.thread
Limit == trial.limit

-----------------------------------------------------------------------------
(* What the list makes of its rows *)

\* visibleMessages: rows are filtered at render, never thrown away.
Visible == rows \ hidden

\* canMoveFrom, and canBulkSelect, which is the same predicate.
CanMoveFrom(k) == k[1] \notin Sent

\* groupIntoConversations: every visible row of k's thread.
Members(k) == {j \in Visible : Thread[j[1]] = Thread[k[1]]}

\* folderMembershipFor: in the inbox a conversation acts on its inbox members only.
IsFolderMember(k) == view = "inbox" => CanMoveFrom(k)

\* membersByMessageKey, expandConversation: what a row stands for.
Expand(k) == {j \in Members(k) : IsFolderMember(j)}

\* allMessagesOf
Actionable == {k \in Visible : IsFolderMember(k)}

\* The messages a row can be drawn for: an actionable member when there is one.
Representatives == {k \in Visible : k \in Actionable \/ Expand(k) = {}}

\* toggleGroupSelection: ticked as a whole or not at all.
ToggleGroup(selected, group) ==
  IF group \subseteq selected THEN selected \ group ELSE selected \cup group

\* selectableKeys
SelectableKeys == {k \in Actionable : \A j \in Expand(k) : CanMoveFrom(j)}

\* pruneSelection, run by an effect after every render that changed the list.
Pruned(selected) == selected \cap Actionable

-----------------------------------------------------------------------------
(* Batches: runBoundedBatch *)

\* Mutant: a worker that does not look at the signal.
ClaimAnyway(op) ==
  LET n == IF op.todo = <<>> THEN 0 ELSE 1
  IN [op EXCEPT !.todo = SubSeq(@, n + 1, Len(@)),
                !.flight = [k \in {op.todo[i] : i \in 1 .. n} \cup DOMAIN @ |->
                              IF k \in DOMAIN @ THEN @[k] ELSE "sent"]]

\* Workers claim slots until Limit requests are out; after an abort every slot
\* not yet sent is "skipped".
Claim(op) ==
  IF op.aborted
  THEN [op EXCEPT !.failed = @ \cup Range(op.todo), !.todo = <<>>]
  ELSE LET free == Limit - Cardinality(DOMAIN op.flight)
           n == IF Len(op.todo) < free THEN Len(op.todo) ELSE free
           sent == {op.todo[i] : i \in 1 .. n}
       IN [op EXCEPT !.todo = SubSeq(@, n + 1, Len(@)),
                     !.flight = [k \in sent \cup DOMAIN op.flight |->
                                   IF k \in sent THEN "sent" ELSE op.flight[k]]]

(* The keys of a batch, in the order they were ticked: any.                *)
InOrder(keys) == CHOOSE s \in Bijection(1 .. Cardinality(keys), keys) : TRUE

NewOp(kind, keys, id) ==
  Claim([kind |-> kind, todo |-> InOrder(keys), flight |-> <<>>, keys |-> keys,
         done |-> {}, failed |-> {}, undos |-> {}, gen |-> id, aborted |-> FALSE])

Finished(op) == op.todo = <<>> /\ DOMAIN op.flight = {}

\* A settled batch is forgotten but for its number: its report was applied.
Over(op) == [kind |-> "over", todo |-> <<>>, flight |-> <<>>, keys |-> {},
             done |-> {}, failed |-> {}, undos |-> {}, gen |-> op.gen, aborted |-> FALSE]
Begin(kind, keys, id) == ops' = Append(ops, NewOp(kind, keys, id))
MayBegin == mounted /\ Len(ops) < MaxOps

-----------------------------------------------------------------------------
Init ==
  /\ where = [m \in Msgs |-> Home] /\ ver = [m \in Msgs |-> 0]
  /\ tickets = {} /\ stored = {<<m, 0>> : m \in Msgs}
  /\ view = "inbox" /\ rows = {} /\ reader = None
  /\ hidden = {} /\ ticks = {} /\ offer = None /\ bulkOffer = None
  /\ gen = 0 /\ mounted = TRUE /\ ops = <<>>
  /\ trial \in Trials

(* The list and the reader *)

\* A first page of the view arrives and replaces the rows.  A conversation
\* comes with its members from every folder.
LoadPage ==
  /\ mounted
  /\ LET here == {m \in Msgs : (m \in Sent) <=> (view = "sent")}
     IN rows' = {k \in stored : \E m \in here : /\ Thread[m] = Thread[k[1]]
                                                /\ \E v \in 0 .. MaxVer : <<m, v>> \in stored}
  /\ rows' # rows
  /\ UNCHANGED <<server, view, reader, hidden, offer, bulkOffer, gen, mounted, ops>>
  /\ ticks' = ticks \cap Actionable'

\* changeFolder: the reader closes at once; the old rows stay until the page arrives.
ChangeFolder ==
  /\ mounted
  /\ view' \in Folders \ {view} /\ reader' = None
  /\ UNCHANGED <<server, rows, hidden, offer, bulkOffer, gen, mounted, ops>>
  /\ ticks' = ticks \cap Actionable'

OpenMessage ==
  /\ mounted
  /\ \E k \in Representatives : reader # k /\ reader' = k
  /\ UNCHANGED <<server, view, rows, hidden, ticks, offer, bulkOffer, gen, mounted, ops>>

CloseMessage ==
  /\ mounted /\ reader # None /\ reader' = None
  /\ UNCHANGED <<server, view, rows, hidden, ticks, offer, bulkOffer, gen, mounted, ops>>

-----------------------------------------------------------------------------
(* Selection *)

\* `x` or the box: the whole conversation, refused when a member cannot be moved.
Toggle ==
  /\ mounted /\ reader = None
  /\ \E k \in Representatives :
       /\ \A j \in Expand(k) : CanMoveFrom(j)
       /\ ticks' = ToggleGroup(ticks, Expand(k))
  /\ UNCHANGED <<server, screen, hidden, offer, bulkOffer, gen, mounted, ops>>

SelectAllVisible ==
  /\ mounted /\ reader = None /\ ticks # {}
  /\ ticks' = SelectableKeys
  /\ UNCHANGED <<server, screen, hidden, offer, bulkOffer, gen, mounted, ops>>

ClearSelection ==
  /\ mounted /\ reader = None /\ ticks # {} /\ ticks' = {}
  /\ UNCHANGED <<server, screen, hidden, offer, bulkOffer, gen, mounted, ops>>

-----------------------------------------------------------------------------
(* Moves *)

\* performMove: one message, refused outside the inbox.  It has no generation.
PerformMove(k) ==
  /\ CanMoveFrom(k)
  /\ offer' = None /\ bulkOffer' = None
  /\ hidden' = hidden \cup {k}
  /\ Begin("one", {k}, 0)
  /\ UNCHANGED <<server, screen, gen, mounted>>
  /\ ticks' = ticks \cap Actionable'

\* moveMessages: hide, untick, start a batch of a new generation.
MoveMessages(batch) ==
  /\ batch # {}
  /\ offer' = None /\ bulkOffer' = None
  /\ hidden' = hidden \cup batch
  /\ gen' = gen + 1
  /\ Begin("bulk", batch, gen + 1)
  /\ UNCHANGED <<server, screen, mounted>>
  /\ ticks' = (ticks \ batch) \cap Actionable'

\* `e` in the reader, or its buttons: the open message only.
MoveFromReader == MayBegin /\ reader # None /\ PerformMove(reader)

\* The bar's buttons, or `e` with rows ticked.
MoveSelection == MayBegin /\ reader = None /\ MoveMessages(ticks)

\* `e` on the row under the cursor with nothing ticked, or a row's own buttons:
\* a row stands for its conversation.
MoveRow ==
  /\ MayBegin /\ reader = None
  /\ \E k \in Representatives :
       IF Cardinality(Expand(k)) > 1 THEN MoveMessages(Expand(k)) ELSE PerformMove(k)

\* undoMove
UndoMove ==
  /\ MayBegin /\ offer # None
  /\ offer' = None
  /\ Begin("undoOne", {offer}, 0)
  /\ UNCHANGED <<server, screen, hidden, ticks, bulkOffer, gen, mounted>>

\* runUndo: only what the server issued a ticket for.
RunUndo ==
  /\ MayBegin /\ bulkOffer # None /\ bulkOffer.undos # {}
  /\ bulkOffer' = None /\ gen' = gen + 1
  /\ Begin("undoBulk", bulkOffer.undos, gen + 1)
  /\ UNCHANGED <<server, screen, hidden, ticks, offer, mounted>>

\* markSeen, its half on the bars: it takes a generation of its own, as a move
\* does, and leaves the bar of the last move up.  Its overrides and its requests
\* are FlagOverrides'.
MarkSeen ==
  /\ MayBegin /\ reader = None /\ ticks # {}
  /\ gen' = gen + 1
  /\ Begin("seen", {}, gen + 1)
  /\ ticks' = {}
  /\ UNCHANGED <<server, screen, hidden, offer, bulkOffer, mounted>>

\* UNDO_WINDOW_MS is over, or the bar was dismissed: the offer goes, the move stands.
ExpireUndo ==
  /\ mounted
  /\ \/ offer # None /\ offer' = None /\ UNCHANGED bulkOffer
     \/ bulkOffer # None /\ bulkOffer' = None /\ UNCHANGED offer
  /\ UNCHANGED <<server, screen, hidden, ticks, gen, mounted, ops>>

\* The tab closes or React unmounts the tree: batches send nothing more.
Unmount ==
  /\ mounted /\ mounted' = FALSE
  /\ ops' = [i \in DOMAIN ops |-> IF ops[i].kind \in {"bulk", "undoBulk"} /\ ~Finished(ops[i])
                                  THEN [ops[i] EXCEPT !.aborted = TRUE] ELSE ops[i]]
  /\ UNCHANGED <<server, screen, hidden, ticks, offer, bulkOffer, gen>>

-----------------------------------------------------------------------------
(* The service, the mailbox and the network *)

Serve(i, k, outcome) == ops' = [ops EXCEPT ![i].flight[k] = outcome]
Live(k) == where[k[1]] = Home /\ ver[k[1]] = k[2]

\* POST .../move, forward: moved with or without a ticket, or already gone.
ServeMove(i, k) ==
  /\ ops[i].kind \in Forward
  /\ \/ /\ Live(k)
        /\ where' = [where EXCEPT ![k[1]] = k]
        /\ \/ Serve(i, k, "moved") /\ tickets' = tickets \cup {k}
           \/ Serve(i, k, "unnamed") /\ UNCHANGED tickets
     \/ ~Live(k) /\ Serve(i, k, "gone") /\ UNCHANGED <<where, tickets>>
  /\ stored' = stored \ {k}
  /\ UNCHANGED ver

\* POST .../move {to: "undo"}: back to the home folder under a new UID.
ServeUndo(i, k) ==
  /\ ops[i].kind \notin Forward
  /\ \/ /\ where[k[1]] = k /\ ver[k[1]] < MaxVer
        /\ where' = [where EXCEPT ![k[1]] = Home]
        /\ ver' = [ver EXCEPT ![k[1]] = @ + 1]
        /\ Serve(i, k, "moved")
     \/ where[k[1]] # k /\ Serve(i, k, "gone") /\ UNCHANGED <<where, ver>>
  /\ UNCHANGED <<tickets, stored>>

Refuse(i, k) == Serve(i, k, "refused") /\ UNCHANGED server

ServeRequest ==
  /\ \E i \in DOMAIN ops : \E k \in DOMAIN ops[i].flight :
       /\ ops[i].flight[k] = "sent"
       /\ ServeMove(i, k) \/ ServeUndo(i, k) \/ Refuse(i, k)
  /\ UNCHANGED <<screen, hidden, ticks, offer, bulkOffer, gen, mounted>>

\* Another client moves a message out of its folder.
OtherClientMoves ==
  /\ mounted
  /\ \E m \in Msgs : where[m] # Elsewhere /\ where' = [where EXCEPT ![m] = Elsewhere]
  /\ UNCHANGED <<ver, tickets, stored, screen, hidden, ticks, offer, bulkOffer, gen, mounted, ops>>

\* A sync cycle stores what the folders hold.
Sync ==
  /\ mounted
  /\ stored' = {<<m, ver[m]>> : m \in {n \in Msgs : where[n] = Home}}
  /\ stored' # stored
  /\ UNCHANGED <<where, ver, tickets, screen, hidden, ticks, offer, bulkOffer, gen, mounted, ops>>

-----------------------------------------------------------------------------
(* Answers *)

\* Mutants: an undo for every row that went, ticket or not; a failure that
\* falls out of the report.
AnsweredUndoAll(op, k, ok) ==
  Claim([op EXCEPT !.flight = [j \in DOMAIN @ \ {k} |-> @[j]],
                   !.done = IF ok THEN @ \cup {k} ELSE @,
                   !.failed = IF ok THEN @ ELSE @ \cup {k},
                   !.undos = IF ok THEN @ \cup {k} ELSE @])
AnsweredLosesFailure(op, k, ok) ==
  Claim([op EXCEPT !.flight = [j \in DOMAIN @ \ {k} |-> @[j]],
                   !.done = IF ok THEN @ \cup {k} ELSE @])

\* The op after the answer for k: its worker claims the next slot.
Answered(op, k, ok) ==
  Claim([op EXCEPT
    !.flight = [j \in DOMAIN @ \ {k} |-> @[j]],
    !.done = IF ok THEN @ \cup {k} ELSE @,
    !.failed = IF ok THEN @ ELSE @ \cup {k},
    !.undos = IF ok /\ op.kind \in Forward /\ op.flight[k] = "moved" THEN @ \cup {k} ELSE @])

\* Mutants: the generation guards the rollback too; it guards nothing.
BulkMoveSettledGuarded(op) ==
  /\ hidden' = IF op.gen = gen THEN hidden \ op.failed ELSE hidden
  /\ bulkOffer' = IF op.gen = gen /\ op.done # {} THEN [id |-> op.gen, undos |-> op.undos]
                  ELSE bulkOffer
  /\ UNCHANGED <<offer, reader>>
BulkMoveSettledUnguarded(op) ==
  /\ hidden' = hidden \ op.failed
  /\ bulkOffer' = IF op.done # {} THEN [id |-> op.gen, undos |-> op.undos] ELSE bulkOffer
  /\ UNCHANGED <<offer, reader>>

\* runBulkMove's report, applied: the rows that did not move come back whatever
\* happened since; the summary is shown only when no later batch was started,
\* of moves, of undos or of flags.
BulkMoveSettled(op) ==
  /\ hidden' = hidden \ op.failed
  /\ bulkOffer' = IF op.gen = gen /\ op.done # {} THEN [id |-> op.gen, undos |-> op.undos]
                  ELSE bulkOffer
  /\ UNCHANGED <<offer, reader>>

\* runBulkUndo's report: what came back is shown.
BulkUndoSettled(op) == hidden' = hidden \ op.done /\ UNCHANGED <<offer, bulkOffer, reader>>

\* Mutant: the answer closes whatever is open.
OneMoveSettledCloses(op) ==
  LET k == CHOOSE j \in op.keys : TRUE
  IN IF k \in op.done
     THEN /\ reader' = None
          /\ offer' = IF k \in op.undos THEN k ELSE offer
          /\ UNCHANGED <<hidden, bulkOffer>>
     ELSE hidden' = hidden \ {k} /\ UNCHANGED <<offer, bulkOffer, reader>>

\* performMove's answer: the reader closes on success only, if it still shows k.
OneMoveSettled(op) ==
  LET k == CHOOSE j \in op.keys : TRUE
  IN IF k \in op.done
     THEN /\ reader' = IF reader = k THEN None ELSE reader
          /\ offer' = IF k \in op.undos THEN k ELSE offer
          /\ UNCHANGED <<hidden, bulkOffer>>
     ELSE hidden' = hidden \ {k} /\ UNCHANGED <<offer, bulkOffer, reader>>

OneUndoSettled(op) == hidden' = hidden \ op.done /\ UNCHANGED <<offer, bulkOffer, reader>>

Settled(op) ==
  CASE op.kind = "bulk" -> BulkMoveSettled(op)
    [] op.kind = "undoBulk" -> BulkUndoSettled(op)
    [] op.kind = "one" -> OneMoveSettled(op)
    [] op.kind = "undoOne" -> OneUndoSettled(op)

\* An answer arrives, or the connection is lost after the request was served.
Answer(i, k, ok) ==
  LET op == Answered(ops[i], k, ok)
  IN /\ ops[i].flight[k] # "sent"
     /\ ok => ops[i].flight[k] # "refused"
     /\ ops' = [ops EXCEPT ![i] = IF Finished(op) THEN Over(op) ELSE op]
     /\ IF Finished(op) /\ mounted THEN Settled(op)
        ELSE UNCHANGED <<hidden, offer, bulkOffer, reader>>
     /\ UNCHANGED <<server, view, rows, gen, mounted>>
     /\ ticks' = ticks \cap Actionable'

AnswerArrives ==
  \E i \in DOMAIN ops : \E k \in DOMAIN ops[i].flight, ok \in BOOLEAN : Answer(i, k, ok)

-----------------------------------------------------------------------------
User ==
  \/ LoadPage \/ ChangeFolder \/ OpenMessage \/ CloseMessage
  \/ Toggle \/ SelectAllVisible \/ ClearSelection
  \/ MoveFromReader \/ MoveSelection \/ MoveRow
  \/ UndoMove \/ RunUndo \/ MarkSeen \/ ExpireUndo \/ Unmount

Next ==
  /\ User \/ ServeRequest \/ AnswerArrives \/ OtherClientMoves \/ Sync
  /\ UNCHANGED trial

Spec == Init /\ [][Next]_vars

-----------------------------------------------------------------------------
(* Properties *)

\* The keys a client can have met: of a version the message has had.
Known == {k \in Keys : k[2] <= ver[k[1]]}
Outcomes == {"sent", "moved", "unnamed", "gone", "refused"}
Ops == [kind: Kinds, todo: Seq(Known), flight: UNION {[S -> Outcomes] : S \in SUBSET Known},
        keys: SUBSET Known, done: SUBSET Known, failed: SUBSET Known, undos: SUBSET Known,
        gen: 0 .. MaxOps, aborted: BOOLEAN]

\* Every variable has its type.
TypeOK ==
  /\ where \in [Msgs -> {Home, Elsewhere} \cup Keys] /\ ver \in [Msgs -> 0 .. MaxVer]
  /\ tickets \subseteq Known /\ stored \subseteq Known
  /\ view \in Folders /\ rows \subseteq Known /\ reader \in Known \cup {None}
  /\ hidden \subseteq Known /\ ticks \subseteq Known /\ offer \in Known \cup {None}
  /\ bulkOffer \in [id: 0 .. MaxOps, undos: SUBSET Known] \cup {None}
  /\ mounted \in BOOLEAN /\ trial \in Trials
  /\ ops \in Seq(Ops) /\ Len(ops) <= MaxOps /\ gen \in 0 .. Len(ops)

Awaited(k) == \E i \in DOMAIN ops : ~Finished(ops[i]) /\ k \in ops[i].keys

\* No message is hidden by a request that did not move it: once no action is
\* waiting for the answers of a batch that holds k, a hidden k is not in the
\* mailbox under that UID (mailboxActions.ts:22; useBulkSelection.ts:61, the
\* rollback is applied whatever happened on screen since).
NothingHiddenByFailure ==
  mounted => \A k \in hidden : Awaited(k) \/ ~Live(k)

\* An undo is sent only for a message this client moved and the server issued a
\* ticket for (bulkActions.ts:49: "puts back exactly the ones that went").
UndoOnlyTicketed ==
  /\ \A i \in DOMAIN ops : ops[i].kind \in {"undoOne", "undoBulk"} => ops[i].keys \subseteq tickets
  /\ offer # None => offer \in tickets
  /\ bulkOffer # None => bulkOffer.undos \subseteq tickets

\* The undo bar speaks of the last batch of moves or of undos that was started,
\* settled or not: a batch that lands late does not replace a later one's notice,
\* nor stand after a later one began (useBulkSelection.ts:69).  Marking mail read
\* leaves the bar up.
SummaryOfLatestBatch ==
  bulkOffer # None =>
    \A i \in DOMAIN ops : ops[i].kind # "seen" => ops[i].gen <= bulkOffer.id

\* An answer about one message never closes the reader on another one
\* (App.tsx:917: the reader is compared when the answer comes, not when it was asked).
AnswerKeepsReaderStep ==
  (ops' # ops /\ Len(ops') = Len(ops) /\ reader # None /\ reader' # reader)
    => \E i \in DOMAIN ops : ops[i] # ops'[i] /\ ops[i].kind = "one" /\ reader \in ops[i].keys
AnswerKeepsReader == [][AnswerKeepsReaderStep]_vars

\* After unmount no request is sent: the signal gates every slot not yet claimed.
SilentAfterUnmountStep ==
  ~mounted => \A i \in DOMAIN ops : DOMAIN ops'[i].flight \subseteq DOMAIN ops[i].flight
SilentAfterUnmount == [][SilentAfterUnmountStep]_vars

\* No request moves a message out of Sent: "archive / trash / spam may be
\* offered ... the inbox and nowhere else" (mailboxActions.ts:102).
OnlyInboxIsMoved ==
  \A i \in DOMAIN ops : ops[i].kind \in Forward => \A k \in ops[i].keys : CanMoveFrom(k)

\* A move answered "already gone" speaks of a message that is not in the inbox:
\* "the row genuinely is not in the inbox" (bulkActions.ts:145).
GoneIsNotInInbox ==
  [][ \A i \in DOMAIN ops : \A k \in DOMAIN ops[i].flight :
        (ops[i].kind \in Forward /\ ops[i].flight[k] = "sent" /\ Serve(i, k, "gone"))
          => where[k[1]] # Home ]_vars

-----------------------------------------------------------------------------
(* The inductive invariant.  A key that the client holds is of a version    *)
(* the message has had, so what has left the mailbox under it cannot come   *)
(* back under it; what a batch knows of its keys is true of the mailbox;    *)
(* and what is hidden waits for a move, or was moved.                       *)
Accounted(op) ==
  /\ op.keys = op.done \cup op.failed \cup DOMAIN op.flight \cup Range(op.todo)
  /\ Cardinality(DOMAIN op.flight) <= Limit
  /\ op.kind \in {"one", "undoOne", "seen", "over"} => op.todo = <<>>
  /\ op.kind = "one" => \E k \in op.keys : op.keys = {k}
  /\ op.kind \in {"seen", "over"} => op.keys = {}

\* What a batch knows of its keys.
Truthful(op) ==
  IF op.kind \in Forward
  THEN /\ op.undos \subseteq tickets
       /\ \A k \in op.done : ~Live(k)
       /\ \A k \in DOMAIN op.flight :
            /\ op.flight[k] = "moved" => k \in tickets
            /\ op.flight[k] \in {"moved", "unnamed", "gone"} => ~Live(k)
  ELSE op.keys \subseteq tickets

OpsAreAccounted ==
  \A i \in DOMAIN ops : /\ Accounted(ops[i]) /\ Truthful(ops[i])
                        /\ ~mounted => ops[i].aborted \/ ops[i].todo = <<>>

HiddenAwaitsMove ==
  mounted => \A k \in hidden :
    ~Live(k) \/ \E i \in DOMAIN ops : /\ ops[i].kind \in Forward /\ ~Finished(ops[i])
                                      /\ k \in ops[i].keys

\* No batch has a generation that is still to come.
GenerationsGrow == \A i \in DOMAIN ops : ops[i].gen <= gen

MovesInv ==
  /\ TypeOK /\ OpsAreAccounted /\ HiddenAwaitsMove
  /\ UndoOnlyTicketed /\ SummaryOfLatestBatch /\ GenerationsGrow
=============================================================================
