-------------------------------- MODULE Compose --------------------------------
(***************************************************************************)
(* The composer: one element placed either as the whole page or at the     *)
(* foot of the message being read, keyed by what it answers.  A reply is   *)
(* opened when the body of its message has been loaded, the draft is       *)
(* seeded when the sending identities arrive, and a send is answered long  *)
(* after the button was pressed, by when another composer may be up.       *)
(* Headers (recipients, subject) and the text are told apart because the   *)
(* seed replaces the first only.                                           *)
(***************************************************************************)
EXTENDS Integers, FiniteSets

CONSTANTS Msgs,      \* the messages that can be opened and answered
          Addrs,     \* the addresses a draft can name
          Modes,     \* "reply", "forward"
          MaxReplies, \* bound: replies started
          MaxSends,  \* bound: sends under way at once
          None

VARIABLES view,      \* "inbox", "opens" or "compose"
          before,    \* viewBeforeComposeRef
          reader,    \* selected: the message being read
          source,    \* replySource
          dirtyRef,  \* isComposeDirtyRef
          attempt,   \* replyAttemptRef
          loads,     \* bodies being loaded for a reply
          composer,  \* the mounted Compose instance and its state, or None
          sends,     \* submitDraft calls under way
          lost       \* history: a draft was thrown away without a question
vars == <<view, before, reader, source, dirtyRef, attempt, loads, composer,
          sends, lost>>

Sources == [msg: Msgs, mode: Modes, attempt: 1 .. MaxReplies]
NewKey == [msg |-> None, mode |-> "compose"]
Keys == {NewKey} \union [msg: Msgs, mode: Modes]
Ids == 1 .. MaxSends + 1
NoFailure == [certainty |-> "none", out |-> FALSE]
Composers ==
  [place: {"page"} \union Msgs, key: Keys, id: Ids, source: Sources \union {None},
   identities: BOOLEAN, seed: SUBSET Addrs, to: SUBSET Addrs, text: BOOLEAN,
   writtenFor: Msgs \union {None}, inFlight: BOOLEAN, partial: SUBSET Addrs,
   failure: [certainty: {"none", "not-sent", "unknown"}, out: BOOLEAN]]
Sends == [owner: Ids, about: Msgs \union {None}, writtenFor: Msgs \union {None},
          to: SUBSET Addrs,
          answer: {"none", "lost", "refused", "broken", "results"},
          ok: SUBSET Addrs, out: BOOLEAN]

TypeOK ==
  /\ view \in {"inbox", "opens", "compose"} /\ before \in {"inbox", "opens"}
  /\ reader \in Msgs \union {None}
  /\ source \in Sources \union {None}
  /\ dirtyRef \in BOOLEAN /\ lost \in BOOLEAN
  /\ attempt \in 0 .. MaxReplies
  /\ \A l \in loads : /\ l.source \in Sources /\ l.inPlace \in BOOLEAN
  /\ composer \in Composers \union {None}
  /\ sends \subseteq Sends

Init ==
  /\ view = "inbox" /\ before = "inbox" /\ reader = None /\ source = None
  /\ dirtyRef = FALSE /\ attempt = 0 /\ loads = {} /\ composer = None
  /\ sends = {} /\ lost = FALSE

---------------------------------------------------------------------------
(* replyKey.  Mutant: keyed on the mode alone, so a composer is reused for *)
(* another message.                                                        *)
KeyOfMode(s) == IF s = None THEN NewKey
                ELSE [msg |-> CHOOSE m \in Msgs : TRUE, mode |-> s.mode]
Key(s) == IF s = None THEN NewKey ELSE [msg |-> s.msg, mode |-> s.mode]

(* The message a send threads under and quotes: replyWireFields.           *)
About(s) == IF s = None THEN None ELSE s.msg

(* Where the one element is placed: the page, the reader's foot, nowhere.  *)
Place(v, r, s) ==
  IF v = "compose" THEN "page"
  ELSE IF s # None /\ r # None /\ v = "inbox" THEN r ELSE None

(* buildReplyDraft: a reply names the sender, a forward nobody.            *)
Seed(s) == IF s # None /\ s.mode = "reply" THEN {CHOOSE a \in Addrs : TRUE} ELSE {}

(* An instance that has just mounted, under an id no send in flight owns.  *)
Fresh(place, s) ==
  [place |-> place, key |-> Key(s), source |-> s,
   id |-> CHOOSE i \in Ids : ~\E w \in sends : w.owner = i,
   identities |-> FALSE, seed |-> {}, to |-> {}, text |-> FALSE,
   writtenFor |-> About(s), inFlight |-> FALSE, partial |-> {}, failure |-> NoFailure]

(* isDraftDirty: what differs from the seed.                               *)
Dirty(c) == c # None /\ (c.text \/ c.to # c.seed)

Showing(c, place, s) == c # None /\ c.place = place /\ c.key = Key(s)

(* React: the instance is kept while its place and key are, and mounted    *)
(* afresh otherwise; a new reply object starts the identities effect again *)
(* in an instance that is kept.                                            *)
Rendered(c, place, s) ==
  IF place = None THEN None
  ELSE IF Showing(c, place, s)
       THEN [c EXCEPT !.source = s,
                      !.identities = @ /\ c.source = s]
       ELSE Fresh(place, s)

(* A handler that leaves view v, reader r and source s, the flag at dirty, *)
(* and has asked the user or not whether the draft may go.                 *)
Shows(v, r, s, dirty, asked) ==
  LET place == Place(v, r, s) IN
  /\ view' = v /\ reader' = r /\ source' = s
  /\ composer' = Rendered(composer, place, s)
  /\ dirtyRef' = (dirty /\ (place # None => Showing(composer, place, s)))
  /\ lost' = (lost \/ (Dirty(composer) /\ ~asked /\ ~Showing(composer, place, s)))

---------------------------------------------------------------------------
(* canLeaveCompose: a question is put; the user's yes is the only way on.  *)
Asks == view = "compose" /\ dirtyRef

OpenMessage(m) ==
  /\ view = "inbox" /\ reader # m
  /\ Shows(view, m, source, dirtyRef, FALSE)
  /\ UNCHANGED <<before, attempt, loads, sends>>

CloseMessage ==
  /\ view = "inbox" /\ reader # None
  /\ Shows(view, None, source, dirtyRef, FALSE)
  /\ UNCHANGED <<before, attempt, loads, sends>>

(* changeView and changeFolder to a page that is not the composer.         *)
ChangeView(v) ==
  /\ Shows(v, None, source, FALSE, Asks)
  /\ UNCHANGED <<before, attempt, loads, sends>>

(* The Compose button.                                                     *)
NewMessage ==
  /\ before' = IF view # "compose" THEN view ELSE before
  /\ Shows("compose", None, None, FALSE, FALSE)
  /\ UNCHANGED <<attempt, loads, sends>>

CloseCompose(asked) ==
  /\ Shows(IF view = "compose" THEN before ELSE view, reader, None, FALSE, asked)
  /\ UNCHANGED before

(* Mutant: an answer of an attempt that a later one replaced is acted on.  *)
CurrentAlways(s) == TRUE
Current(s) == s.attempt = attempt

(* The open callback of startReply, with the view (the list's) and the     *)
(* reader of the moment the key was pressed.                               *)
OpenReply(s, inPlace) ==
  /\ before' = IF inPlace THEN before ELSE "inbox"
  /\ Shows(IF inPlace THEN view ELSE "compose", reader, s, FALSE, FALSE)

(* startReply of the message read, or of the row under the cursor; from    *)
(* the composer's page the keys and buttons are away.                      *)
StartReply(m, mode) ==
  LET s == [msg |-> m, mode |-> mode, attempt |-> attempt + 1] IN
  /\ view = "inbox" /\ reader \in {None, m}
  /\ attempt < MaxReplies
  /\ attempt' = attempt + 1
  /\ \/ /\ OpenReply(s, reader = m)
        /\ UNCHANGED loads
     \/ /\ loads' = loads \union {[source |-> s, inPlace |-> reader = m]}
        /\ UNCHANGED <<view, before, reader, source, dirtyRef, composer, lost>>
  /\ UNCHANGED sends

Loaded(l) ==
  /\ loads' = loads \ {l}
  /\ IF Current(l.source)
     THEN OpenReply(l.source, l.inPlace)
     ELSE UNCHANGED <<view, before, reader, source, dirtyRef, composer, lost>>
  /\ UNCHANGED <<attempt, sends>>

LoadFails(l) ==
  /\ loads' = loads \ {l}
  /\ UNCHANGED <<view, before, reader, source, dirtyRef, attempt, composer, sends, lost>>

---------------------------------------------------------------------------
Elsewhere == UNCHANGED <<view, before, reader, source, attempt, loads>>

(* What the user edits, and the effect that reports it to the app.         *)
Edited(c) ==
  /\ composer' = c
  /\ dirtyRef' = IF Dirty(c) # Dirty(composer) THEN Dirty(c) ELSE dirtyRef
  /\ Elsewhere

(* The identities arrive: the seed takes the place of the headers.         *)
IdentitiesLoaded ==
  /\ composer # None /\ ~composer.identities
  /\ LET s == composer.source IN
     /\ Edited(IF s = None THEN [composer EXCEPT !.identities = TRUE]
               ELSE [composer EXCEPT !.identities = TRUE, !.seed = Seed(s), !.to = Seed(s)])
     /\ lost' = (lost \/ (s # None /\ composer.to \notin {composer.seed, Seed(s)}))
  /\ UNCHANGED sends

Write ==
  /\ composer # None /\ ~composer.inFlight
  /\ Edited([composer EXCEPT !.text = TRUE, !.writtenFor = About(source)])
  /\ UNCHANGED <<sends, lost>>

Address(a) ==
  /\ composer # None /\ ~composer.inFlight
  /\ Edited([composer EXCEPT !.to = (@ \ {a}) \union ({a} \ @)])
  /\ UNCHANGED <<sends, lost>>

(* keepOnlyFailed, offered while a partial result is shown.                *)
KeepOnlyFailed ==
  /\ composer # None /\ composer.partial # {}
  /\ Edited([composer EXCEPT !.to = @ \intersect composer.partial])
  /\ UNCHANGED <<sends, lost>>

MaySubmit(c) == c.identities /\ ~c.inFlight

(* handleSubmit: an invalid draft only clears the last failure.            *)
Submit ==
  /\ composer # None /\ MaySubmit(composer)
  /\ Cardinality(sends) < MaxSends
  /\ IF composer.to = {}
     THEN /\ Edited([composer EXCEPT !.failure = NoFailure])
          /\ UNCHANGED sends
     ELSE /\ Edited([composer EXCEPT !.failure = NoFailure, !.partial = {}, !.inFlight = TRUE])
          /\ sends' = sends \union
               {[owner |-> composer.id, about |-> About(source), writtenFor |-> composer.writtenFor,
                 to |-> composer.to, answer |-> "none", ok |-> {}, out |-> FALSE]}
  /\ UNCHANGED lost

(* requestClose: refused in flight, asked when dirty.                      *)
RequestClose ==
  /\ composer # None /\ ~composer.inFlight
  /\ CloseCompose(TRUE)
  /\ UNCHANGED <<attempt, loads, sends>>

---------------------------------------------------------------------------
(* What becomes of a request: refused with nothing delivered, answered per *)
(* recipient, or lost or broken on the way back with or without copies     *)
(* out.                                                                    *)
Answers(w, r) == sends' = (sends \ {w}) \union {r}

Serve(w) ==
  /\ w.answer = "none"
  /\ \/ Answers(w, [w EXCEPT !.answer = "refused"])
     \/ \E S \in SUBSET w.to :
          Answers(w, [w EXCEPT !.answer = "results", !.ok = S, !.out = S # {}])
     \/ \E a \in {"lost", "broken"}, o \in BOOLEAN :
          Answers(w, [w EXCEPT !.answer = a, !.out = o])
  /\ UNCHANGED <<view, before, reader, source, dirtyRef, attempt, loads, composer, lost>>

(* describeSendFailure: which failures mean that nothing went out.         *)
(* Mutant: a status nobody listed is read as a refusal.                    *)
CertaintyOfAnyStatus(answer) == IF answer = "lost" THEN "unknown" ELSE "not-sent"
Certainty(answer) == IF answer = "refused" THEN "not-sent" ELSE "unknown"

Owner(w) == composer # None /\ composer.id = w.owner

(* An instance that has gone takes no state; its callbacks still run.      *)
Take(w, c) == IF Owner(w) THEN Edited(c)
              ELSE Elsewhere /\ UNCHANGED <<composer, dirtyRef>>

(* A file cannot be read: nothing was sent.  Mutant: the button stays      *)
(* locked.                                                                 *)
UnreadableLocked(w) ==
  /\ w.answer = "none" /\ sends' = sends \ {w}
  /\ Elsewhere /\ UNCHANGED <<composer, dirtyRef, lost>>
Unreadable(w) ==
  /\ w.answer = "none" /\ sends' = sends \ {w}
  /\ Take(w, [composer EXCEPT !.inFlight = FALSE])
  /\ UNCHANGED lost

AllWell(w) == w.answer = "results" /\ w.ok = w.to

(* summarizeResults.                                                       *)
Report(w, c) ==
  IF w.answer = "results"
  THEN [c EXCEPT !.inFlight = FALSE, !.partial = w.to \ w.ok]
  ELSE [c EXCEPT !.inFlight = FALSE,
                 !.failure = [certainty |-> Certainty(w.answer), out |-> w.out]]

Fails(w) ==
  /\ w.answer # "none" /\ ~AllWell(w)
  /\ sends' = sends \ {w}
  /\ Take(w, Report(w, composer))
  /\ UNCHANGED lost

(* onSent, onClose: closeCompose closes whichever composer is up.          *)
Sent(w) ==
  /\ AllWell(w)
  /\ sends' = sends \ {w}
  /\ CloseCompose(Owner(w))
  /\ UNCHANGED <<attempt, loads>>

Next ==
  \/ \E m \in Msgs : OpenMessage(m) \/ \E mode \in Modes : StartReply(m, mode)
  \/ CloseMessage \/ NewMessage \/ RequestClose
  \/ \E v \in {"inbox", "opens"} : ChangeView(v)
  \/ \E l \in loads : Loaded(l) \/ LoadFails(l)
  \/ IdentitiesLoaded \/ Write \/ KeepOnlyFailed \/ Submit
  \/ \E a \in Addrs : Address(a)
  \/ \E w \in sends : Serve(w) \/ Unreadable(w) \/ Fails(w) \/ Sent(w)

Spec == Init /\ [][Next]_vars

---------------------------------------------------------------------------
(* A composer that says it is sending has exactly one send under way, so   *)
(* the button neither stays locked for ever nor sends twice: inFlightRef   *)
(* is cleared on each of submitDraft's four ways out.                      *)
OneSendEach ==
  composer # None =>
    Cardinality({w \in sends : w.owner = composer.id}) = IF composer.inFlight THEN 1 ELSE 0

(* "Not sent" is said only of a send of which no copy went out             *)
(* (describeSendFailure): the user may send again without a second copy.   *)
NotSentIsTrue ==
  composer # None /\ composer.failure.certainty = "not-sent" => ~composer.failure.out

(* What was written in answer to one message is sent in answer to that     *)
(* message: the key on the composer remounts it for another (App.tsx).     *)
NothingSentElsewhere == \A w \in sends : w.writtenFor = w.about

(* Of two replies asked for, an answer that is late never replaces the     *)
(* later one (startReply's token).                                         *)
LatestReplyStep ==
  source # None /\ source' # None => source'.attempt >= source.attempt
LatestReply == [][LatestReplyStep]_vars

(* What App.tsx says of the guard of a dirty draft: it is asked for, by    *)
(* every route out of the composer.                                        *)
NoDraftLostUnasked == ~lost

(* The inductive invariant: what is loaded for a reply was asked for, the   *)
(* instance on screen is the one its source keys and was written for it,   *)
(* and only an answered request can have copies out.                       *)
RepliesAreNumbered ==
  /\ source # None => source.attempt <= attempt
  /\ \A l \in loads : l.source.attempt <= attempt
ComposerIsKeyed ==
  composer # None => composer.key = Key(source) /\ composer.writtenFor = About(source)
SendsAreFew == IsFiniteSet(sends) /\ Cardinality(sends) <= MaxSends
OutWhenServed == \A w \in sends : w.answer \in {"none", "refused"} => ~w.out

ComposeInv ==
  /\ TypeOK /\ RepliesAreNumbered /\ ComposerIsKeyed /\ SendsAreFew /\ OutWhenServed
  /\ OneSendEach /\ NotSentIsTrue /\ NothingSentElsewhere
=============================================================================
