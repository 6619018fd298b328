------------------------------- MODULE MCParts -------------------------------
(***************************************************************************)
(* The parts of the client, of the sync service beside its sync loop and   *)
(* of the tracking service, on small instances and in one run: a behaviour *)
(* is a behaviour of one part, chosen at the start, and v1, v2 ... are     *)
(* that part's variables (MessageCache has its own).  The parts share no   *)
(* state here; each module models what it sees of the others as its        *)
(* environment.  Each property gathers what one hazard asks of its parts.  *)
(***************************************************************************)
EXTENDS Parts

CONSTANTS a, b, boxIn, boxSent, d1, home, k1, k2, k3, k4, m1, m2, me, NoQuery,
    NoThread, Off, q1, t1, t2, t3, th1, th2, work, x1, x2

(* What an entry of the cache weighs.                                      *)
SizeOf == [v \in CachedBodies |-> CASE v = "v1" -> 1 [] v = "v2" -> 2 [] v = "v3" -> 4]

(* The mailboxes tried: one conversation, its moves one at a time; and two   *)
(* single messages moved at once.                                           *)
Mailboxes == {[thread |-> [m \in MovesMsgs |-> 1], limit |-> 1],
              [thread |-> [m \in MovesMsgs |-> IF m = a THEN 1 ELSE 2], limit |-> 2]}

(* The drafts tried: an ordinary reply with up to two fields at or beside  *)
(* a limit.                                                                *)
Times(n, x) == [i \in 1 .. n |-> x]
Id(n) == [length |-> n, chars |-> "plain"]
Garbled == [length |-> 30, chars |-> "control"]
SentBy(name, address, control) == [name |-> name, address |-> address, control |-> control]
AFile(name, type, size) == [name |-> name, type |-> type, size |-> size, readable |-> TRUE]
Ordinary ==
  [identity |-> 8, to |-> <<"ok">>, cc |-> <<>>, subject |-> 20, lineBreak |-> FALSE,
   body |-> 100, mode |-> "reply", parent |-> Id(30), chain |-> <<Id(30)>>,
   html |-> 2000, text |-> 100, from |-> SentBy(10, 17, 0), files |-> <<>>]
Trials ==
  [identity |-> {0, 64, 65},
   to |-> {<<>>, <<"noAt">>, <<"control", "ok">>, Times(25, "ok"), Times(26, "ok")},
   cc |-> {<<"ok">>, <<"tooLong">>, Times(24, "ok"), Times(25, "ok")},
   subject |-> {0, 500, 501}, lineBreak |-> {TRUE},
   body |-> {0, 102400, 102401}, mode |-> {"replyAll", "forward"},
   parent |-> {None, Id(256), Id(257), Garbled},
   chain |-> {<<>>, Times(48, Id(30)), Times(50, Id(30)), <<Id(1)>> \o Times(60, Id(30)),
              <<Id(300)>>, <<Garbled, Id(30)>>},
   html |-> {None, 102400, 102401}, text |-> {None, 102401},
   from |-> {SentBy(0, 0, 0), SentBy(320, 0, 0), SentBy(0, 20, 1), SentBy(10, 20, 1),
             SentBy(10, 308, 1), SentBy(10, 308, 0)},
   files |-> {Times(10, AFile("plain", "plain", 10)), Times(11, AFile("plain", "plain", 10)),
              <<AFile("plain", "plain", 10485760)>>,
              <<AFile("plain", "plain", 10485760), AFile("plain", "plain", 1)>>,
              <<AFile("dots", "plain", 10)>>, <<AFile("control", "plain", 10)>>,
              <<AFile("plain", "withParameters", 10)>>, <<AFile("plain", "malformed", 0)>>,
              <<[AFile("plain", "plain", 10) EXCEPT !.readable = FALSE]>>}]
OneOff == {Ordinary} \union
  UNION {{[Ordinary EXCEPT ![f] = v] : v \in Trials[f]} : f \in DOMAIN Trials}
TwoOff ==
  UNION {UNION {{[d EXCEPT ![f] = v] : v \in Trials[f]} : f \in DOMAIN Trials} : d \in OneOff}
TriedDrafts == {d : d \in OneOff \union TwoOff}

-----------------------------------------------------------------------------
(* The variables a part does not have stay Off.                            *)
Off14 == v15 = Off
Off13 == v14 = Off /\ Off14
Off12 == v13 = Off /\ Off13
Off11 == v12 = Off /\ Off12
Off10 == v11 = Off /\ Off11
Off9 == v10 = Off /\ Off10
Off8 == v9 = Off /\ Off9
Off7 == v8 = Off /\ Off8
Off6 == v7 = Off /\ Off7
Off5 == v6 = Off /\ Off6
Off4 == v5 = Off /\ Off5
Off3 == v4 = Off /\ Off4
Off2 == v3 = Off /\ Off3
Off1 == v2 = Off /\ Off2
Off0 == v1 = Off /\ Off1

after15 == <<part, vars>>
after12 == <<part, vars, v13, v14, v15>>
after11 == <<part, vars, v12, v13, v14, v15>>
after10 == <<part, vars, v11, v12, v13, v14, v15>>
after8 == <<part, vars, v9, v10, v11, v12, v13, v14, v15>>
after7 == <<part, vars, v8, v9, v10, v11, v12, v13, v14, v15>>
after6 == <<part, vars, v7, v8, v9, v10, v11, v12, v13, v14, v15>>
after5 == <<part, vars, v6, v7, v8, v9, v10, v11, v12, v13, v14, v15>>
after4 == <<part, vars, v5, v6, v7, v8, v9, v10, v11, v12, v13, v14, v15>>
after3 == <<part, vars, v4, v5, v6, v7, v8, v9, v10, v11, v12, v13, v14, v15>>
after2 == <<part, vars, v3, v4, v5, v6, v7, v8, v9, v10, v11, v12, v13, v14, v15>>
after0 == <<part, v1, v2, v3, v4, v5, v6, v7, v8, v9, v10, v11, v12, v13, v14,
    v15>>

all == <<part, vars, v1, v2, v3, v4, v5, v6, v7, v8, v9, v10, v11, v12, v13,
    v14, v15>>

PartsInit ==
  /\ Init
  /\ \/ part = "cache" /\ Off0
     \/ part = "moves" /\ Moves!Init
     \/ part = "flags" /\ Overrides!Init /\ Off7
     \/ part = "pages" /\ Pages!Init /\ Off11
     \/ part = "gate" /\ Gate!Init /\ Off6
     \/ part = "bodies" /\ Bodies!Init /\ Off7
     \/ part = "compose" /\ Composer!Init /\ Off10
     \/ part = "contract" /\ Contract!Init /\ Off3
     \/ part = "feed" /\ Feed!Init /\ Off8
     \/ part = "targets" /\ Targets!Init /\ Off5
     \/ part = "push" /\ Devices!Init /\ Off11
     \/ part = "waiting" /\ Waiting!Init /\ Off6
     \/ part = "keys" /\ Shortcuts!Init /\ Off11
     \/ part = "desktop" /\ Shell!Init /\ Off10
     \/ part = "send" /\ Copies!Init /\ Off6
     \/ part = "server" /\ Service!Init /\ Off12
     \/ part = "session" /\ Session!Init /\ Off6
     \/ part = "static" /\ Files!Init /\ Off5
     \/ part = "tracking" /\ Beacon!Init /\ Off6
     \/ part = "followup" /\ Reminders!Init /\ Off6
     \/ part = "list" /\ Mailing!Init /\ Off7
     \/ part = "search" /\ Terms!Init /\ Off2
     \/ part = "folders" /\ Names!Init /\ Off10
     \/ part = "notices" /\ Notices!Init /\ Off8
     \/ part = "pixel" /\ Pixel!Init /\ Off4

PartsNext ==
  \/ part = "cache" /\ Next /\ UNCHANGED after0
  \/ part = "moves" /\ Moves!Next /\ UNCHANGED after15
  \/ part = "flags" /\ Overrides!Next /\ UNCHANGED after7
  \/ part = "pages" /\ Pages!Next /\ UNCHANGED after11
  \/ part = "gate" /\ Gate!Next /\ UNCHANGED after6
  \/ part = "bodies" /\ Bodies!Next /\ UNCHANGED after7
  \/ part = "compose" /\ Composer!Next /\ UNCHANGED after10
  \/ part = "contract" /\ Contract!Next /\ UNCHANGED after3
  \/ part = "feed" /\ Feed!Next /\ UNCHANGED after8
  \/ part = "targets" /\ Targets!Next /\ UNCHANGED after5
  \/ part = "push" /\ Devices!Next /\ UNCHANGED after11
  \/ part = "waiting" /\ Waiting!Next /\ UNCHANGED after6
  \/ part = "keys" /\ Shortcuts!Next /\ UNCHANGED after11
  \/ part = "desktop" /\ Shell!Next /\ UNCHANGED after10
  \/ part = "send" /\ Copies!Next /\ UNCHANGED after6
  \/ part = "server" /\ Service!Next /\ UNCHANGED after12
  \/ part = "session" /\ Session!Next /\ UNCHANGED after6
  \/ part = "static" /\ Files!Next /\ UNCHANGED after5
  \/ part = "tracking" /\ Beacon!Next /\ UNCHANGED after6
  \/ part = "followup" /\ Reminders!Next /\ UNCHANGED after6
  \/ part = "list" /\ Mailing!Next /\ UNCHANGED after7
  \/ part = "search" /\ Terms!Next /\ UNCHANGED after2
  \/ part = "folders" /\ Names!Next /\ UNCHANGED after10
  \/ part = "notices" /\ Notices!Next /\ UNCHANGED after8
  \/ part = "pixel" /\ Pixel!Next /\ UNCHANGED after4

PartsSpec == PartsInit /\ [][PartsNext]_all

-----------------------------------------------------------------------------
(* Every part keeps its types, and the inductive invariant that its proofs  *)
(* rest on if there are any (PartsProofs); the cache counts the bytes it    *)
(* holds.                                                                   *)
PartsTypeOK ==
  /\ TypeOK /\ CountIsExact
  /\ part = "moves" => Moves!MovesInv
  /\ part = "flags" => Overrides!OverridesInv
  /\ part = "pages" => Pages!PagesInv
  /\ part = "gate" => Gate!GateInv
  /\ part = "bodies" => Bodies!FetchInv
  /\ part = "compose" => Composer!ComposeInv
  /\ part = "contract" => Contract!ContractInv
  /\ part = "feed" => Feed!FeedInv
  /\ part = "targets" => Targets!TypeOK
  /\ part = "push" => Devices!PushInv
  /\ part = "waiting" => Waiting!ViewInv
  /\ part = "keys" => Shortcuts!KeysInv
  /\ part = "desktop" => Shell!ShellInv
  /\ part = "send" => Copies!SendInv
  /\ part = "server" => Service!ServerInv
  /\ part = "session" => Session!SessionInv
  /\ part = "static" => Files!FilesInv
  /\ part = "tracking" => Beacon!BeaconInv
  /\ part = "followup" => Reminders!FollowupInv
  /\ part = "list" => Mailing!ConversationsInv
  /\ part = "search" => Terms!SearchInv
  /\ part = "folders" => Names!NamesInv
  /\ part = "notices" => Notices!NoticesInv
  /\ part = "pixel" => Pixel!PixelInv

(* What the client shows before the server has agreed is paid back: no      *)
(* failure leaves a message hidden, an undo names only what was moved and   *)
(* ticketed, the bar speaks of the last batch of moves or undos, a flag     *)
(* shown over the list is one the server took, and an undo puts a message   *)
(* back where it was or is refused.                                         *)
OptimismIsPaidBack ==
  /\ part = "moves" =>
       /\ Moves!NothingHiddenByFailure
       /\ Moves!UndoOnlyTicketed
       /\ Moves!SummaryOfLatestBatch
  /\ part = "flags" =>
       /\ Overrides!OverrideIsConfirmed
       /\ Overrides!ShowsLastIntent
  /\ part = "folders" => Names!UndoReturnsHome

(* A list is what it says it is: one unbroken run of one scope with the     *)
(* cursor on its row and a spinner only while a request will end it;        *)
(* conversations whole, once and in order, but for those a search finds     *)
(* twice because two messages without a thread share a UID; follow-ups of   *)
(* the account shown; a folder under its present name; and under a negated  *)
(* term exactly the rest.                                                   *)
ListsAreTrue ==
  /\ part = "pages" =>
       /\ Pages!RowsAreOneRun
       /\ Pages!SpinnerIsOwned
       /\ Pages!QueryCatchesUp
       /\ Pages!CursorOnItsRow
  /\ part = "list" =>
       /\ Mailing!WholeAndOnce
       /\ Mailing!DrawnInOrder
  /\ part = "waiting" => Waiting!RowsAreThePrefix
  /\ part = "folders" =>
       /\ Names!NothingTwice
       /\ Names!ViewsAreSynced
  /\ part = "search" =>
       /\ Terms!NegationIsComplement
       /\ Terms!ChipsAreTrue

(* Whoever waits has something coming: a login its attempt, a guess a slot  *)
(* that will be freed, a reader its request, a mounted feed its one poll or *)
(* timer.                                                                   *)
NobodyWaitsInVain ==
  /\ part = "gate" => Gate!LoginNeverStuck
  /\ part = "bodies" =>
       /\ Bodies!SlotsAreUsed
       /\ Bodies!ReaderIsServed
  /\ part = "feed" => Feed!OnePollPending

(* A composer has one send under way, about the message it was written for; *)
(* it says "not sent" only of what nobody took; what it lets through the    *)
(* route takes, but for an id or a bare address that nobody checked; its    *)
(* reference chain keeps its ends, and its warning of lost tracking is      *)
(* true.                                                                    *)
DraftsAreSafe ==
  /\ part = "compose" =>
       /\ Composer!OneSendEach
       /\ Composer!NotSentIsTrue
       /\ Composer!NothingSentElsewhere
  /\ part = "contract" =>
       /\ Contract!LetThroughIsTaken
       /\ Contract!ChainKeepsItsEnds
       /\ Contract!WarningIsTrue

(* Every copy carries its recipient's token, every recipient is in the      *)
(* answer, and a request answered as refused sent nothing.                  *)
SendsAreAccounted ==
  /\ part = "send" =>
       /\ Copies!CopyCarriesItsToken
       /\ Copies!RefusedSentNothing
       /\ Copies!ResultsAccountForAll

(* Over any window at most twice the budget of sends is admitted, who waits *)
(* as long as told is admitted, and sign-ins fail little more often than    *)
(* the limit.                                                               *)
LimitsHold ==
  /\ part = "send" =>
       /\ Copies!AdmittedBounded
       /\ Copies!RetryAfterIsTrue
  /\ part = "session" => Session!FailuresBounded

(* What is recorded as an open is one: repeats are dropped, prefetches told *)
(* apart, a token handed out has its row, reading one's own mail fetches no *)
(* pixel, a copy carries one pixel, and a picture is not taken for one.     *)
OpensAreReadings ==
  /\ part = "tracking" =>
       /\ Beacon!RepeatsAreDropped
       /\ Beacon!AnsweredTokensExist
       /\ Beacon!OpensAreReadings
  /\ part = "pixel" =>
       /\ Pixel!OwnReadingIsSilent
       /\ Pixel!CopiesCarryOnePixel
       /\ Pixel!PicturesSurvive

(* What is said of opens is true of the hits: a confirmed open is drawn as  *)
(* one, episodes are apart, the live region agrees with the view, a message *)
(* called silent has no open the service knows, and one called opened was   *)
(* opened.                                                                  *)
OpensAreToldTruly ==
  /\ part = "feed" =>
       /\ Feed!ConfirmedOpenIsShown
       /\ Feed!EpisodesAreApart
       /\ Feed!LineAgrees
  /\ part = "followup" =>
       /\ Reminders!SilenceIsReal
       /\ Reminders!OpenedIsTrue

(* A subscribed browser shows its switch as on, if it could be asked, and a *)
(* pass tries every device; no notice is hidden by unrelated news, the      *)
(* newest of a conversation stays unless two dispatches of the account      *)
(* overlapped, and a click shows the view it spoke of; on the desktop a UID *)
(* is announced at first sight or never, by no more waiting threads than    *)
(* permits.                                                                 *)
DevicesAreTold ==
  /\ part = "push" =>
       /\ Devices!SubscribedIsVisible
       /\ Devices!EveryDeviceTried
  /\ part = "notices" =>
       /\ Notices!NothingIsHidden
       /\ Notices!NewestStays
       /\ Notices!ClickLands
  /\ part = "desktop" =>
       /\ Shell!AnnouncedAtFirstSight
       /\ Shell!WaitersBounded

(* A listening service has the primary account of its file, its database is *)
(* closed after everything that uses it, and a page gets its own script or  *)
(* a plain 404.                                                             *)
ServiceIsWhole ==
  /\ part = "server" =>
       /\ Service!PrimaryFollowsTheFile
       /\ Service!DatabaseOutlivesItsUsers
  /\ part = "static" => Files!ScriptFitsThePage

(* An answer that comes late disturbs nothing: it closes no other reader,   *)
(* sends nothing after the unmount, stores no cancelled guess, opens no     *)
(* older reply and asks for no second sign-in.                              *)
LateAnswersAreDropped == [][
  /\ part = "moves" =>
       /\ Moves!AnswerKeepsReaderStep
       /\ Moves!SilentAfterUnmountStep
  /\ part = "bodies" => Bodies!GuessesDieStep
  /\ part = "compose" => Composer!LatestReplyStep
  /\ part = "gate" => Gate!AskedOnceStep ]_all

(* Of many messages the right one is picked: the cursor follows its message *)
(* through a new list, a "go" is answered while its hint is up and not      *)
(* after, only rows that are drawn are moved while the list is up, an open  *)
(* shows the copy that was sent, and a full cache gives up the body used    *)
(* longest ago.                                                             *)
RightMessageIsPicked == [][
  /\ part = "pages" => Pages!CursorStep
  /\ part = "keys" =>
       /\ Shortcuts!GoIsAnsweredStep
       /\ Shortcuts!ListShowsWhatIsMovedStep
  /\ part = "targets" => Targets!OpensTheSentCopyStep
  /\ part = "cache" => LeastRecentStep ]_all

(* Nothing is given up or kept against its time: a subscription goes only   *)
(* when its endpoint has, failures only with their window; data needs a     *)
(* cookie of this token and in time, and a reload shows the last deploy.    *)
NothingGoesTooSoon == [][
  /\ part = "push" => Devices!RowsOutliveNothingAliveStep
  /\ part = "session" =>
       /\ Session!FailuresKeptStep
       /\ Session!DataNeedsASignInStep
  /\ part = "static" => Files!ReloadIsCurrentStep ]_all
=============================================================================
