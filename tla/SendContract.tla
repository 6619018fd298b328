----------------------------- MODULE SendContract -----------------------------
(***************************************************************************)
(* What the composer lets through against what the send route takes.  Both *)
(* sides carry their own copy of the limits, and the route's 400 names no  *)
(* field, so a draft that passes the first and fails the second is refused *)
(* without a reason the user can act on.  One draft is checked, put on the *)
(* wire and parsed; texts are their lengths, a value that a pattern judges *)
(* is the class the pattern puts it in.                                    *)
(***************************************************************************)
EXTENDS Integers, Sequences

CONSTANTS Drafts,  \* the drafts tried
          None

VARIABLES draft,     \* what the user has put together, and what it answers
          wire,      \* the request sent, or None
          reason     \* "unsent", "invalid", "unreadable", "ok" or parseSendBody's
vars == <<draft, wire, reason>>

(* The limits, each as its own side has it.                                *)
Client == [subject |-> 500, body |-> 102400, recipients |-> 25, identity |-> 64,
           references |-> 50, quote |-> 102400, label |-> 320, files |-> 10,
           fileBytes |-> 10485760, budget |-> 26214400]
Route == [subject |-> 500, body |-> 102400, recipients |-> 25, identity |-> 64,
          references |-> 50, quote |-> 102400, label |-> 320, files |-> 10,
          fileBytes |-> 10485760, budget |-> 26214400, messageId |-> 256]

Total(sizes) ==
  LET sum[i \in 0 .. Len(sizes)] == IF i = 0 THEN 0 ELSE sum[i - 1] + sizes[i]
  IN sum[Len(sizes)]
Sizes(files) == [i \in DOMAIN files |-> files[i].size]

---------------------------------------------------------------------------
(* A draft: the lengths of its texts, the class of each address, name and  *)
(* type, the sizes of its files; and of the message answered its id, those *)
(* of the reference chain, the length of its body in each form, and its    *)
(* sender: the lengths of the name and of the address, and how many of the *)
(* address's characters are control characters, the first within the limit.*)
Address == {"ok", "noAt", "control", "tooLong"}
File == [name: {"plain", "dots", "control"}, size: Nat, readable: BOOLEAN,
         type: {"plain", "withParameters", "malformed"}]
Chars == {"plain", "control"}
MessageId == [length: Nat \ {0}, chars: Chars]
Sender == {s \in [name: Nat, address: Nat, control: Nat] : s.control <= s.address}
Draft ==
  [identity: Nat, to: Seq(Address), cc: Seq(Address), subject: Nat, lineBreak: BOOLEAN,
   body: Nat, mode: {"reply", "replyAll", "forward"}, parent: MessageId \union {None},
   chain: Seq(MessageId), html: Nat \union {None}, text: Nat \union {None}, from: Sender,
   files: Seq(File)]

TypeOK ==
  /\ draft \in Drafts
  /\ reason \in {"unsent", "invalid", "unreadable", "sending", "ok", "identityId", "to", "cc",
                 "recipient_count", "subject", "textBody", "reply_fields", "attachment"}
  /\ wire = None <=> reason \in {"unsent", "invalid", "unreadable"}

Init == draft \in Drafts /\ wire = None /\ reason = "unsent"

---------------------------------------------------------------------------
(* An address as isValidRecipient and isUsableRecipient class it.          *)
UsableRecipients(list) == \A i \in DOMAIN list : list[i] = "ok"

(* validateCompose.                                                        *)
ValidDraft(d) ==
  /\ d.identity \in 1 .. Client.identity
  /\ d.to # <<>> /\ UsableRecipients(d.to) /\ UsableRecipients(d.cc)
  /\ Len(d.to) + Len(d.cc) <= Client.recipients
  /\ ~d.lineBreak /\ d.subject <= Client.subject
  /\ d.body <= Client.body

(* isSendableFilename.                                                     *)
SendableName(name) == name = "plain"

(* Mutant: the attached bytes are not added up.                            *)
AttachableEach(files) ==
  /\ Len(files) <= Client.files
  /\ \A i \in DOMAIN files : files[i].size <= Client.fileBytes /\ SendableName(files[i].name)
(* attachmentError.                                                        *)
Attachable(files) ==
  /\ Len(files) <= Client.files
  /\ Total(Sizes(files)) <= Client.fileBytes
  /\ \A i \in DOMAIN files : SendableName(files[i].name)

(* contentTypeFor: the type without its parameters, or the fallback.       *)
TypeSent(type) == IF type = "malformed" THEN "fallback" ELSE "plain"

(* Mutant: an over-long chain loses its oldest entries, the root first.    *)
CapNewest(chain) ==
  IF Len(chain) <= Client.references THEN chain
  ELSE SubSeq(chain, Len(chain) - Client.references + 1, Len(chain))
(* capReferences.                                                          *)
CapReferences(chain) ==
  IF Len(chain) <= Client.references THEN chain
  ELSE <<Head(chain)>> \o SubSeq(chain, Len(chain) - (Client.references - 1) + 1, Len(chain))

(* buildThreading: a forward, and a reply to a message without an id,      *)
(* thread under nothing.                                                   *)
Threading(d) ==
  IF d.mode = "forward" \/ d.parent = None
  THEN [inReplyTo |-> None, references |-> <<>>]
  ELSE [inReplyTo |-> d.parent, references |-> CapReferences(Append(d.chain, d.parent))]

(* senderLabel: `name <address>`, never blank, cut to what the route takes;*)
(* a control character is stripped, but not from an address without a name.*)
Bare(from) == from.name = 0 /\ from.address # 0
LabelLength(from) ==
  LET n == IF from.address = 0 THEN from.name
           ELSE IF from.name = 0 THEN from.address
           ELSE from.name + 3 + (from.address - from.control)
  IN IF n = 0 THEN 14 ELSE IF n > Client.label THEN Client.label ELSE n
SenderLabel(from) ==
  [length |-> LabelLength(from),
   chars |-> IF Bare(from) /\ from.control # 0 THEN "control" ELSE "plain"]

(* Mutant: a body of any size is quoted.                                   *)
QuoteAnySize(d) ==
  IF d.html = None /\ d.text = None THEN None
  ELSE [bytes |-> IF d.html = None THEN d.text ELSE d.html, label |-> SenderLabel(d.from)]
(* buildQuoteSource: the HTML, or else the text, or no quote.              *)
Quote(d) ==
  LET bytes == IF d.html = None THEN d.text ELSE d.html
  IN IF bytes = None \/ ~(bytes <= Client.quote) THEN None
     ELSE [bytes |-> bytes, label |-> SenderLabel(d.from)]

(* replyWireFields and the body of sendMail.                               *)
Wire(d) ==
  [identity |-> d.identity, to |-> d.to, cc |-> d.cc, subject |-> d.subject,
   lineBreak |-> d.lineBreak, body |-> d.body,
   inReplyTo |-> Threading(d).inReplyTo, references |-> Threading(d).references,
   quote |-> Quote(d),
   attachments |-> [i \in DOMAIN d.files |->
      [name |-> d.files[i].name, type |-> TypeSent(d.files[i].type), size |-> d.files[i].size]]]

(* handleSubmit and the first await of submitDraft.                        *)
Submit ==
  /\ reason = "unsent"
  /\ IF ~ValidDraft(draft) \/ ~Attachable(draft.files)
     THEN reason' = "invalid" /\ UNCHANGED wire
     ELSE IF \E i \in DOMAIN draft.files : ~draft.files[i].readable
     THEN reason' = "unreadable" /\ UNCHANGED wire
     ELSE reason' = "sending" /\ wire' = Wire(draft)
  /\ UNCHANGED draft

---------------------------------------------------------------------------
(* isUsableMessageId.                                                      *)
UsableId(id) == id.length \in 1 .. Route.messageId /\ id.chars = "plain"

(* parseReferences: refused as a whole for one bad entry.                  *)
UsableReferences(refs) ==
  Len(refs) <= Route.references /\ \A i \in DOMAIN refs : UsableId(refs[i])

(* parseQuote.                                                             *)
UsableQuote(q) ==
  /\ q.bytes <= Route.quote
  /\ q.label.length \in 1 .. Route.label /\ q.label.chars = "plain"

(* parseReplyFields.                                                       *)
UsableReplyFields(w) ==
  /\ w.inReplyTo # None => UsableId(w.inReplyTo)
  /\ UsableReferences(w.references)
  /\ w.quote # None => UsableQuote(w.quote)

(* isUsableFilename, isUsableContentType.                                  *)
UsableFile(a) == a.name = "plain" /\ a.type \in {"plain", "fallback"}

(* parseAttachments: the limit is met as the files are added up.           *)
UsableAttachments(list) ==
  /\ Len(list) <= Route.files
  /\ \A i \in DOMAIN list : UsableFile(list[i])
  /\ \A i \in DOMAIN list : Total(Sizes(SubSeq(list, 1, i))) <= Route.fileBytes

(* parseSendBody: the first test that fails names the reason.              *)
ParseSendBody(w) ==
  IF w.identity \notin 1 .. Route.identity THEN "identityId"
  ELSE IF w.to = <<>> \/ ~UsableRecipients(w.to) THEN "to"
  ELSE IF ~UsableRecipients(w.cc) THEN "cc"
  ELSE IF Len(w.to) + Len(w.cc) > Route.recipients THEN "recipient_count"
  ELSE IF w.subject > Route.subject \/ w.lineBreak THEN "subject"
  ELSE IF w.body > Route.body THEN "textBody"
  ELSE IF ~UsableReplyFields(w) THEN "reply_fields"
  ELSE IF ~UsableAttachments(w.attachments) THEN "attachment"
  ELSE "ok"

Receive ==
  /\ reason = "sending"
  /\ reason' = ParseSendBody(wire)
  /\ UNCHANGED <<draft, wire>>

Next == Submit \/ Receive
Spec == Init /\ [][Next]_vars

---------------------------------------------------------------------------
(* willDegradeTracking.  Mutant: copies in Cc are not counted.             *)
WillDegradeTo(d) == Total(Sizes(d.files)) * Len(d.to) > Client.budget
WillDegrade(d) == Total(Sizes(d.files)) * (Len(d.to) + Len(d.cc)) > Client.budget

(* chooseTokenStrategy.                                                    *)
Shared(w) == Total(Sizes(w.attachments)) * (Len(w.to) + Len(w.cc)) > Route.budget

(* A draft the composer lets through is taken by the route, unless the     *)
(* message answered carries an id the route does not take, too long or     *)
(* with a control character in it, which no check of the client looks at;  *)
(* or is quoted, has a sender without a name, and a control character in   *)
(* the address.                                                            *)
TooLong(id) == id.length > Route.messageId
IdsOf(w) == {w.references[i] : i \in DOMAIN w.references}
               \union (IF w.inReplyTo = None THEN {} ELSE {w.inReplyTo})
LetThroughIsTaken ==
  /\ reason \in {"unsent", "invalid", "unreadable", "sending", "ok", "reply_fields"}
  /\ reason = "reply_fields" =>
       \/ \E id \in IdsOf(wire) : TooLong(id) \/ id.chars = "control"
       \/ wire.quote # None /\ Bare(draft.from) /\ draft.from.control # 0

(* The chain keeps the root that mail clients group by, and the message    *)
(* answered, whatever has to go (capReferences).                           *)
ChainKeepsItsEnds ==
  wire # None /\ wire.inReplyTo # None =>
    /\ wire.references[Len(wire.references)] = wire.inReplyTo
    /\ draft.chain # <<>> => Head(wire.references) = Head(draft.chain)

(* The composer's warning and the route's choice of one shared token are   *)
(* the same: who opened is never given up without saying so.               *)
WarningIsTrue == reason = "ok" => (WillDegrade(draft) <=> Shared(wire))

(* The inductive invariant: what is on the wire is a draft that passed the *)
(* composer's checks, and the route has said nothing else than what it     *)
(* says of that.                                                           *)
WireIsOfValidDraft ==
  reason \notin {"unsent", "invalid", "unreadable"} =>
    /\ ValidDraft(draft) /\ Attachable(draft.files)
    /\ wire = Wire(draft)
    /\ reason \in {"sending", ParseSendBody(wire)}

ContractInv == TypeOK /\ WireIsOfValidDraft
=============================================================================
