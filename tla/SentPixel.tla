------------------------------ MODULE SentPixel ------------------------------
(***************************************************************************)
(* Where a tracking pixel travels.  Every recipient's copy carries a pixel *)
(* of its own, the mail server files each copy in Sent, recipients quote   *)
(* what they read in their own clients, and the service takes its pixels   *)
(* out of every body it renders and of every original it quotes.  (Mail    *)
(* with heavy attachments shares one pixel: SendMail.)                     *)
(***************************************************************************)
EXTENDS Integers, Sequences, Functions, FiniteSets

CONSTANTS Me, Others,
          MaxTokens,   \* bound: tokens minted
          MaxParts,    \* bound: parts of a body
          MaxReplies   \* bound: mail the others send

VARIABLES box,      \* person -> mail: who it is from, and its body
          owner,    \* token -> the recipient it was minted for
          hits,     \* <<token, reader>>: the pixel was fetched
          replies
vars == <<box, owner, hits, replies>>

Tokens == 1 .. MaxTokens
(* A body is its text, the pictures of others and pixels, in order; 0 is a *)
(* picture and -1 a text.                                                  *)
Text == -1
Picture == 0
Bodies == UNION {[1 .. n -> {Text, Picture} \union Tokens] : n \in 1 .. MaxParts}
People == {Me} \union Others

TypeOK == /\ DOMAIN box = People
          /\ \A p \in People : \A mail \in box[p] :
               mail.from \in People /\ mail.body \in Bodies
          /\ \A t \in DOMAIN owner : t \in Tokens /\ owner[t] \in Others
          /\ hits \subseteq Tokens \X People /\ replies \in 0 .. MaxReplies

Init == /\ box = [p \in People |-> IF p = Me THEN {} ELSE {[from |-> p, body |-> <<Picture>>]}]
        /\ owner = << >> /\ hits = {} /\ replies = 0

TokensIn(body) == Range(body) \intersect Tokens

(*------------------------------ the service ------------------------------*)
(* Mutant: every remote picture is taken for a pixel.                      *)
IsRemote(part) == part # Text
(* isOwnPixelUrl: a picture is a pixel by the address it has, not by being *)
(* remote.                                                                 *)
IsOwnPixel(part) == part \in Tokens

(* stripOwnTrackingPixels: what is left of the first n parts is kept[n].   *)
Strip(body) ==
  LET kept[n \in 0 .. Len(body)] ==
        IF n = 0 THEN << >>
        ELSE IF IsOwnPixel(body[n]) THEN kept[n - 1] ELSE Append(kept[n - 1], body[n])
  IN kept[Len(body)]

(* Mutant: only the user's own mail is stripped.                           *)
RenderedOwnOnly(mail) == IF mail.from = Me THEN Strip(mail.body) ELSE mail.body
Rendered(mail) == Strip(mail.body)

(* Mutant: an original is quoted as it came.                               *)
QuoteVerbatim(body, html) == IF html THEN body ELSE <<Text>>
(* buildQuotedHtml: an original without html is quoted as escaped text.    *)
Quote(body, html) == IF html THEN Strip(body) ELSE <<Text>>

(* buildTrackedMessage: the text, the recipient's pixel, then the quote.   *)
Tracked(token, quote) == <<Text, token>> \o quote

(* handleSend: one token and one copy for each recipient; a copy each is   *)
(* filed in Sent.                                                          *)
Send(recipients, quote) ==
  LET first == Cardinality(DOMAIN owner) + 1
      order == CHOOSE s \in Bijection(1 .. Cardinality(recipients), recipients) : TRUE
      token == [p \in recipients |-> first + (CHOOSE i \in DOMAIN order : order[i] = p) - 1]
      copy == [p \in recipients |-> [from |-> Me, body |-> Tracked(token[p], quote)]]
  IN /\ first + Len(order) - 1 <= MaxTokens
     /\ Len(quote) + 2 <= MaxParts
     /\ owner' = [t \in DOMAIN owner \union {token[p] : p \in recipients} |->
                    IF t \in DOMAIN owner THEN owner[t]
                    ELSE CHOOSE p \in recipients : token[p] = t]
     /\ box' = [p \in People |->
                  IF p = Me THEN box[p] \union {copy[q] : q \in recipients}
                  ELSE IF p \in recipients THEN box[p] \union {copy[p]} ELSE box[p]]
     /\ UNCHANGED <<hits, replies>>

Compose(recipients) == Send(recipients, << >>)
Reply(recipients) == \E mail \in box[Me], html \in BOOLEAN :
                        Send(recipients, Quote(mail.body, html))

(* The reader's frame fetches every picture of the body it is given.       *)
ReadHere == \E mail \in box[Me] :
              /\ hits' = hits \union (TokensIn(Rendered(mail)) \X {Me})
              /\ UNCHANGED <<box, owner, replies>>

(*------------------------------- the others ------------------------------*)
ReadElsewhere(p) == \E mail \in box[p] :
                      /\ hits' = hits \union (TokensIn(mail.body) \X {p})
                      /\ UNCHANGED <<box, owner, replies>>

(* Another client quotes what it read whole, pixels included.              *)
ReplyElsewhere(p, to) ==
  \E mail \in box[p] :
    /\ replies < MaxReplies /\ replies' = replies + 1
    /\ Len(mail.body) < MaxParts
    /\ box' = [box EXCEPT ![to] = @ \union {[from |-> p, body |-> <<Text>> \o mail.body]}]
    /\ UNCHANGED <<owner, hits>>

Next == \/ \E recipients \in (SUBSET Others) \ {{}} : Compose(recipients) \/ Reply(recipients)
        \/ ReadHere
        \/ \E p \in Others : ReadElsewhere(p)
        \/ \E p \in Others : \E to \in People \ {p} : ReplyElsewhere(p, to)
Spec == Init /\ [][Next]_vars

(*------------------------------ properties -------------------------------*)
(* The user's own reading is never taken for an open: not of a copy in     *)
(* Sent, and not of a pixel that came back quoted.                         *)
OwnReadingIsSilent == \A hit \in hits : hit[2] # Me

(* What the user sends a person carries the pixel of that person and no    *)
(* other: quoting mail that quoted mine never speaks for an earlier reader.*)
CopiesCarryOnePixel ==
  \A p \in Others : \A mail \in box[p] :
    mail.from = Me => \A t \in TokensIn(mail.body) : owner[t] = p

(* Taking pixels out never costs a picture, however often a message is     *)
(* quoted back and forth.                                                  *)
PicturesSurvive ==
  \A mail \in box[Me] : Picture \in Range(mail.body) => Picture \in Range(Rendered(mail))

(* The inductive invariant: tokens are numbered as they are minted, and    *)
(* mail carries none that was not minted.                                  *)
TokensAreNumbered == DOMAIN owner = 1 .. Cardinality(DOMAIN owner)
PixelsAreMinted ==
  \A p \in People : \A mail \in box[p] : TokensIn(mail.body) \subseteq DOMAIN owner

PixelInv ==
  /\ TypeOK /\ TokensAreNumbered /\ PixelsAreMinted
  /\ CopiesCarryOnePixel /\ OwnReadingIsSilent
==============================================================================
