---------------------------- MODULE MCPartsProofs ----------------------------
(***************************************************************************)
(* What the service, the lists and the keys keep, one section for each as  *)
(* in PartsProofs.  The last section is about MCParts: a behaviour of the  *)
(* composition is a behaviour of one part, so the inductive invariants of  *)
(* the parts make one of the whole, and its properties hold for every size *)
(* of the parts.                                                           *)
(***************************************************************************)
EXTENDS MCParts, PartsProofs

-----------------------------------------------------------------------------
(* Sending: one copy per recipient, and a result for each.                 *)

\* The lists that may arrive are lists of recipients.
LEMMA ListsAreLists ==
  ASSUME NEW r \in Copies!Requests PROVE r.to \in Seq(CopiesRecipients) /\ Len(r.to) # 0
<1> DEFINE n == Cardinality(CopiesRecipients)
<1>1. n \in Nat /\ ExistsBijection(1 .. n, CopiesRecipients)
  BY CopiesAssumption, FS_CardinalityType
<1>2. Copies!Cardinality(CopiesRecipients) = n
  BY DEF Copies!Cardinality, Cardinality
<1> HIDE DEF n
<1>3. PICK f \in Bijection(1 .. n, CopiesRecipients) : TRUE
  BY <1>1 DEF ExistsBijection
<1>4. /\ f \in [1 .. n -> CopiesRecipients]
      /\ \A i, k \in DOMAIN f : f[i] = f[k] => i = k
  BY <1>3 DEF Bijection, Injection, IsInjective
<1>5. Copies!Order \in [1 .. n -> CopiesRecipients]
  BY <1>2, <1>4 DEF Copies!Order
<1>6. PICK k \in DOMAIN Copies!Order : r.to = [i \in 1 .. k |-> Copies!Order[i]]
  BY DEF Copies!Requests, Copies!Lists
<1>7. k \in 1 .. n /\ k \in Nat /\ k # 0
  BY <1>1, <1>5, <1>6
<1>8. r.to \in [1 .. k -> CopiesRecipients]
  BY <1>1, <1>5, <1>6, <1>7
<1>. QED
  BY <1>7, <1>8

\* A request that no step touches keeps its account.
LEMMA RequestKept ==
  ASSUME NEW i \in CopiesJobs, v4'[i] = v4[i], v5 \subseteq v5', v6 \subseteq v6',
         Copies!PhaseFits(i), Copies!TokensFit(i), Copies!ResultsFit(i)
  PROVE  Copies!PhaseFits(i)' /\ Copies!TokensFit(i)' /\ Copies!ResultsFit(i)'
<1>1. Copies!PhaseFits(i)'
  BY DEF Copies!PhaseFits
<1>2. Copies!TokensFit(i)'
  BY DEF Copies!TokensFit, Copies!Tried, Copies!TokenFor
<1>3. ASSUME NEW k, Copies!ResultFits(i, k) PROVE Copies!ResultFits(i, k)'
  BY <1>3 DEF Copies!ResultFits
<1>4. Copies!ResultsFit(i)'
  BY <1>3 DEF Copies!ResultsFit, Copies!Tried
<1>. QED
  BY <1>1, <1>2, <1>4

\* A step that touches one request, and adds to what was minted and delivered.
LEMMA OneRequestMoves ==
  ASSUME Copies!AccountInv, NEW j \in CopiesJobs, NEW value \in Copies!Job,
         v4' = [v4 EXCEPT ![j] = value], v5 \subseteq v5', v6 \subseteq v6',
         v1' \in 0 .. CopiesMaxNow,
         v2' \in [start : 0 .. CopiesMaxNow, used : 0 .. CopiesMaxAttempts],
         v3' \subseteq {"account"}, v5' \subseteq Copies!Tokens,
         v6' \subseteq [job : CopiesJobs, to : CopiesRecipients, token : Copies!Tokens],
         Copies!PhaseFits(j)', Copies!TokensFit(j)', Copies!ResultsFit(j)',
         Copies!CopiesFit'
  PROVE  Copies!AccountInv'
<1>1. DOMAIN v4 = CopiesJobs /\ \A i \in CopiesJobs : v4[i] \in Copies!Job
  BY DEF Copies!AccountInv, Copies!TypeOK
<1>2. /\ DOMAIN v4' = CopiesJobs /\ v4'[j] = value
      /\ \A i \in CopiesJobs : i # j => v4'[i] = v4[i]
  BY <1>1
<1>3. Copies!TypeOK'
  BY <1>1, <1>2 DEF Copies!TypeOK
<1>4. \A i \in CopiesJobs : i # j =>
        Copies!PhaseFits(i)' /\ Copies!TokensFit(i)' /\ Copies!ResultsFit(i)'
  BY <1>2, RequestKept DEF Copies!AccountInv
<1>. QED
  BY <1>3, <1>4 DEF Copies!AccountInv

\* A request answered without a copy has nothing to account for.
LEMMA RefusalFits ==
  ASSUME NEW j, NEW status \in {400, 404, 429, 502, 503}, NEW r \in Copies!Job,
         r.phase = "answered", r.status = status, v4'[j] = r
  PROVE  /\ Copies!PhaseFits(j)' /\ Copies!TokensFit(j)' /\ Copies!ResultsFit(j)'
         /\ ~Copies!Tried(j)'
<1>1. ~Copies!Tried(j)' /\ v4'[j].phase = "answered"
  BY DEF Copies!Tried
<1>. QED
  BY <1>1 DEF Copies!PhaseFits, Copies!TokensFit, Copies!ResultsFit

\* What left stays what it was while no request with copies is touched.
LEMMA CopiesKept ==
  ASSUME Copies!AccountInv, NEW j \in CopiesJobs, ~Copies!Tried(j), v6' = v6, v5 \subseteq v5',
         \A i \in CopiesJobs : i # j => v4'[i] = v4[i]
  PROVE  Copies!CopiesFit'
<1>1. ASSUME NEW d \in v6 PROVE d.job # j /\ d.job \in CopiesJobs /\ v4'[d.job] = v4[d.job]
  BY DEF Copies!AccountInv, Copies!CopiesFit, Copies!TypeOK
<1>. QED
  BY <1>1 DEF Copies!AccountInv, Copies!CopiesFit, Copies!Tried

\* What the account says of one job.
LEMMA SendTypes ==
  ASSUME Copies!AccountInv
  PROVE  /\ v1 \in 0 .. CopiesMaxNow
         /\ v2 \in [start : 0 .. CopiesMaxNow, used : 0 .. CopiesMaxAttempts]
         /\ v3 \subseteq {"account"} /\ DOMAIN v4 = CopiesJobs
         /\ \A i \in CopiesJobs : v4[i] \in Copies!Job
         /\ v5 \subseteq Copies!Tokens
         /\ v6 \subseteq [job : CopiesJobs, to : CopiesRecipients, token : Copies!Tokens]
  BY DEF Copies!AccountInv, Copies!TypeOK

\* A job whose phase, status and time change is a job, and the rest stays.
LEMMA JobChanges ==
  ASSUME NEW w \in Copies!Job, NEW p \in Copies!Phases, NEW s \in Copies!Statuses,
         NEW t \in 0 .. CopiesMaxNow, NEW u, u = [w EXCEPT !.phase = p, !.status = s, !.at = t]
  PROVE  /\ u \in Copies!Job /\ u.phase = p /\ u.status = s /\ u.at = t
         /\ u.results = w.results /\ u.request = w.request /\ u.retryAfter = w.retryAfter
  BY DEF Copies!Job

\* A job that has not come in yet.
LEMMA IdleIsJob ==
  /\ Copies!Idle \in Copies!Job /\ Copies!Idle.results = <<>> /\ Copies!Idle.status = 0
  /\ Copies!Idle.phase = "unsent" /\ Copies!Idle.at = 0 /\ Copies!Idle.retryAfter = 0
<1>1. /\ <<>> \in Seq(Copies!Tokens) /\ 0 \in Nat /\ 0 \in 0 .. CopiesMaxNow
      /\ <<>> \in Seq([to : CopiesRecipients, ok : BOOLEAN])
  <2>1. CopiesMaxNow \in Nat
    BY CopiesAssumption
  <2>. QED
    BY <2>1
<1>. QED
  BY <1>1 DEF Copies!Idle, Copies!Job, Copies!Phases, Copies!Statuses

\* A refusal is an answer with no result.
LEMMA RefusedIsAnswer ==
  ASSUME NEW status \in {400, 404, 429, 502, 503}, NEW at \in 0 .. CopiesMaxNow
  PROVE  /\ Copies!Refused(status, at) \in Copies!Job
         /\ Copies!Refused(status, at).phase = "answered"
         /\ Copies!Refused(status, at).status = status
         /\ Copies!Refused(status, at).at = at
         /\ Copies!Refused(status, at).results = <<>>
         /\ Copies!Refused(status, at).retryAfter = 0
<1>1. "answered" \in Copies!Phases /\ status \in Copies!Statuses
  BY DEF Copies!Phases, Copies!Statuses
<1> DEFINE w == Copies!Idle
           u == Copies!Refused(status, at)
<1>2. u = [w EXCEPT !.phase = "answered", !.status = status, !.at = at]
  BY DEF Copies!Refused
<1>. w \in Copies!Job
  BY IdleIsJob
<1> HIDE DEF u, w
<1>3. /\ u \in Copies!Job /\ u.phase = "answered" /\ u.status = status /\ u.at = at
      /\ u.results = w.results /\ u.retryAfter = w.retryAfter
  BY <1>1, <1>2 DEF Copies!Job
<1>. QED
  BY <1>3, IdleIsJob DEF u, w

\* The steps of one request, as far as its account goes.
LEMMA MintFailsKeepsAccount ==
  ASSUME Copies!AccountInv, NEW j \in CopiesJobs, Copies!MintFails(j) PROVE Copies!AccountInv'
<1> DEFINE value == Copies!Refused(502, v4[j].at)
<1>1. v4[j] \in Copies!Job
  BY SendTypes
<1>2. v4[j].at \in 0 .. CopiesMaxNow
  BY <1>1 DEF Copies!Job
<1>3. value \in Copies!Job /\ value.phase = "answered" /\ value.status = 502
  BY <1>2, RefusedIsAnswer
<1>4. v4' = [v4 EXCEPT ![j] = value] /\ UNCHANGED <<v1, v2, v3, v5, v6>> /\ v4[j].phase = "minting"
  BY DEF Copies!MintFails
<1> HIDE DEF value
<1>5. v4'[j] = value /\ \A i \in CopiesJobs : i # j => v4'[i] = v4[i]
  BY <1>4, SendTypes
<1>6. Copies!PhaseFits(j)' /\ Copies!TokensFit(j)' /\ Copies!ResultsFit(j)'
  BY <1>3, <1>5, RefusalFits
<1>7. ~Copies!Tried(j)
  BY <1>4 DEF Copies!Tried
<1>8. Copies!CopiesFit'
  BY <1>4, <1>5, <1>7, CopiesKept
<1>. QED
  BY <1>3, <1>4, <1>6, <1>8, SendTypes, OneRequestMoves

\* The tokens answered are the request's own, in its order, or it is refused.
LEMMA AnswersAreTokens ==
  ASSUME NEW j \in CopiesJobs, v4[j].request \in Copies!Requests, NEW answer \in Copies!Answers(j)
  PROVE  /\ answer \in Seq(Copies!Tokens)
         /\ \A i \in 1 .. Len(answer) : answer[i].job = j
<1> DEFINE wanted == Copies!MintRecipients(v4[j].request)
           n == Len(wanted)
           right == [i \in 1 .. n |-> Copies!Token(j, wanted[i])]
<1>1. wanted \in Seq(CopiesRecipients \union {Copies!SharedRecipient})
  <2> DEFINE to == v4[j].request.to
             S == CopiesRecipients \union {Copies!SharedRecipient}
  <2>1. to \in Seq(CopiesRecipients)
    BY ListsAreLists
  <2> HIDE DEF to
  <2>2. to \in Seq(S)
    BY <2>1
  <2>3. <<Copies!SharedRecipient>> \in Seq(S)
    BY DEF Copies!SharedRecipient
  <2>4. wanted = to \/ wanted = <<Copies!SharedRecipient>>
    BY DEF Copies!MintRecipients, to
  <2> HIDE DEF S, wanted
  <2>5. wanted \in Seq(S)
    BY <2>2, <2>3, <2>4
  <2>. QED
    BY <2>5 DEF S
<1> HIDE DEF wanted
<1>2. n \in Nat /\ \A i \in 1 .. n : wanted[i] \in CopiesRecipients \union {Copies!SharedRecipient}
  BY <1>1
<1> HIDE DEF n
<1>3. \A i \in 1 .. n : right[i] \in Copies!Tokens /\ right[i].job = j
  BY <1>2 DEF Copies!Token, Copies!Tokens
<1>4. answer \in {right, [i \in 1 .. n |-> right[n + 1 - i]], [i \in 1 .. n - 1 |-> right[i]]}
  BY DEF Copies!Answers, wanted, n
<1> HIDE DEF right
<1>5. CASE answer = right
  <2>1. right = [i \in 1 .. n |-> right[i]]
    BY DEF right
  <2>. QED
    BY <1>2, <1>3, <1>5, <2>1
<1>6. CASE answer = [i \in 1 .. n |-> right[n + 1 - i]]
  <2>1. \A i \in 1 .. n : n + 1 - i \in 1 .. n
    BY <1>2
  <2>2. \A i \in 1 .. n : right[n + 1 - i] \in Copies!Tokens /\ right[n + 1 - i].job = j
    BY <1>3, <2>1
  <2>3. answer \in [1 .. n -> Copies!Tokens] /\ \A i \in 1 .. n : answer[i] = right[n + 1 - i]
    BY <1>6, <2>2
  <2>4. answer \in Seq(Copies!Tokens) /\ Len(answer) = n
    BY <1>2, <2>3
  <2>. QED
    BY <2>2, <2>3, <2>4
<1>7. CASE answer = [i \in 1 .. n - 1 |-> right[i]]
  <2>1. \A i \in 1 .. n - 1 : i \in 1 .. n
    BY <1>2
  <2>2. n - 1 \in Nat \/ 1 .. n - 1 = {}
    BY <1>2
  <2>3. CASE n - 1 \in Nat
    BY <1>3, <1>7, <2>1, <2>3
  <2>4. CASE 1 .. n - 1 = {}
    <3>1. answer = <<>>
      BY <1>7, <2>4
    <3>. QED
      BY <3>1
  <2>. QED
    BY <2>2, <2>3, <2>4
<1>. QED
  BY <1>4, <1>5, <1>6, <1>7

\* The tokens are minted.
LEMMA MintedKeepsAccount ==
  ASSUME Copies!AccountInv, NEW j \in CopiesJobs, Copies!Minted(j) PROVE Copies!AccountInv'
<1> DEFINE r == v4[j].request
<1>1. /\ v4[j] \in Copies!Job /\ v4[j].phase = "minting"
      /\ UNCHANGED <<v1, v2, v3, v6>>
  BY SendTypes DEF Copies!Minted
<1>2. /\ v4[j].results = <<>> /\ r # None /\ v4[j].status = 0
  BY <1>1 DEF Copies!AccountInv, Copies!PhaseFits
<1>3. r \in Copies!Requests /\ v4[j].at \in 0 .. CopiesMaxNow
  BY <1>1, <1>2 DEF Copies!Job
<1>4. PICK answer \in Copies!Answers(j) :
        /\ v5' = v5 \union {answer[i] : i \in DOMAIN answer}
        /\ v4' = [v4 EXCEPT ![j] =
             IF Copies!Matches(r, answer)
             THEN [v4[j] EXCEPT !.phase = "copying", !.tokens = Copies!Paired(r, answer)]
             ELSE Copies!Refused(502, v4[j].at)]
  BY DEF Copies!Minted
<1>5. /\ answer \in Seq(Copies!Tokens)
      /\ \A i \in 1 .. Len(answer) : answer[i].job = j
  BY <1>3, AnswersAreTokens
<1>6. /\ v5 \subseteq v5' /\ v5' \subseteq Copies!Tokens
      /\ \A i \in 1 .. Len(answer) : answer[i] \in v5'
  BY <1>4, <1>5, SendTypes
<1>7. ~Copies!Tried(j)
  BY <1>1 DEF Copies!Tried
<1>8. \A i \in CopiesJobs : i # j => v4'[i] = v4[i]
  BY <1>4, SendTypes
<1>9. Copies!CopiesFit'
  BY <1>1, <1>6, <1>7, <1>8, CopiesKept
<1>10. CASE ~Copies!Matches(r, answer)
  <2> DEFINE value == Copies!Refused(502, v4[j].at)
  <2>1. value \in Copies!Job /\ value.phase = "answered" /\ value.status = 502
    BY <1>3, RefusedIsAnswer
  <2>2. v4' = [v4 EXCEPT ![j] = value]
    BY <1>4, <1>10
  <2> HIDE DEF value
  <2>3. v4'[j] = value
    BY <2>2, SendTypes
  <2>4. Copies!PhaseFits(j)' /\ Copies!TokensFit(j)' /\ Copies!ResultsFit(j)'
    BY <2>1, <2>3, RefusalFits
  <2>. QED
    BY <1>1, <1>6, <1>9, <2>1, <2>2, <2>4, SendTypes, OneRequestMoves
<1>11. CASE Copies!Matches(r, answer)
  <2> DEFINE tokens == Copies!Paired(r, answer)
             value == [v4[j] EXCEPT !.phase = "copying", !.tokens = tokens]
  <2>1. r.to \in Seq(CopiesRecipients) /\ Len(r.to) # 0
    BY <1>3, ListsAreLists
  <2>2. /\ Len(answer) = Len(Copies!MintRecipients(r))
        /\ \A i \in 1 .. Len(answer) : answer[i].recipient = Copies!MintRecipients(r)[i]
    BY <1>5, <1>11 DEF Copies!Matches
  <2>3. \A i \in 1 .. Len(answer) : answer[i] = Copies!Token(j, Copies!MintRecipients(r)[i])
    <3>1. ASSUME NEW k \in Copies!Tokens PROVE k = [job |-> k.job, recipient |-> k.recipient]
      BY DEF Copies!Tokens
    <3>2. ASSUME NEW i \in 1 .. Len(answer)
          PROVE  answer[i] = [job |-> j, recipient |-> Copies!MintRecipients(r)[i]]
      <4>1. answer[i] \in Copies!Tokens /\ answer[i].job = j
        BY <1>5
      <4>2. answer[i].recipient = Copies!MintRecipients(r)[i]
        BY <2>2
      <4>. QED
        BY <3>1, <4>1, <4>2
    <3>. QED
      BY <3>2 DEF Copies!Token
  <2>4. /\ tokens \in Seq(Copies!Tokens) /\ Len(tokens) = Len(r.to)
        /\ \A i \in 1 .. Len(tokens) :
             /\ tokens[i] = Copies!Token(j, IF Copies!Shared(r) THEN Copies!SharedRecipient
                                                                ELSE r.to[i])
             /\ tokens[i] \in v5'
    <3>1. CASE Copies!Shared(r)
      <4>1. Len(answer) = 1 /\ answer[1] = Copies!Token(j, Copies!SharedRecipient)
        BY <2>2, <2>3, <3>1 DEF Copies!MintRecipients
      <4>2. answer[1] \in Copies!Tokens /\ answer[1] \in v5'
        BY <1>5, <1>6, <4>1
      <4>3. tokens = [i \in 1 .. Len(r.to) |-> answer[1]]
        BY <2>1, <3>1 DEF Copies!Paired
      <4>. QED
        BY <2>1, <3>1, <4>1, <4>2, <4>3
    <3>2. CASE ~Copies!Shared(r)
      <4>1. tokens = answer /\ Copies!MintRecipients(r) = r.to
        BY <3>2 DEF Copies!Paired, Copies!MintRecipients
      <4>. QED
        BY <1>5, <1>6, <2>2, <2>3, <3>2, <4>1
    <3>. QED
      BY <3>1, <3>2
  <2> HIDE DEF tokens
  <2>5. /\ value \in Copies!Job /\ value.phase = "copying" /\ value.tokens = tokens
        /\ value.request = r /\ value.results = <<>> /\ value.status = 0
    BY <1>1, <1>2, <2>4 DEF Copies!Job, Copies!Phases
  <2>6. v4' = [v4 EXCEPT ![j] = value]
    BY <1>4, <1>11 DEF tokens
  <2> HIDE DEF value
  <2>7. v4'[j] = value
    BY <2>6, SendTypes
  <2> HIDE DEF r
  <2>8. Copies!PhaseFits(j)'
    BY <2>5, <2>7 DEF Copies!PhaseFits
  <2>9. Copies!TokensFit(j)'
    BY <1>2, <2>4, <2>5, <2>7 DEF Copies!TokensFit, Copies!TokenFor
  <2>10. Copies!ResultsFit(j)'
    <3>1. Len(v4'[j].results) = 0 /\ v4'[j].phase = "copying" /\ Len(v4'[j].tokens) = Len(r.to)
      BY <2>4, <2>5, <2>7
    <3>2. Len(v4'[j].results) < Len(v4'[j].tokens) /\ 1 .. Len(v4'[j].results) = {}
      BY <2>1, <3>1
    <3>. QED
      BY <3>1, <3>2 DEF Copies!ResultsFit
  <2>. QED
    BY <1>1, <1>6, <1>9, <2>5, <2>6, <2>8, <2>9, <2>10, SendTypes, OneRequestMoves
<1>. QED
  BY <1>10, <1>11

\* One copy more, and its result at the end.
LEMMA CopyKeepsAccount ==
  ASSUME Copies!AccountInv, NEW j \in CopiesJobs, NEW ok \in BOOLEAN, NEW left \in BOOLEAN,
         Copies!Copy(j, ok, left)
  PROVE  Copies!AccountInv'
<1> DEFINE results == v4[j].results
           tokens == v4[j].tokens
           r == v4[j].request
           i == Len(results) + 1
           copy == [job |-> j, to |-> r.to[i], token |-> tokens[i]]
           phase == Copies!Proceeds(j, ok)
           status == IF phase = "answered" THEN 200 ELSE 0
           value == Copies!Copied(j, ok)
<1>1. /\ v4[j] \in Copies!Job /\ v4[j].phase = "copying" /\ UNCHANGED <<v1, v2, v3, v5>>
      /\ ok => left
      /\ v6' = IF left THEN v6 \union {copy} ELSE v6
  BY SendTypes DEF Copies!Copy
<1>2. v4' = [v4 EXCEPT ![j] = value]
  BY DEF Copies!Copy
<1>3. Copies!Tried(j) /\ Copies!TokensFit(j) /\ Copies!ResultsFit(j)
  BY <1>1 DEF Copies!Tried, Copies!AccountInv
<1>4. /\ r # None /\ Len(tokens) = Len(r.to)
      /\ \A k \in 1 .. Len(tokens) : tokens[k] = Copies!TokenFor(j, k) /\ tokens[k] \in v5
  BY <1>3 DEF Copies!TokensFit
<1>5. Len(results) < Len(tokens) /\ \A k \in 1 .. Len(results) : Copies!ResultFits(j, k)
  BY <1>1, <1>3 DEF Copies!ResultsFit
<1>6. /\ r \in Copies!Requests /\ tokens \in Seq(Copies!Tokens)
      /\ results \in Seq([to : CopiesRecipients, ok : BOOLEAN])
  BY <1>1, <1>4 DEF Copies!Job
<1>7. r.to \in Seq(CopiesRecipients)
  BY <1>6, ListsAreLists
<1>8. /\ phase = IF i < Len(tokens) THEN "copying" ELSE "answered"
      /\ phase \in Copies!Phases /\ status \in Copies!Statuses
  BY DEF Copies!Proceeds, Copies!Phases, Copies!Statuses
<1> HIDE DEF results, tokens, r, copy, phase, status
<1>9. i \in 1 .. Len(tokens) /\ i \in 1 .. Len(r.to) /\ i <= Len(tokens)
  BY <1>4, <1>5, <1>6, <1>7
<1>10. tokens[i] \in Copies!Tokens /\ r.to[i] \in CopiesRecipients
  BY <1>6, <1>7, <1>9
<1>11. /\ copy \in [job : CopiesJobs, to : CopiesRecipients, token : Copies!Tokens]
       /\ copy.job = j /\ copy.to = r.to[i] /\ copy.token = tokens[i]
  BY <1>10 DEF copy
<1> DEFINE more == Append(results, Copies!Result(r.to[i], ok))
<1>12. /\ more \in Seq([to : CopiesRecipients, ok : BOOLEAN])
       /\ Len(more) = Len(results) + 1
       /\ \A k \in 1 .. Len(results) : more[k] = results[k]
       /\ more[Len(results) + 1] = Copies!Result(r.to[i], ok)
  <2> DEFINE last == Copies!Result(r.to[i], ok)
  <2>1. last \in [to : CopiesRecipients, ok : BOOLEAN]
    BY <1>10 DEF Copies!Result
  <2> HIDE DEF last
  <2>2. /\ Append(results, last) \in Seq([to : CopiesRecipients, ok : BOOLEAN])
        /\ Len(Append(results, last)) = Len(results) + 1
        /\ \A k \in 1 .. Len(results) : Append(results, last)[k] = results[k]
        /\ Append(results, last)[Len(results) + 1] = last
    BY <1>6, <2>1
  <2>. QED
    BY <2>2 DEF last
<1> HIDE DEF more
<1>13. /\ value \in Copies!Job /\ value.phase = phase /\ value.status = status
       /\ value.results = more /\ value.tokens = tokens /\ value.request = r
  <2> DEFINE w == v4[j]
  <2>1. value = [w EXCEPT !.results = more, !.phase = phase, !.status = status]
    BY DEF Copies!Copied, Copies!Status, more, phase, status, results, r
  <2>2. w \in Copies!Job /\ w.tokens = tokens /\ w.request = r
    BY <1>1 DEF tokens, r
  <2> HIDE DEF w, value
  <2>. QED
    BY <1>8, <1>12, <2>1, <2>2 DEF Copies!Job
<1> HIDE DEF value
<1>14. v4'[j] = value /\ \A k \in CopiesJobs : k # j => v4'[k] = v4[k]
  BY <1>2, SendTypes
<1>15. Copies!Tried(j)'
  BY <1>8, <1>13, <1>14 DEF Copies!Tried, status
<1>16. Copies!PhaseFits(j)'
  BY <1>8, <1>13, <1>14 DEF Copies!PhaseFits, status
<1>17. Copies!TokensFit(j)'
  BY <1>1, <1>4, <1>13, <1>14 DEF Copies!TokensFit, Copies!TokenFor, tokens, r
<1>18. v6 \subseteq v6' /\ (ok => copy \in v6')
  BY <1>1
<1>19. Copies!ResultsFit(j)'
  <2>0. v4'[j].results = more /\ v4'[j].request = r /\ v4[j].results = results /\ v4[j].request = r
    BY <1>13, <1>14 DEF results, r
  <2>01. ASSUME NEW k, Copies!ResultFits(j, k), more[k] = results[k] PROVE Copies!ResultFits(j, k)'
    BY <1>18, <2>0, <2>01 DEF Copies!ResultFits
  <2>1. ASSUME NEW k \in 1 .. Len(results) PROVE Copies!ResultFits(j, k)'
    BY <1>5, <1>12, <2>01
  <2>02. ASSUME NEW k, more[k] = Copies!Result(r.to[k], ok), copy.to = r.to[k]
         PROVE  Copies!ResultFits(j, k)'
    <3>1. more[k].to = r.to[k] /\ (more[k].ok <=> ok)
      BY <2>02 DEF Copies!Result
    <3>2. ok => \E d \in v6' : d.job = j /\ d.to = r.to[k]
      BY <1>11, <1>18, <2>02
    <3>. QED
      BY <2>0, <3>1, <3>2 DEF Copies!ResultFits
  <2>2. ASSUME NEW k, k = i PROVE Copies!ResultFits(j, k)'
    <3>1. more[k] = Copies!Result(r.to[k], ok) /\ copy.to = r.to[k]
      BY <1>11, <1>12, <2>2
    <3>. QED
      BY <2>02, <3>1
  <2>3. ASSUME NEW k \in 1 .. Len(more) PROVE Copies!ResultFits(j, k)'
    <3>1. k \in 1 .. Len(results) \/ k = i
      BY <1>6, <1>12
    <3>. QED
      BY <2>1, <2>2, <3>1
  <2>4. /\ v4'[j].results = more /\ v4'[j].tokens = tokens
        /\ phase = "copying" => Len(more) < Len(tokens)
        /\ phase # "copying" => Len(more) = Len(tokens)
    BY <1>6, <1>8, <1>9, <1>12, <1>13, <1>14
  <2>. QED
    BY <1>13, <1>14, <2>3, <2>4 DEF Copies!ResultsFit
<1>20. Copies!CopiesFit'
  <2>1. ASSUME NEW d \in v6
        PROVE  /\ Copies!Tried(d.job)' /\ d.token \in v5 /\ v4'[d.job].request = v4[d.job].request
               /\ d.token = Copies!Token(d.job,
                    IF Copies!Shared(v4[d.job].request) THEN Copies!SharedRecipient ELSE d.to)
    <3>1. /\ d.job \in CopiesJobs /\ Copies!Tried(d.job) /\ d.token \in v5
          /\ d.token = Copies!Token(d.job,
               IF Copies!Shared(v4[d.job].request) THEN Copies!SharedRecipient ELSE d.to)
      BY DEF Copies!AccountInv, Copies!TypeOK, Copies!CopiesFit
    <3>2. CASE d.job = j
      BY <1>13, <1>14, <1>15, <3>1, <3>2 DEF r
    <3>3. CASE d.job # j
      BY <1>14, <3>1, <3>3 DEF Copies!Tried
    <3>. QED
      BY <3>2, <3>3
  <2>2. /\ copy.token \in v5
        /\ copy.token = Copies!Token(j, IF Copies!Shared(r) THEN Copies!SharedRecipient ELSE copy.to)
    BY <1>4, <1>9, <1>11 DEF Copies!TokenFor, r
  <2>3. v5' = v5 /\ v6' \subseteq v6 \union {copy} /\ v4'[j].request = r
    BY <1>1, <1>13, <1>14
  <2>. QED
    BY <1>11, <1>15, <2>1, <2>2, <2>3 DEF Copies!CopiesFit
<1>. QED
  BY <1>1, <1>2, <1>11, <1>13, <1>16, <1>17, <1>19, <1>20, SendTypes, OneRequestMoves

\* The window of the moment: the one it was, or a new one from now.
LEMMA CurrentWindowNow ==
  ASSUME Copies!AccountInv
  PROVE  LET w == Copies!CurrentWindow(v2)
         IN /\ w \in [start : 0 .. CopiesMaxNow, used : 0 .. CopiesMaxAttempts]
            /\ \/ w = v2 /\ v1 - v2.start < CopiesWindow
               \/ w = [start |-> v1, used |-> 0] /\ v1 - v2.start >= CopiesWindow
<1>1. /\ v1 \in 0 .. CopiesMaxNow
      /\ v2 \in [start : 0 .. CopiesMaxNow, used : 0 .. CopiesMaxAttempts]
  BY SendTypes
<1>2. CopiesMaxAttempts \in Nat /\ CopiesWindow \in Nat
  BY CopiesAssumption
<1>3. 0 \in 0 .. CopiesMaxAttempts /\ v2.start \in Int /\ v1 \in Int
  BY <1>1, <1>2
<1>. QED
  BY <1>1, <1>2, <1>3 DEF Copies!CurrentWindow

\* The wait a refusal names is a number of seconds.
LEMMA RetryAfterIsNat ==
  ASSUME Copies!AccountInv, NEW w \in [start : 0 .. CopiesMaxNow, used : 0 .. CopiesMaxAttempts]
  PROVE  Copies!RetryAfter(w) \in Nat
<1> DEFINE up == (w.start + CopiesWindow - v1 + CopiesSecond - 1) \div CopiesSecond
<1>1. w.start \in Int /\ v1 \in Int /\ CopiesWindow \in Int /\ CopiesSecond \in Nat \ {0}
  BY SendTypes, CopiesAssumption
<1>2. up \in Int
  BY <1>1
<1>3. Copies!RetryAfter(w) = IF up < 1 THEN 1 ELSE up
  BY DEF Copies!RetryAfter
<1> HIDE DEF up
<1>. QED
  BY <1>2, <1>3

\* What an arriving request becomes: admitted, answered at once, or told to wait.
Arrived(j, w, value) ==
  /\ value \in Copies!Job /\ value.at = v1
  /\ v4[j].phase = "unsent" /\ v4' = [v4 EXCEPT ![j] = value]
  /\ v3' \subseteq {"account"} /\ UNCHANGED <<v1, v5, v6>>
  /\ \/ /\ w.used >= CopiesMaxAttempts /\ v2' = w
        /\ value.phase = "answered" /\ value.status = 429
        /\ value.retryAfter = Copies!RetryAfter(w)
     \/ /\ ~(w.used >= CopiesMaxAttempts)
        /\ v2' = [w EXCEPT !.used = @ + 1]
        /\ \/ /\ value.phase = "minting" /\ value.status = 0 /\ value.results = <<>>
              /\ value.request # None
           \/ value.phase = "answered" /\ value.status \in {400, 404, 502, 503}

\* Every way to come in is an arrival as Arrives says.
LEMMA ArriveArrives ==
  ASSUME Copies!AccountInv, NEW j \in CopiesJobs, NEW r \in Copies!Requests,
         NEW tracking \in BOOLEAN, NEW transports \in BOOLEAN,
         Copies!Arrive(j, r, tracking, transports)
  PROVE  \E value : Arrived(j, Copies!CurrentWindow(v2), value)
<1> DEFINE w == Copies!CurrentWindow(v2)
           status == Copies!Check(r, tracking, transports)
<1>1. w \in [start : 0 .. CopiesMaxNow, used : 0 .. CopiesMaxAttempts]
  BY CurrentWindowNow
<1>2. status \in {200, 400, 404, 502, 503}
  BY DEF Copies!Check
<1>3. v1 \in 0 .. CopiesMaxNow /\ v3 \subseteq {"account"}
  BY SendTypes
<1>4. v4[j].phase = "unsent" /\ UNCHANGED <<v1, v5, v6>>
  BY DEF Copies!Arrive
<1> HIDE DEF w, status
<1>5. CASE w.used >= CopiesMaxAttempts
  <2> DEFINE refused == Copies!Refused(429, v1)
             retry == Copies!RetryAfter(w)
             value == [refused EXCEPT !.retryAfter = retry]
  <2>1. v4' = [v4 EXCEPT ![j] = value] /\ v2' = w /\ v3' = v3
    BY <1>5 DEF Copies!Arrive, w
  <2>2. refused \in Copies!Job /\ refused.phase = "answered" /\ refused.status = 429
        /\ refused.at = v1
    BY <1>3, RefusedIsAnswer
  <2>3. retry \in Nat
    BY <1>1, RetryAfterIsNat
  <2> HIDE DEF refused, retry
  <2>4. /\ value \in Copies!Job /\ value.phase = "answered" /\ value.status = 429
        /\ value.at = v1 /\ value.retryAfter = retry
    BY <2>2, <2>3 DEF Copies!Job
  <2> HIDE DEF value
  <2>5. Arrived(j, w, value)
    BY <1>3, <1>4, <1>5, <2>1, <2>4 DEF Arrived, retry
  <2>. QED
    BY <2>5 DEF w
<1>6. CASE ~(w.used >= CopiesMaxAttempts)
  <2>1. v2' = [w EXCEPT !.used = @ + 1] /\ v3' \subseteq {"account"}
    BY <1>3, <1>6 DEF Copies!Arrive, w
  <2>2. CASE status = 200
    <3> DEFINE idle == Copies!Idle
               value == [idle EXCEPT !.phase = "minting", !.request = r, !.at = v1]
    <3>1. v4' = [v4 EXCEPT ![j] = value]
      BY <1>6, <2>2 DEF Copies!Arrive, w, status
    <3>2. idle \in Copies!Job /\ idle.results = <<>> /\ idle.status = 0
      BY IdleIsJob
    <3> HIDE DEF idle
    <3>3. /\ value \in Copies!Job /\ value.phase = "minting" /\ value.status = 0
          /\ value.results = <<>> /\ value.request = r /\ value.at = v1
      BY <1>3, <3>2 DEF Copies!Job, Copies!Phases
    <3>4. r # None
      BY CopiesAssumption
    <3> HIDE DEF value
    <3>5. Arrived(j, w, value)
      BY <1>4, <1>6, <2>1, <3>1, <3>3, <3>4 DEF Arrived
    <3>. QED
      BY <3>5 DEF w
  <2>3. CASE status # 200
    <3> DEFINE value == Copies!Refused(status, v1)
    <3>1. v4' = [v4 EXCEPT ![j] = value]
      BY <1>6, <2>3 DEF Copies!Arrive, w, status
    <3>2. status \in {400, 404, 502, 503}
      BY <1>2, <2>3
    <3>3. value \in Copies!Job /\ value.phase = "answered" /\ value.status = status /\ value.at = v1
      BY <1>3, <3>2, RefusedIsAnswer
    <3> HIDE DEF value
    <3>4. Arrived(j, w, value)
      BY <1>4, <1>6, <2>1, <3>1, <3>2, <3>3 DEF Arrived
    <3>. QED
      BY <3>4 DEF w
  <2>. QED
    BY <2>2, <2>3
<1>. QED
  BY <1>5, <1>6

\* The window that an arrival leaves.
LEMMA ArrivedWindow ==
  ASSUME Copies!AccountInv, NEW j \in CopiesJobs, NEW value,
         Arrived(j, Copies!CurrentWindow(v2), value)
  PROVE  LET w == Copies!CurrentWindow(v2)
         IN /\ v2' \in [start : 0 .. CopiesMaxNow, used : 0 .. CopiesMaxAttempts]
            /\ v2'.start = w.start
            /\ \/ value.status = 429 /\ v2'.used = w.used
               \/ value.status # 429 /\ v2'.used = w.used + 1
<1> DEFINE w == Copies!CurrentWindow(v2)
<1>1. w \in [start : 0 .. CopiesMaxNow, used : 0 .. CopiesMaxAttempts]
  BY CurrentWindowNow
<1> HIDE DEF w
<1>2. CopiesMaxAttempts \in Nat
  BY CopiesAssumption
<1>3. CASE w.used >= CopiesMaxAttempts /\ v2' = w /\ value.status = 429
  BY <1>1, <1>3 DEF w
<1>4. CASE ~(w.used >= CopiesMaxAttempts) /\ v2' = [w EXCEPT !.used = @ + 1] /\ value.status # 429
  <2>1. w.used + 1 \in 0 .. CopiesMaxAttempts
    BY <1>1, <1>2, <1>4
  <2>2. v2' = [start |-> w.start, used |-> w.used + 1]
    BY <1>1, <1>4
  <2>. QED
    BY <1>1, <1>4, <2>1, <2>2 DEF w
<1>. QED
  BY <1>3, <1>4 DEF Arrived, w

\* A request that comes in.
LEMMA ArriveKeepsAccount ==
  ASSUME Copies!AccountInv, NEW j \in CopiesJobs, NEW value,
         Arrived(j, Copies!CurrentWindow(v2), value)
  PROVE  Copies!AccountInv'
<1>1. /\ v2' \in [start : 0 .. CopiesMaxNow, used : 0 .. CopiesMaxAttempts]
      /\ v1' \in 0 .. CopiesMaxNow
  BY ArrivedWindow, SendTypes DEF Arrived
<1>2. /\ value \in Copies!Job /\ v4[j].phase = "unsent" /\ v4' = [v4 EXCEPT ![j] = value]
      /\ v3' \subseteq {"account"} /\ UNCHANGED <<v1, v5, v6>>
  BY DEF Arrived
<1>3. v4'[j] = value /\ \A i \in CopiesJobs : i # j => v4'[i] = v4[i]
  BY <1>2, SendTypes
<1>4. /\ Copies!PhaseFits(j)' /\ Copies!TokensFit(j)' /\ Copies!ResultsFit(j)'
  <2>1. CASE value.phase = "answered" /\ value.status \in {400, 404, 429, 502, 503}
    BY <1>2, <1>3, <2>1, RefusalFits
  <2>2. CASE /\ value.phase = "minting" /\ value.status = 0 /\ value.results = <<>>
             /\ value.request # None
    <3>1. Copies!PhaseFits(j)'
      BY <1>3, <2>2 DEF Copies!PhaseFits
    <3>2. ~Copies!Tried(j)'
      BY <1>3, <2>2 DEF Copies!Tried
    <3>. QED
      BY <3>1, <3>2 DEF Copies!TokensFit, Copies!ResultsFit
  <2>. QED
    BY <2>1, <2>2 DEF Arrived
<1>5. ~Copies!Tried(j)
  BY <1>2 DEF Copies!Tried
<1>6. Copies!CopiesFit'
  BY <1>2, <1>3, <1>5, CopiesKept
<1>. QED
  BY <1>1, <1>2, <1>4, <1>6, SendTypes, OneRequestMoves

\* Time passes.
LEMMA TickKeepsAccount == ASSUME Copies!AccountInv, Copies!Tick PROVE Copies!AccountInv'
<1>1. v1 \in 0 .. CopiesMaxNow /\ v1 < CopiesMaxNow /\ v1' = v1 + 1
  BY SendTypes DEF Copies!Tick
<1>2. v1' \in 0 .. CopiesMaxNow
  <2>1. CopiesMaxNow \in Nat
    BY CopiesAssumption
  <2>. QED
    BY <1>1, <2>1
<1>3. UNCHANGED <<v2, v3, v4, v5, v6>>
  BY DEF Copies!Tick
<1>4. \A i \in CopiesJobs :
        Copies!PhaseFits(i)' /\ Copies!TokensFit(i)' /\ Copies!ResultsFit(i)'
  BY <1>3, RequestKept DEF Copies!AccountInv
<1>5. Copies!CopiesFit'
  BY <1>3 DEF Copies!AccountInv, Copies!CopiesFit, Copies!Tried
<1>6. Copies!TypeOK'
  BY <1>2, <1>3 DEF Copies!AccountInv, Copies!TypeOK
<1>. QED
  BY <1>4, <1>5, <1>6 DEF Copies!AccountInv

\* What the run asks follows from the account.
LEMMA AccountHolds ==
  ASSUME Copies!AccountInv
  PROVE  /\ Copies!CopyCarriesItsToken /\ Copies!RefusedSentNothing
         /\ Copies!ResultsAccountForAll
<1>1. Copies!CopyCarriesItsToken
  <2>1. ASSUME NEW i, NEW s PROVE Copies!Token(i, s).job = i /\ Copies!Token(i, s).recipient = s
    BY DEF Copies!Token
  <2>. QED
    BY <2>1 DEF Copies!AccountInv, Copies!CopiesFit, Copies!CopyCarriesItsToken
<1>2. Copies!RefusedSentNothing
  BY DEF Copies!AccountInv, Copies!CopiesFit, Copies!Tried, Copies!RefusedSentNothing
<1>3. ASSUME NEW j \in CopiesJobs, v4[j].status = 200
      PROVE  /\ Len(v4[j].results) = Len(v4[j].request.to)
             /\ \A i \in DOMAIN v4[j].results : Copies!ResultFits(j, i)
  <2>1. v4[j].phase \in Copies!Phases /\ v4[j].results \in Seq([to : CopiesRecipients, ok : BOOLEAN])
    BY SendTypes DEF Copies!Job
  <2>2. v4[j].phase = "answered"
    BY <1>3, <2>1 DEF Copies!AccountInv, Copies!PhaseFits, Copies!Phases
  <2>3. Copies!Tried(j)
    BY <1>3, <2>2 DEF Copies!Tried
  <2>4. Len(v4[j].tokens) = Len(v4[j].request.to)
    BY <2>3 DEF Copies!AccountInv, Copies!TokensFit
  <2>5. /\ Len(v4[j].results) = Len(v4[j].tokens)
        /\ \A i \in 1 .. Len(v4[j].results) : Copies!ResultFits(j, i)
    BY <2>2, <2>3 DEF Copies!AccountInv, Copies!ResultsFit
  <2>6. DOMAIN v4[j].results = 1 .. Len(v4[j].results)
    BY <2>1
  <2>. QED
    BY <2>4, <2>5, <2>6
<1>4. ASSUME NEW j, NEW i, Copies!ResultFits(j, i)
      PROVE  /\ v4[j].results[i].to = v4[j].request.to[i]
             /\ v4[j].results[i].ok => \E d \in v6 : d.job = j /\ d.to = v4[j].results[i].to
  BY <1>4 DEF Copies!ResultFits
<1>5. Copies!ResultsAccountForAll
  BY <1>3, <1>4 DEF Copies!ResultsAccountForAll
<1>. QED
  BY <1>1, <1>2, <1>5

(* The limiter of sends: no stretch as long as the window admits more than  *)
(* two windows do.                                                         *)

\* Rounding up to whole seconds is enough.
LEMMA RoundedUp ==
  ASSUME NEW s \in Nat \ {0}, NEW x \in Int
  PROVE  s * ((x + s - 1) \div s) >= x /\ (x + s - 1) \div s \in Int
<1> DEFINE y == x + s - 1
           q == y \div s
           m == y % s
<1>1. y \in Int /\ q \in Int /\ m \in 0 .. s - 1 /\ y = s * q + m
  OBVIOUS
<1>2. s * q \in Int
  BY <1>1
<1>3. x + s - 1 = s * q + m
  BY <1>1 DEF y
<1> HIDE DEF q, m
<1>. QED
  BY <1>1, <1>2, <1>3

\* The limiter's invariant, of a table of requests f.
AdmittedIn(f, from, to) ==
  {j \in CopiesJobs : /\ f[j].phase # "unsent" /\ f[j].status # 429
                      /\ from <= f[j].at /\ f[j].at < to}
SinceIn(f, from) ==
  {j \in CopiesJobs : f[j].phase # "unsent" /\ f[j].status # 429 /\ f[j].at >= from}

\* The present window counts who was admitted in it.
Counts(f, now, start, used) ==
  /\ start <= now /\ \A j \in CopiesJobs : f[j].at <= now
  /\ \A j \in SinceIn(f, 0) : f[j].at < start + CopiesWindow
  /\ Cardinality(SinceIn(f, start)) <= used
  /\ Cardinality(SinceIn(f, start - CopiesWindow) \ SinceIn(f, start)) <= CopiesMaxAttempts
\* Who was refused and waited as long as told finds the window over.
Refusals(f, start) ==
  \A j \in CopiesJobs : f[j].status = 429 =>
    \/ f[j].at < start
    \/ /\ f[j].at < start + CopiesWindow
       /\ f[j].at + CopiesSecond * f[j].retryAfter >= start + CopiesWindow
\* No stretch as long as a window has more than two budgets.
Stretches(f) ==
  \A t \in 0 .. CopiesMaxNow :
    Cardinality(AdmittedIn(f, t, t + CopiesWindow)) <= 2 * CopiesMaxAttempts
\* All three.
Limits(f, now, start, used) == Counts(f, now, start, used) /\ Refusals(f, start) /\ Stretches(f)

\* The bounds of the limiter are numbers.
LEMMA SendingNumbers ==
  /\ CopiesMaxNow \in Nat /\ CopiesMaxAttempts \in Nat
  /\ CopiesWindow \in Nat /\ CopiesWindow >= 1 /\ CopiesSecond \in Nat \ {0}
<1>1. CopiesMaxNow \in Nat /\ CopiesMaxAttempts \in Nat
  BY CopiesAssumption
<1>2. CopiesWindow \in Nat \ {0} /\ CopiesSecond \in Nat \ {0}
  BY CopiesAssumption
<1>. QED
  BY <1>1, <1>2

\* The sets the limiter's account counts are finite.
LEMMA CountedSetsAreFinite ==
  ASSUME NEW f
  PROVE  /\ \A from : IsFiniteSet(SinceIn(f, from)) /\ Cardinality(SinceIn(f, from)) \in Nat
         /\ \A from, to : IsFiniteSet(AdmittedIn(f, from, to))
                          /\ Cardinality(AdmittedIn(f, from, to)) \in Nat
<1>1. \A from : SinceIn(f, from) \in SUBSET CopiesJobs
  BY DEF SinceIn
<1>2. \A from, to : AdmittedIn(f, from, to) \in SUBSET CopiesJobs
  BY DEF AdmittedIn
<1>. QED
  BY <1>1, <1>2, CopiesAssumption, FS_Subset, FS_CardinalityType

\* Cardinality is the usual one.
LEMMA SameSendCount == \A S : Copies!Cardinality(S) = Cardinality(S)
  BY DEF Copies!Cardinality, Cardinality

\* Counting two sets of jobs apart.
LEMMA DisjointUnion ==
  ASSUME NEW S, NEW T, IsFiniteSet(S), IsFiniteSet(T), S \intersect T = {}
  PROVE  /\ IsFiniteSet(S \union T) /\ Cardinality(S \union T) \in Nat
         /\ Cardinality(S \union T) <= Cardinality(S) + Cardinality(T)
<1>1. /\ IsFiniteSet(S \union T)
      /\ Cardinality(S \union T) = Cardinality(S) + Cardinality(T) - Cardinality(S \intersect T)
  BY FS_Union
<1>2. Cardinality(S \intersect T) = 0
  BY FS_EmptySet
<1>3. /\ Cardinality(S) \in Nat /\ Cardinality(T) \in Nat
      /\ Cardinality(S \union T) \in Nat
  BY <1>1, FS_CardinalityType
<1>. QED
  BY <1>1, <1>2, <1>3

\* A table whose attempts are the same keeps the limits, now and later.
SameAttempt(x, y) ==
  /\ y.at = x.at
  /\ y.phase = "unsent" <=> x.phase = "unsent"
  /\ y.status = 429 <=> x.status = 429
  /\ y.status = 429 => y.retryAfter = x.retryAfter

\* The limits speak of who was admitted and refused, and when.
LEMMA SameAttemptsKeepLimits ==
  ASSUME NEW f, NEW g, NEW now \in Int, NEW later \in Int, now <= later,
         NEW start \in Int, NEW used \in Int, \A j \in CopiesJobs : f[j].at \in Nat,
         \A j \in CopiesJobs : SameAttempt(f[j], g[j]),
         Limits(f, now, start, used)
  PROVE  Limits(g, later, start, used)
<1>1. \A from : SinceIn(g, from) = SinceIn(f, from)
  BY DEF SinceIn, SameAttempt
<1>2. \A from, to : AdmittedIn(g, from, to) = AdmittedIn(f, from, to)
  BY DEF AdmittedIn, SameAttempt
<1>3. \A j \in CopiesJobs : g[j].at = f[j].at
  BY DEF SameAttempt
<1>4. start <= later /\ \A j \in CopiesJobs : g[j].at <= later
  BY <1>3 DEF Limits, Counts
<1>5. \A j \in SinceIn(g, 0) : g[j].at < start + CopiesWindow
  BY <1>1, <1>3 DEF Limits, Counts, SinceIn
<1>6. Counts(g, later, start, used)
  BY <1>1, <1>4, <1>5 DEF Limits, Counts
<1>7. Refusals(g, start)
  BY DEF Limits, Refusals, SameAttempt
<1>8. Stretches(g)
  BY <1>2 DEF Limits, Stretches
<1>. QED
  BY <1>6, <1>7, <1>8 DEF Limits

\* An arrival, in the window it was or in a new one.
Arrival(f, g, j, now, start, used, start2, base, used2) ==
  /\ j \in CopiesJobs /\ now \in Nat /\ base \in Nat
  /\ start \in Int /\ used \in Int /\ start2 \in Int /\ used2 \in Int
  /\ used <= CopiesMaxAttempts /\ used2 <= CopiesMaxAttempts
  /\ \A i \in CopiesJobs : f[i].at \in Nat
  /\ \A i \in CopiesJobs : i # j => g[i] = f[i]
  /\ f[j].phase = "unsent" /\ g[j].phase # "unsent" /\ g[j].at = now
  /\ \/ start2 = start /\ base = used /\ now - start < CopiesWindow
     \/ start2 = now /\ base = 0 /\ now - start >= CopiesWindow
  /\ \/ /\ g[j].status = 429 /\ used2 = base
        /\ now + CopiesSecond * g[j].retryAfter >= start2 + CopiesWindow
     \/ g[j].status # 429 /\ used2 = base + 1

\* A request that comes in keeps the limits, admitted or not.
LEMMA ArrivalKeepsLimits ==
  ASSUME NEW f, NEW g, NEW j, NEW now, NEW start, NEW used, NEW start2, NEW base, NEW used2,
         Arrival(f, g, j, now, start, used, start2, base, used2),
         Limits(f, now, start, used)
  PROVE  Limits(g, now, start2, used2)
<1>. /\ j \in CopiesJobs /\ now \in Nat /\ base \in Nat
     /\ start \in Int /\ used \in Int /\ start2 \in Int /\ used2 \in Int
     /\ used <= CopiesMaxAttempts /\ used2 <= CopiesMaxAttempts
     /\ \A i \in CopiesJobs : f[i].at \in Nat
     /\ \A i \in CopiesJobs : i # j => g[i] = f[i]
     /\ f[j].phase = "unsent" /\ g[j].phase # "unsent" /\ g[j].at = now
  BY DEF Arrival
<1>. /\ \/ start2 = start /\ base = used /\ now - start < CopiesWindow
        \/ start2 = now /\ base = 0 /\ now - start >= CopiesWindow
     /\ \/ /\ g[j].status = 429 /\ used2 = base
           /\ now + CopiesSecond * g[j].retryAfter >= start2 + CopiesWindow
        \/ g[j].status # 429 /\ used2 = base + 1
  BY DEF Arrival
<1> DEFINE W == CopiesWindow
           M == CopiesMaxAttempts
           Base == IF start2 = start /\ now - start < W THEN SinceIn(f, start) ELSE {}
           Latest == IF g[j].status = 429 THEN {} ELSE {j}
<1>1. W \in Nat /\ W >= 1 /\ M \in Nat
  BY SendingNumbers
<1> HIDE DEF W, M
<1>2. /\ start <= now /\ \A i \in CopiesJobs : f[i].at <= now
      /\ \A i \in SinceIn(f, 0) : f[i].at < start + W
      /\ Cardinality(SinceIn(f, start)) <= used
      /\ Cardinality(SinceIn(f, start - W) \ SinceIn(f, start)) <= M
  BY DEF Limits, Counts, W, M
<1>3. start2 <= now /\ now < start2 + W
  BY <1>1, <1>2 DEF W
<1>4. ASSUME NEW i \in CopiesJobs, i # j, f[i].phase # "unsent", f[i].status # 429
      PROVE  f[i].at < start + W
  BY <1>2, <1>4 DEF SinceIn
<1>5. SinceIn(g, start2) \subseteq Base \union Latest
  <2>1. CASE start2 = start /\ now - start < W
    BY <2>1 DEF SinceIn
  <2>2. CASE start2 = now /\ now - start >= W
    <3>1. ASSUME NEW i \in SinceIn(g, start2), i # j PROVE FALSE
      <4>1. f[i].phase # "unsent" /\ f[i].status # 429 /\ f[i].at >= start2 /\ i \in CopiesJobs
        BY <3>1 DEF SinceIn
      <4>2. f[i].at < start + W
        BY <1>4, <3>1, <4>1
      <4>. QED
        BY <1>1, <2>2, <4>1, <4>2
    <3>. QED
      BY <3>1 DEF SinceIn
  <2>. QED
    BY <2>1, <2>2 DEF W
<1>6. /\ IsFiniteSet(Base) /\ Cardinality(Base) <= base /\ Cardinality(Base) \in Nat
  <2>1. CASE start2 = start /\ now - start < W
    <3>1. Base = SinceIn(f, start) /\ base = used
      BY <1>1, <2>1 DEF W
    <3> HIDE DEF Base
    <3>2. Cardinality(SinceIn(f, start)) <= used
      BY <1>2
    <3>. QED
      BY <3>1, <3>2, CountedSetsAreFinite
  <2>2. CASE ~(start2 = start /\ now - start < W)
    <3>1. Base = {}
      BY <2>2
    <3> HIDE DEF Base
    <3>2. IsFiniteSet(Base) /\ Cardinality(Base) = 0
      BY <3>1, FS_EmptySet
    <3>. QED
      BY <3>2
  <2>. QED
    BY <2>1, <2>2
<1>7. Cardinality(SinceIn(g, start2)) <= used2
  <2> HIDE DEF Base
  <2>1. CASE g[j].status = 429
    <3>1. SinceIn(g, start2) \in SUBSET Base /\ used2 = base
      BY <1>5, <2>1
    <3>2. Cardinality(SinceIn(g, start2)) <= Cardinality(Base)
      BY <1>6, <3>1, FS_Subset
    <3>3. Cardinality(SinceIn(g, start2)) \in Nat
      BY CountedSetsAreFinite
    <3>. QED
      BY <1>6, <3>1, <3>2, <3>3
  <2>2. CASE g[j].status # 429
    <3>1. SinceIn(g, start2) \in SUBSET (Base \union {j}) /\ used2 = base + 1
      BY <1>5, <2>2
    <3>2. /\ IsFiniteSet(Base \union {j})
          /\ Cardinality(Base \union {j}) <= Cardinality(Base) + 1
          /\ Cardinality(Base \union {j}) \in Nat
      <4>1. /\ IsFiniteSet(Base \union {j})
            /\ Cardinality(Base \union {j}) =
                 IF j \in Base THEN Cardinality(Base) ELSE Cardinality(Base) + 1
        BY <1>6, FS_AddElement
      <4>2. Cardinality(Base) \in Nat
        BY <1>6
      <4>. QED
        BY <4>1, <4>2
    <3>3. Cardinality(SinceIn(g, start2)) <= Cardinality(Base \union {j})
      BY <3>1, <3>2, FS_Subset
    <3>. QED
      BY <1>6, <3>1, <3>2, <3>3, CountedSetsAreFinite
  <2>. QED
    BY <2>1, <2>2
<1> DEFINE Before == SinceIn(g, start2 - W) \ SinceIn(g, start2)
<1>8. Cardinality(Before) <= M /\ IsFiniteSet(Before) /\ Cardinality(Before) \in Nat
  <2>1. ASSUME NEW i \in Before
        PROVE  /\ i \in CopiesJobs /\ i # j /\ f[i].phase # "unsent" /\ f[i].status # 429
               /\ f[i].at >= start2 - W /\ f[i].at < start2
    <3>1. /\ i \in CopiesJobs /\ g[i].phase # "unsent" /\ g[i].status # 429
          /\ g[i].at >= start2 - W /\ ~(g[i].at >= start2)
      BY DEF SinceIn
    <3>2. i # j
      BY <1>3, <3>1
    <3>. QED
      BY <3>1, <3>2
  <2>2. CASE start2 = start
    <3>1. Before \in SUBSET (SinceIn(f, start - W) \ SinceIn(f, start))
      BY <2>1, <2>2 DEF SinceIn
    <3>2. /\ IsFiniteSet(SinceIn(f, start - W) \ SinceIn(f, start))
          /\ Cardinality(SinceIn(f, start - W) \ SinceIn(f, start)) \in Nat
      BY CountedSetsAreFinite, FS_Subset, FS_CardinalityType
    <3>3. /\ Cardinality(Before) <= Cardinality(SinceIn(f, start - W) \ SinceIn(f, start))
          /\ IsFiniteSet(Before) /\ Cardinality(Before) \in Nat
      BY <3>1, <3>2, FS_Subset, FS_CardinalityType
    <3>. QED
      BY <1>1, <1>2, <3>2, <3>3
  <2>3. CASE start2 = now /\ now - start >= W
    <3>1. \A i \in Before : i \in CopiesJobs /\ f[i].at >= start
      BY <1>1, <2>1, <2>3
    <3>2. Before \in SUBSET SinceIn(f, start)
      BY <2>1, <3>1 DEF SinceIn
    <3>3. Cardinality(Before) <= Cardinality(SinceIn(f, start)) /\ IsFiniteSet(Before)
      BY <3>2, CountedSetsAreFinite, FS_Subset, ZenonT(30)
    <3>4. Cardinality(Before) \in Nat
      BY <3>3, FS_CardinalityType
    <3>. QED
      BY <1>1, <1>2, <3>3, <3>4, CountedSetsAreFinite DEF M
  <2>. QED
    BY <2>2, <2>3 DEF W
<1>9. \A i \in CopiesJobs : g[i].at <= now
  BY <1>2
<1>10. \A i \in SinceIn(g, 0) : g[i].at < start2 + W
  <2>1. ASSUME NEW i \in SinceIn(g, 0), i # j PROVE g[i].at < start2 + W
    <3>1. f[i].at < start + W /\ g[i] = f[i] /\ f[i].at \in Nat
      BY <1>4, <2>1 DEF SinceIn
    <3>2. start <= start2
      BY <1>1, <1>2 DEF W
    <3>. QED
      BY <1>1, <3>1, <3>2
  <2>. QED
    BY <1>3, <2>1
<1>11. Counts(g, now, start2, used2)
  BY <1>3, <1>7, <1>8, <1>9, <1>10 DEF Counts, W, M
<1>12. Refusals(g, start2)
  <2>1. ASSUME NEW i \in CopiesJobs, g[i].status = 429, i # j
        PROVE  \/ g[i].at < start2
               \/ /\ g[i].at < start2 + W
                  /\ g[i].at + CopiesSecond * g[i].retryAfter >= start2 + W
    <3>1. /\ g[i] = f[i] /\ f[i].at \in Nat
          /\ \/ f[i].at < start
             \/ /\ f[i].at < start + W
                /\ f[i].at + CopiesSecond * f[i].retryAfter >= start + W
      BY <2>1 DEF Limits, Refusals, W
    <3>2. CASE start2 = start
      BY <3>1, <3>2
    <3>3. CASE start2 = now /\ now - start >= W
      <4>1. g[i].at < start + W
        BY <1>1, <3>1
      <4>. QED
        BY <1>1, <3>1, <3>3, <4>1
    <3>. QED
      BY <3>2, <3>3 DEF W
  <2>2. g[j].status = 429 => /\ g[j].at < start2 + W
                             /\ g[j].at + CopiesSecond * g[j].retryAfter >= start2 + W
    BY <1>3 DEF W
  <2>. QED
    BY <2>1, <2>2 DEF Refusals, W
<1>13. Stretches(g)
  <2> SUFFICES ASSUME NEW t \in 0 .. CopiesMaxNow
               PROVE  Cardinality(AdmittedIn(g, t, t + W)) <= 2 * M
    BY DEF Stretches, W, M
  <2>1. CASE t + W <= start2
    <3>1. ASSUME NEW i \in AdmittedIn(g, t, t + W) PROVE i \in AdmittedIn(f, t, t + W)
      <4>1. i # j
        BY <1>1, <1>3, <2>1 DEF AdmittedIn
      <4>. QED
        BY <4>1 DEF AdmittedIn
    <3>2. AdmittedIn(g, t, t + W) \in SUBSET AdmittedIn(f, t, t + W)
      BY <3>1
    <3>3. Cardinality(AdmittedIn(g, t, t + W)) <= Cardinality(AdmittedIn(f, t, t + W))
      BY <3>2, CountedSetsAreFinite, FS_Subset
    <3>4. Cardinality(AdmittedIn(f, t, t + W)) <= 2 * M
      BY DEF Limits, Stretches, W, M
    <3>. QED
      BY <1>1, <3>3, <3>4, CountedSetsAreFinite
  <2>2. CASE ~(t + W <= start2)
    <3>1. ASSUME NEW i \in AdmittedIn(g, t, t + W) PROVE i \in SinceIn(g, start2 - W)
      <4>1. i \in CopiesJobs /\ g[i].at \in Nat /\ t <= g[i].at /\ t \in Int
        BY DEF AdmittedIn
      <4>2. g[i].at >= start2 - W
        BY <1>1, <2>2, <4>1
      <4>. QED
        BY <4>2 DEF AdmittedIn, SinceIn
    <3>2. AdmittedIn(g, t, t + W) \in SUBSET (Before \union SinceIn(g, start2))
      BY <3>1
    <3>3. /\ IsFiniteSet(Before \union SinceIn(g, start2))
          /\ Cardinality(Before \union SinceIn(g, start2))
               <= Cardinality(Before) + Cardinality(SinceIn(g, start2))
          /\ Cardinality(Before \union SinceIn(g, start2)) \in Nat
      <4>0. Before \intersect SinceIn(g, start2) = {}
        OBVIOUS
      <4>1. IsFiniteSet(SinceIn(g, start2)) /\ Cardinality(SinceIn(g, start2)) \in Nat
        BY CountedSetsAreFinite
      <4> HIDE DEF Before
      <4>. QED
        BY <1>8, <4>0, <4>1, DisjointUnion
    <3>4. Cardinality(AdmittedIn(g, t, t + W)) <= Cardinality(Before \union SinceIn(g, start2))
      BY <3>2, <3>3, FS_Subset
    <3>5. Cardinality(SinceIn(g, start2)) <= M
      <4>1. Cardinality(SinceIn(g, start2)) \in Nat
        BY CountedSetsAreFinite
      <4>2. used2 \in Int /\ used2 <= M
        BY DEF M
      <4>. QED
        BY <1>1, <1>7, <4>1, <4>2
    <3> HIDE DEF Before
    <3>. QED
      BY <1>1, <1>8, <3>3, <3>4, <3>5, CountedSetsAreFinite
  <2>. QED
    BY <2>1, <2>2
<1>. QED
  BY <1>11, <1>12, <1>13 DEF Limits

\* The limiter's invariant is the one of its table, now and in the next state.
LEMMA LimiterIsLimits ==
  Copies!AccountInv => (Copies!LimiterInv <=> Limits(v4, v1, v2.start, v2.used))
<1>. HAVE Copies!AccountInv
<1>1. \A from : Copies!Since(from) = SinceIn(v4, from)
  BY DEF Copies!Since, SinceIn
<1>2. ASSUME NEW t \in 0 .. CopiesMaxNow
      PROVE  Copies!Admitted(t) = AdmittedIn(v4, t, t + CopiesWindow)
  <2>1. ASSUME NEW j \in CopiesJobs
        PROVE  v4[j].at \in t .. t + CopiesWindow - 1
                 <=> t <= v4[j].at /\ v4[j].at < t + CopiesWindow
    <3>1. v4[j].at \in Int
      BY SendTypes DEF Copies!Job
    <3>2. t \in Int /\ CopiesWindow \in Nat
      BY SendingNumbers
    <3>. QED
      BY <3>1, <3>2
  <2>. QED
    BY <2>1 DEF Copies!Admitted, AdmittedIn
<1>3. Copies!WindowCounts <=> Counts(v4, v1, v2.start, v2.used)
  BY <1>1, SameSendCount DEF Copies!WindowCounts, Counts
<1>4. Copies!RefusalsFit <=> Refusals(v4, v2.start)
  BY DEF Copies!RefusalsFit, Refusals
<1>5. Copies!AdmittedBounded <=> Stretches(v4)
  BY <1>2, SameSendCount DEF Copies!AdmittedBounded, Stretches
<1>. QED
  BY <1>3, <1>4, <1>5 DEF Copies!LimiterInv, Limits

\* The limiter's invariant of the next state, in those terms.
LEMMA LimiterWillBeLimits ==
  Copies!AccountInv' => (Copies!LimiterInv' <=> Limits(v4', v1', v2'.start, v2'.used))
<1>1. (Copies!AccountInv => (Copies!LimiterInv <=> Limits(v4, v1, v2.start, v2.used)))'
  BY LimiterIsLimits, PTL
<1>. QED
  BY <1>1

\* A step that admits nobody keeps the limits.
LEMMA QuietStepKeepsLimiter ==
  ASSUME Copies!AccountInv, Copies!AccountInv', Copies!LimiterInv,
         v2' = v2, v1 <= v1',
         \A j \in CopiesJobs : SameAttempt(v4[j], v4'[j])
  PROVE  Copies!LimiterInv'
<1>1. /\ v1 \in Int /\ v2.start \in Int /\ v2.used \in Int
      /\ \A j \in CopiesJobs : v4[j].at \in Nat
  BY SendTypes DEF Copies!Job
<1>2. v1' \in Int
  BY DEF Copies!AccountInv, Copies!TypeOK
<1>3. Limits(v4, v1, v2.start, v2.used)
  BY LimiterIsLimits
<1>4. Limits(v4', v1', v2.start, v2.used)
  BY <1>1, <1>2, <1>3, SameAttemptsKeepLimits
<1>. QED
  BY <1>4, LimiterWillBeLimits

\* The steps after the limiter admit nobody.
LEMMA CopyStepsKeepLimiter ==
  ASSUME Copies!AccountInv, Copies!AccountInv', Copies!LimiterInv, NEW j \in CopiesJobs,
         \/ Copies!Minted(j) \/ Copies!MintFails(j)
         \/ \E ok, left \in BOOLEAN : Copies!Copy(j, ok, left)
  PROVE  Copies!LimiterInv'
<1>1. v4[j] \in Copies!Job /\ DOMAIN v4 = CopiesJobs
  BY SendTypes
<1>2. v4[j].at \in 0 .. CopiesMaxNow
  BY <1>1 DEF Copies!Job
<1>3. v4[j].phase \in {"minting", "copying"} /\ v4[j].status = 0
  <2>1. v4[j].phase \in {"minting", "copying"}
    BY DEF Copies!Minted, Copies!MintFails, Copies!Copy
  <2>. QED
    BY <2>1 DEF Copies!AccountInv, Copies!PhaseFits
<1>4. v1' = v1 /\ v2' = v2 /\ \A i \in CopiesJobs : i # j => v4'[i] = v4[i]
  BY <1>1 DEF Copies!Minted, Copies!MintFails, Copies!Copy
<1>5. ASSUME v4' = [v4 EXCEPT ![j] = Copies!Refused(502, v4[j].at)]
      PROVE  v4'[j].phase # "unsent" /\ v4'[j].status # 429 /\ v4'[j].at = v4[j].at
  BY <1>1, <1>2, <1>5, RefusedIsAnswer
<1>6. v4'[j].phase # "unsent" /\ v4'[j].status # 429 /\ v4'[j].at = v4[j].at
  <2>1. CASE Copies!MintFails(j)
    BY <1>5, <2>1 DEF Copies!MintFails
  <2>2. CASE Copies!Minted(j)
    <3>1. PICK answer :
            v4' = [v4 EXCEPT ![j] =
              IF Copies!Matches(v4[j].request, answer)
              THEN [v4[j] EXCEPT !.phase = "copying",
                                 !.tokens = Copies!Paired(v4[j].request, answer)]
              ELSE Copies!Refused(502, v4[j].at)]
      BY <2>2 DEF Copies!Minted
    <3>2. CASE ~Copies!Matches(v4[j].request, answer)
      BY <1>5, <3>1, <3>2
    <3>3. CASE Copies!Matches(v4[j].request, answer)
      <4> DEFINE w == v4[j]
                 tokens == Copies!Paired(v4[j].request, answer)
      <4>1. v4'[j] = [w EXCEPT !.phase = "copying", !.tokens = tokens]
        BY <1>1, <3>1, <3>3
      <4>. w \in Copies!Job /\ w.status = 0
        BY <1>1, <1>3
      <4> HIDE DEF w, tokens
      <4>2. v4'[j].phase = "copying" /\ v4'[j].status = 0 /\ v4'[j].at = w.at
        BY <4>1 DEF Copies!Job
      <4>. QED
        BY <4>2 DEF w
    <3>. QED
      BY <3>2, <3>3
  <2>3. ASSUME NEW ok \in BOOLEAN, NEW left \in BOOLEAN, Copies!Copy(j, ok, left)
        PROVE  v4'[j].phase # "unsent" /\ v4'[j].status # 429 /\ v4'[j].at = v4[j].at
    <3> DEFINE w == v4[j]
               results == Append(v4[j].results,
                            Copies!Result(v4[j].request.to[Len(v4[j].results) + 1], ok))
               phase == Copies!Proceeds(j, ok)
               status == IF phase = "answered" THEN 200 ELSE 0
    <3>1. v4'[j] = [w EXCEPT !.results = results, !.phase = phase, !.status = status]
      BY <1>1, <2>3 DEF Copies!Copy, Copies!Copied, Copies!Status
    <3>2. phase # "unsent" /\ status # 429
      BY DEF Copies!Proceeds
    <3>. w \in Copies!Job
      BY <1>1
    <3> HIDE DEF w, results, phase, status
    <3>3. v4'[j].phase = phase /\ v4'[j].status = status /\ v4'[j].at = w.at
      BY <3>1 DEF Copies!Job
    <3>. QED
      BY <3>2, <3>3 DEF w
  <2>. QED
    BY <2>1, <2>2, <2>3
<1>7. ASSUME NEW i \in CopiesJobs PROVE SameAttempt(v4[i], v4'[i])
  <2>1. CASE i = j
    BY <1>3, <1>6, <2>1 DEF SameAttempt
  <2>2. CASE i # j
    BY <1>4, <2>2 DEF SameAttempt
  <2>. QED
    BY <2>1, <2>2
<1>8. v1 <= v1'
  <2>1. v1 \in Int
    BY SendTypes
  <2>. QED
    BY <1>4, <2>1
<1>. QED
  BY <1>4, <1>7, <1>8, QuietStepKeepsLimiter

\* A request that comes in.
LEMMA ArriveKeepsLimiter ==
  ASSUME Copies!AccountInv, Copies!AccountInv', Copies!LimiterInv, NEW j \in CopiesJobs,
         NEW value, Arrived(j, Copies!CurrentWindow(v2), value)
  PROVE  Copies!LimiterInv'
<1> DEFINE w == Copies!CurrentWindow(v2)
<1>1. /\ w \in [start : 0 .. CopiesMaxNow, used : 0 .. CopiesMaxAttempts]
      /\ \/ w = v2 /\ v1 - v2.start < CopiesWindow
         \/ w = [start |-> v1, used |-> 0] /\ v1 - v2.start >= CopiesWindow
  BY CurrentWindowNow
<1>2. /\ v2' \in [start : 0 .. CopiesMaxNow, used : 0 .. CopiesMaxAttempts]
      /\ v2'.start = w.start
      /\ \/ value.status = 429 /\ v2'.used = w.used
         \/ value.status # 429 /\ v2'.used = w.used + 1
  BY ArrivedWindow
<1>3. /\ value.status = 429 => value.retryAfter = Copies!RetryAfter(w)
      /\ value.phase # "unsent" /\ value.at = v1 /\ v1' = v1 /\ v4[j].phase = "unsent"
      /\ v4' = [v4 EXCEPT ![j] = value]
  BY DEF Arrived
<1> HIDE DEF w
<1>4. v4'[j] = value /\ \A i \in CopiesJobs : i # j => v4'[i] = v4[i]
  BY <1>3, SendTypes
<1>5. /\ v1 \in Nat /\ v2.start \in Int /\ v2.used \in Int /\ w.start \in Int /\ w.used \in Nat
      /\ v2'.start \in Int /\ v2'.used \in Int
      /\ v2.used <= CopiesMaxAttempts /\ v2'.used <= CopiesMaxAttempts
      /\ \A i \in CopiesJobs : v4[i].at \in Nat
  BY <1>1, <1>2, SendTypes DEF Copies!Job
<1>6. v1 + CopiesSecond * Copies!RetryAfter(w) >= w.start + CopiesWindow
  <2> DEFINE x == w.start + CopiesWindow - v1
             up == (x + CopiesSecond - 1) \div CopiesSecond
  <2>1. x \in Int /\ CopiesSecond \in Nat \ {0} /\ CopiesWindow \in Nat
    BY <1>5, SendingNumbers
  <2>2. Copies!RetryAfter(w) = IF up < 1 THEN 1 ELSE up
    BY DEF Copies!RetryAfter
  <2>3. x = w.start + CopiesWindow - v1
    OBVIOUS
  <2> HIDE DEF x
  <2>4. CopiesSecond * up >= x /\ up \in Int
    BY <2>1, RoundedUp
  <2> HIDE DEF up
  <2>5. CASE up < 1
    <3>1. CopiesSecond * up <= 0
      BY <2>1, <2>4, <2>5
    <3>2. Copies!RetryAfter(w) = 1 /\ CopiesSecond * 1 = CopiesSecond
      BY <2>1, <2>2, <2>5
    <3>. QED
      BY <1>5, <2>1, <2>3, <2>4, <3>1, <3>2
  <2>6. CASE ~(up < 1)
    <3>1. Copies!RetryAfter(w) = up /\ CopiesSecond * up \in Int
      BY <2>1, <2>2, <2>4, <2>6
    <3>. QED
      BY <1>5, <2>1, <2>3, <2>4, <3>1
  <2>. QED
    BY <2>5, <2>6
<1>7. Limits(v4, v1, v2.start, v2.used)
  BY LimiterIsLimits
<1>8. \/ w.start = v2.start /\ w.used = v2.used /\ v1 - v2.start < CopiesWindow
      \/ w.start = v1 /\ w.used = 0 /\ v1 - v2.start >= CopiesWindow
  BY <1>1
<1>9. \/ /\ v4'[j].status = 429 /\ v2'.used = w.used
         /\ v1 + CopiesSecond * v4'[j].retryAfter >= w.start + CopiesWindow
      \/ v4'[j].status # 429 /\ v2'.used = w.used + 1
  BY <1>2, <1>3, <1>4, <1>6
<1>10. v4'[j].phase # "unsent" /\ v4'[j].at = v1
  BY <1>3, <1>4
<1>11. Limits(v4', v1, w.start, v2'.used)
  <2> DEFINE f == v4
             g == v4'
             start == v2.start
             used == v2.used
             start2 == w.start
             base == w.used
             used2 == v2'.used
  <2>1. /\ v1 \in Nat /\ start \in Int /\ used \in Int /\ start2 \in Int /\ base \in Nat
        /\ used2 \in Int /\ used <= CopiesMaxAttempts /\ used2 <= CopiesMaxAttempts
        /\ \A i \in CopiesJobs : f[i].at \in Nat
    BY <1>2, <1>5
  <2>2. /\ \A i \in CopiesJobs : i # j => g[i] = f[i]
        /\ f[j].phase = "unsent" /\ g[j].phase # "unsent" /\ g[j].at = v1
    BY <1>3, <1>4, <1>10
  <2>3. \/ start2 = start /\ base = used /\ v1 - start < CopiesWindow
        \/ start2 = v1 /\ base = 0 /\ v1 - start >= CopiesWindow
    BY <1>8
  <2>4. \/ /\ g[j].status = 429 /\ used2 = base
           /\ v1 + CopiesSecond * g[j].retryAfter >= start2 + CopiesWindow
        \/ g[j].status # 429 /\ used2 = base + 1
    BY <1>9
  <2>5. Limits(f, v1, start, used)
    BY <1>7
  <2> HIDE DEF f, g, start, used, start2, base, used2
  <2>6. Arrival(f, g, j, v1, start, used, start2, base, used2)
    BY <2>1, <2>2, <2>3, <2>4 DEF Arrival
  <2>7. Limits(g, v1, start2, used2)
    BY <2>5, <2>6, ArrivalKeepsLimits
  <2>. QED
    BY <2>7 DEF g, start2, used2
<1>. QED
  BY <1>2, <1>3, <1>11, LimiterWillBeLimits

\* No request has come in.
LEMMA SendInit == ASSUME Copies!Init PROVE Copies!SendInv
<1>1. /\ v1 = 0 /\ v2 = [start |-> 0, used |-> 0] /\ v3 = {} /\ v5 = {} /\ v6 = {}
      /\ v4 = [j \in CopiesJobs |-> Copies!Idle]
  BY DEF Copies!Init
<1>2. 0 \in 0 .. CopiesMaxNow /\ 0 \in 0 .. CopiesMaxAttempts
  BY SendingNumbers
<1>3. Copies!TypeOK
  BY <1>1, <1>2, IdleIsJob DEF Copies!TypeOK
<1>4. ASSUME NEW j \in CopiesJobs
      PROVE  Copies!PhaseFits(j) /\ Copies!TokensFit(j) /\ Copies!ResultsFit(j)
  <2>1. v4[j] = Copies!Idle
    BY <1>1
  <2>2. ~Copies!Tried(j)
    BY <2>1, IdleIsJob DEF Copies!Tried
  <2>3. Copies!PhaseFits(j)
    BY <2>1, IdleIsJob DEF Copies!PhaseFits
  <2>. QED
    BY <2>2, <2>3 DEF Copies!TokensFit, Copies!ResultsFit
<1>5. Copies!AccountInv
  BY <1>1, <1>3, <1>4 DEF Copies!AccountInv, Copies!CopiesFit
<1>6. \A from : SinceIn(v4, from) = {}
  BY <1>1, IdleIsJob DEF SinceIn
<1>7. \A from, to : AdmittedIn(v4, from, to) = {}
  BY <1>1, IdleIsJob DEF AdmittedIn
<1>8. Cardinality({}) = 0 /\ CopiesWindow \in Nat /\ CopiesMaxAttempts \in Nat
  BY FS_EmptySet, SendingNumbers
<1>9. Counts(v4, 0, 0, 0)
  <2>1. \A j \in CopiesJobs : v4[j].at <= 0
    BY <1>1, IdleIsJob
  <2>2. SinceIn(v4, 0 - CopiesWindow) \ SinceIn(v4, 0) = {}
    BY <1>6
  <2>. QED
    BY <1>6, <1>8, <2>1, <2>2 DEF Counts
<1>10. Refusals(v4, 0)
  BY <1>1, IdleIsJob DEF Refusals
<1>11. Stretches(v4)
  <2>1. 0 <= 2 * CopiesMaxAttempts
    BY <1>8
  <2>2. \A from, to : Cardinality(AdmittedIn(v4, from, to)) = 0
    BY <1>7, <1>8
  <2>. QED
    BY <2>1, <2>2 DEF Stretches
<1>12. Limits(v4, v1, v2.start, v2.used)
  BY <1>1, <1>9, <1>10, <1>11 DEF Limits
<1>. QED
  BY <1>5, <1>12, LimiterIsLimits DEF Copies!SendInv

\* Every step of sending.
LEMMA StepKeepsSend ==
  ASSUME Copies!SendInv, [Copies!Next]_(Copies!vars) PROVE Copies!SendInv'
<1>. Copies!AccountInv /\ Copies!LimiterInv
  BY DEF Copies!SendInv
<1>1. CASE UNCHANGED Copies!vars
  <2>1. Copies!AccountInv'
    BY <1>1 DEF Copies!vars, Copies!AccountInv, Copies!TypeOK, Copies!CopiesFit, Copies!Tried,
         Copies!PhaseFits, Copies!TokensFit, Copies!ResultsFit, Copies!ResultFits, Copies!TokenFor
  <2>2. v1' = v1 /\ v2' = v2 /\ v4' = v4
    BY <1>1 DEF Copies!vars
  <2>3. v1 <= v1'
    <3>1. v1 \in Int
      BY SendTypes
    <3>. QED
      BY <2>2, <3>1
  <2>4. \A j \in CopiesJobs : SameAttempt(v4[j], v4'[j])
    BY <2>2 DEF SameAttempt
  <2>. QED
    BY <2>1, <2>2, <2>3, <2>4, QuietStepKeepsLimiter DEF Copies!SendInv
<1>2. ASSUME NEW j \in CopiesJobs, NEW r \in Copies!Requests,
             NEW tracking \in BOOLEAN, NEW transports \in BOOLEAN,
             Copies!Arrive(j, r, tracking, transports)
      PROVE  Copies!SendInv'
  <2>1. PICK value : Arrived(j, Copies!CurrentWindow(v2), value)
    BY <1>2, ArriveArrives
  <2>2. Copies!AccountInv'
    BY <2>1, ArriveKeepsAccount
  <2>. QED
    BY <2>1, <2>2, ArriveKeepsLimiter DEF Copies!SendInv
<1>3. ASSUME NEW j \in CopiesJobs,
             \/ Copies!Minted(j) \/ Copies!MintFails(j)
             \/ \E ok, left \in BOOLEAN : Copies!Copy(j, ok, left)
      PROVE  Copies!SendInv'
  <2>1. Copies!AccountInv'
    BY <1>3, MintedKeepsAccount, MintFailsKeepsAccount, CopyKeepsAccount
  <2>. QED
    BY <1>3, <2>1, CopyStepsKeepLimiter DEF Copies!SendInv
<1>4. CASE Copies!Tick
  <2>1. Copies!AccountInv'
    BY <1>4, TickKeepsAccount
  <2>2. v2' = v2 /\ v4' = v4 /\ v1' = v1 + 1
    BY <1>4 DEF Copies!Tick
  <2>3. v1 <= v1'
    <3>1. v1 \in Int
      BY SendTypes
    <3>. QED
      BY <2>2, <3>1
  <2>4. \A j \in CopiesJobs : SameAttempt(v4[j], v4'[j])
    BY <2>2 DEF SameAttempt
  <2>. QED
    BY <2>1, <2>2, <2>3, <2>4, QuietStepKeepsLimiter DEF Copies!SendInv
<1>. QED
  BY <1>1, <1>2, <1>3, <1>4 DEF Copies!Next

\* The budget and the Retry-After that the run asks about.
LEMMA LimiterHolds ==
  ASSUME Copies!SendInv PROVE Copies!AdmittedBounded /\ Copies!RetryAfterIsTrue
<1>1. Copies!AdmittedBounded
  BY DEF Copies!SendInv, Copies!LimiterInv
<1>2. ASSUME NEW j \in CopiesJobs, v4[j].status = 429,
             v1 >= v4[j].at + CopiesSecond * v4[j].retryAfter
      PROVE  v2.start > v4[j].at \/ v1 - v2.start >= CopiesWindow
  <2>1. \/ v4[j].at < v2.start
        \/ v4[j].at + CopiesSecond * v4[j].retryAfter >= v2.start + CopiesWindow
    BY <1>2 DEF Copies!SendInv, Copies!LimiterInv, Copies!RefusalsFit
  <2> DEFINE y == v4[j].at + CopiesSecond * v4[j].retryAfter
  <2>2. /\ v4[j].at \in Nat /\ v4[j].retryAfter \in Nat
        /\ v1 \in Int /\ v2.start \in Int
    BY SendTypes DEF Copies!SendInv, Copies!Job
  <2>3. CopiesSecond \in Nat /\ CopiesWindow \in Nat
    BY SendingNumbers
  <2>4. y \in Int
    BY <2>2, <2>3
  <2>5. v1 >= y /\ (v4[j].at < v2.start \/ y >= v2.start + CopiesWindow)
    BY <1>2, <2>1
  <2> HIDE DEF y
  <2>. QED
    BY <2>2, <2>3, <2>4, <2>5
<1>. QED
  BY <1>1, <1>2 DEF Copies!RetryAfterIsTrue

-----------------------------------------------------------------------------
(* The service as a process.                                               *)

\* Cardinality is the usual one.
LEMMA SameServiceCount == \A S : Service!Cardinality(S) = Cardinality(S)
  BY DEF Service!Cardinality, Cardinality

\* A file that starts the service has one primary account, the configured one.
LEMMA UsableFile ==
  ASSUME NEW marked \in SUBSET ServiceAccounts, Service!Usable(marked)
  PROVE  marked = {Service!Started(marked).config} /\ Service!Started(marked).config \in ServiceAccounts
<1>1. IsFiniteSet(marked) /\ Cardinality(marked) = 1
  BY ServiceAssumption, SameServiceCount, FS_Subset DEF Service!Usable
<1>2. PICK x : marked = {x}
  BY <1>1, FS_Singleton
<1>3. Service!Started(marked).config = CHOOSE a_1 \in marked : TRUE
  BY DEF Service!Started
<1>. QED
  BY <1>2, <1>3

\* A start, the first or after a crash, has everything to register.
LEMMA StartIsClean ==
  ASSUME NEW marked \in SUBSET ServiceAccounts
  PROVE  /\ Service!Started(marked).phase \in {"register", "misconfigured"}
         /\ Service!Started(marked).config \in ServiceAccounts \union {None}
         /\ Service!Started(marked).left \subseteq ServiceAccounts \union {None}
         /\ Service!Started(marked).phase = "register" =>
              /\ marked = {Service!Started(marked).config}
              /\ Service!Started(marked).config \in ServiceAccounts
              /\ Service!Started(marked).left = ServiceAccounts \union {None}
<1>1. CASE Service!Usable(marked)
  <2>1. /\ Service!Started(marked).phase = "register"
        /\ Service!Started(marked).left = ServiceAccounts \union {None}
    BY <1>1 DEF Service!Started
  <2>. QED
    BY <1>1, <2>1, UsableFile
<1>2. CASE ~Service!Usable(marked)
  BY <1>2 DEF Service!Started
<1>. QED
  BY <1>1, <1>2

\* The service is not running.
LEMMA ServerInit == ASSUME Service!Init PROVE Service!ServerInv
<1>1. /\ v1 = << >> /\ v2 \in SUBSET ServiceAccounts
      /\ v3 = Service!Started(v2).config /\ v4 = Service!Started(v2).phase
      /\ v5 = Service!Started(v2).left
      /\ v6 = << >> /\ v7 = {} /\ v8 = "off" /\ v9 = "off" /\ v10 = "open"
      /\ v11 = 1 /\ v12 = 0
  BY DEF Service!Init
<1>2. 1 \in 1 .. ServiceMaxBoots /\ 0 \in 0 .. ServiceMaxRequests
  BY ServiceAssumption
<1>3. Service!TypeOK
  BY <1>1, <1>2, StartIsClean DEF Service!TypeOK, Service!Background
<1>4. Service!RegisteredSoFar
  BY <1>1, StartIsClean DEF Service!RegisteredSoFar
<1>5. Service!ClosedInOrder
  BY <1>1, StartIsClean DEF Service!ClosedInOrder
<1>. QED
  BY <1>3, <1>4, <1>5 DEF Service!ServerInv

\* The start clears the primary marks.
LEMMA ClearKeepsServer ==
  ASSUME Service!ServerInv, Service!ClearPrimaries PROVE Service!ServerInv'
<1> USE DEF Service!ServerInv
<1>1. /\ v4 = "register" /\ None \in v5 /\ v5' = v5 \ {None}
      /\ v1' = [x \in DOMAIN v1 |-> FALSE]
      /\ UNCHANGED <<v2, v3, v4, v6, v7, v8, v9, v10, v11, v12>>
  BY DEF Service!ClearPrimaries, Service!process, Service!Cleared
<1>2. Service!TypeOK'
  BY <1>1 DEF Service!TypeOK
<1>3. Service!RegisteredSoFar'
  <2>1. ServiceAccounts \subseteq v5'
    BY <1>1, ServiceAssumption DEF Service!RegisteredSoFar
  <2>2. \A x \in DOMAIN v1' : ~v1'[x]
    BY <1>1
  <2>3. v2 = {v3} /\ v3 \in ServiceAccounts /\ None \notin v5'
    BY <1>1 DEF Service!RegisteredSoFar
  <2>. QED
    BY <1>1, <2>1, <2>2, <2>3 DEF Service!RegisteredSoFar
<1>4. Service!ClosedInOrder'
  BY <1>1 DEF Service!ClosedInOrder
<1>. QED
  BY <1>2, <1>3, <1>4

\* The row that is written is the file's; the others were demoted or are the
\* file's already, so the index refuses none.
LEMMA UpsertKeepsServer ==
  ASSUME Service!ServerInv, NEW acc \in ServiceAccounts, Service!UpsertAccount(acc)
  PROVE  Service!ServerInv'
<1> USE DEF Service!ServerInv
<1> DEFINE table == [x \in DOMAIN v1 \union {acc} |-> IF x = acc THEN acc \in v2 ELSE v1[x]]
<1>1. /\ v4 = "register" /\ None \notin v5 /\ acc \in v5
      /\ UNCHANGED <<v2, v3, v6, v7, v8, v9, v10, v11, v12>>
      /\ IF Cardinality({x \in DOMAIN table : table[x]}) > 1
         THEN v4' = "refused" /\ UNCHANGED <<v1, v5>>
         ELSE /\ v1' = table /\ v5' = v5 \ {acc}
              /\ v4' = IF v5' = {} THEN "start" ELSE v4
  BY SameServiceCount DEF Service!UpsertAccount, Service!process
<1>2. v2 = {v3} /\ v3 \in ServiceAccounts
  BY <1>1 DEF Service!RegisteredSoFar
<1>3. /\ \A x \in DOMAIN v1 : v1[x] => x = v3
      /\ \A x \in ServiceAccounts \ v5 : x \in DOMAIN v1 /\ (v1[x] <=> x = v3)
      /\ \A x \in DOMAIN v1 : x \in ServiceAccounts /\ v1[x] \in BOOLEAN
  BY <1>1 DEF Service!RegisteredSoFar, Service!TypeOK
<1>4. /\ DOMAIN table = DOMAIN v1 \union {acc}
      /\ table[acc] = (acc = v3) /\ \A x \in DOMAIN v1 \ {acc} : table[x] = v1[x]
  BY <1>2
<1> HIDE DEF table
<1>5. \A x \in DOMAIN table : table[x] => x = v3
  BY <1>3, <1>4
<1>6. Cardinality({x \in DOMAIN table : table[x]}) <= 1
  <2>1. {x \in DOMAIN table : table[x]} \in SUBSET {v3}
    BY <1>5
  <2>2. IsFiniteSet({v3}) /\ Cardinality({v3}) = 1
    BY FS_Singleton
  <2>. QED
    BY <2>1, <2>2, FS_Subset
<1>7. Cardinality({x \in DOMAIN table : table[x]}) \in Nat
  <2>1. {x \in DOMAIN table : table[x]} \in SUBSET {v3}
    BY <1>5
  <2>. QED
    BY <2>1, FS_Singleton, FS_Subset, FS_CardinalityType
<1>8. v1' = table /\ v5' = v5 \ {acc} /\ v4' = IF v5' = {} THEN "start" ELSE v4
  BY <1>1, <1>6, <1>7
<1>9. Service!TypeOK'
  <2>1. \A x \in DOMAIN v1' : x \in ServiceAccounts /\ v1'[x] \in BOOLEAN
    BY <1>3, <1>4, <1>8
  <2>. QED
    BY <1>1, <1>8, <2>1 DEF Service!TypeOK
<1>10. Service!RegisteredSoFar'
  <2>1. \A x \in ServiceAccounts \ v5' : x \in DOMAIN v1' /\ (v1'[x] <=> x = v3)
    BY <1>3, <1>4, <1>8
  <2>. QED
    BY <1>1, <1>2, <1>5, <1>8, <2>1 DEF Service!RegisteredSoFar
<1>11. Service!ClosedInOrder'
  BY <1>1, <1>8 DEF Service!ClosedInOrder
<1>. QED
  BY <1>9, <1>10, <1>11

\* Connections come and go; a handler may outlive its own.
LEMMA RequestsKeepServer ==
  ASSUME Service!ServerInv,
         \/ Service!Accept
         \/ \E r \in DOMAIN v6 : Service!ReadRequestBody(r) \/ Service!Hangup(r)
         \/ \E r \in DOMAIN v6 \union v7 : Service!WriteResponse(r)
  PROVE  Service!ServerInv'
<1> USE DEF Service!ServerInv
<1>1. UNCHANGED <<v1, v2, v3, v4, v5, v8, v9, v10, v11>>
  BY DEF Service!Accept, Service!ReadRequestBody, Service!Hangup, Service!WriteResponse
<1>2. /\ DOMAIN v6' \subseteq 1 .. ServiceMaxRequests /\ v7' \subseteq 1 .. ServiceMaxRequests
      /\ \A r \in DOMAIN v6' : v6'[r] \in {"body", "handling"}
      /\ v12' \in 0 .. ServiceMaxRequests
      /\ v6 = << >> /\ v4 # "listening" => v6' = << >>
  <2>1. /\ DOMAIN v6 \subseteq 1 .. ServiceMaxRequests /\ v7 \subseteq 1 .. ServiceMaxRequests
        /\ \A r \in DOMAIN v6 : v6[r] \in {"body", "handling"}
        /\ v12 \in 0 .. ServiceMaxRequests
    BY DEF Service!TypeOK
  <2>2. CASE Service!Accept
    <3>1. /\ v12 < ServiceMaxRequests /\ v12' = v12 + 1 /\ v7' = v7 /\ v4 = "listening"
          /\ v6' = [r \in DOMAIN v6 \union {v12'} |-> IF r = v12' THEN "body" ELSE v6[r]]
      BY <2>2 DEF Service!Accept
    <3>2. v12' \in 1 .. ServiceMaxRequests /\ v12' \in 0 .. ServiceMaxRequests
      BY <2>1, <3>1, ServiceAssumption
    <3>. QED
      BY <2>1, <3>1, <3>2
  <2>3. ASSUME NEW r \in DOMAIN v6, Service!ReadRequestBody(r) \/ Service!Hangup(r)
        PROVE  /\ v6' = [v6 EXCEPT ![r] = "handling"] \/ v6' = Service!Without(r)
               /\ v7' \subseteq v7 \union {r} /\ v12' = v12
    BY <2>3 DEF Service!ReadRequestBody, Service!Hangup
  <2>4. ASSUME NEW r \in DOMAIN v6 \union v7, Service!WriteResponse(r)
        PROVE  /\ \/ v6' = v6
                  \/ r \in DOMAIN v6 /\ v6' = Service!Without(r)
               /\ v7' \subseteq v7 /\ v12' = v12
    BY <2>4 DEF Service!WriteResponse
  <2>5. ASSUME NEW r \in DOMAIN v6
        PROVE  /\ v6 # << >>
               /\ DOMAIN Service!Without(r) \subseteq DOMAIN v6
               /\ \A q \in DOMAIN Service!Without(r) : Service!Without(r)[q] = v6[q]
    BY DEF Service!Without
  <2>. QED
    BY <2>1, <2>2, <2>3, <2>4, <2>5
<1>3. Service!TypeOK'
  BY <1>1, <1>2 DEF Service!TypeOK
<1>4. Service!RegisteredSoFar'
  BY <1>1 DEF Service!RegisteredSoFar
<1>5. Service!ClosedInOrder'
  BY <1>1, <1>2 DEF Service!ClosedInOrder
<1>. QED
  BY <1>3, <1>4, <1>5

\* The loops start with the server and stop after its connections.
LEMMA PhasesKeepServer ==
  ASSUME Service!ServerInv,
         \/ Service!StartServer \/ Service!PoolCycle \/ Service!PollTick
         \/ Service!OnSignal \/ Service!ServerClosed \/ Service!DatabaseClosed
  PROVE  Service!ServerInv'
<1> USE DEF Service!ServerInv
<1>1. UNCHANGED <<v1, v2, v3, v5, v6, v7, v11, v12>>
  BY DEF Service!StartServer, Service!PoolCycle, Service!PollTick, Service!OnSignal,
         Service!ServerClosed, Service!DatabaseClosed, Service!process
<1>2. Service!TypeOK'
  <2>1. /\ v8' \in Service!Background /\ v9' \in Service!Background
        /\ v10' \in {"open", "closed"}
        /\ v4' \in {"register", "start", "listening", "closing", "stopping",
                    "closingDb", "down", "refused", "misconfigured"}
    BY DEF Service!StartServer, Service!PoolCycle, Service!PollTick, Service!OnSignal,
           Service!ServerClosed, Service!DatabaseClosed, Service!process, Service!Last,
           Service!Background, Service!TypeOK
  <2>. QED
    BY <1>1, <2>1 DEF Service!TypeOK
<1>3. Service!RegisteredSoFar'
  BY <1>1
     DEF Service!StartServer, Service!PoolCycle, Service!PollTick, Service!OnSignal,
         Service!ServerClosed, Service!DatabaseClosed, Service!RegisteredSoFar
<1>4. Service!ClosedInOrder'
  BY <1>1
     DEF Service!StartServer, Service!PoolCycle, Service!PollTick, Service!OnSignal,
         Service!ServerClosed, Service!DatabaseClosed, Service!process, Service!Drained,
         Service!Stopped, Service!ClosedInOrder
<1>. QED
  BY <1>2, <1>3, <1>4

\* A process that is over holds nothing; the next one starts from its file.
LEMMA EndKeepsServer ==
  ASSUME Service!ServerInv, Service!Exit \/ Service!Crash PROVE Service!ServerInv'
<1> USE DEF Service!ServerInv
<1>1. /\ v4' = "down" /\ v5' = {} /\ v6' = << >> /\ v7' = {} /\ v8' = "off" /\ v9' = "off"
      /\ v10' \in {v10, "closed"} /\ UNCHANGED <<v1, v2, v3, v11, v12>>
  BY DEF Service!Exit, Service!Crash, Service!ProcessOver
<1>2. Service!TypeOK'
  BY <1>1 DEF Service!TypeOK, Service!Background
<1>3. Service!RegisteredSoFar' /\ Service!ClosedInOrder'
  BY <1>1 DEF Service!RegisteredSoFar, Service!ClosedInOrder
<1>. QED
  BY <1>2, <1>3

\* The next start finds the accounts of the last.
LEMMA BootKeepsServer == ASSUME Service!ServerInv, Service!Boot PROVE Service!ServerInv'
<1> USE DEF Service!ServerInv
<1>1. /\ v4 = "down" /\ v11 < ServiceMaxBoots /\ v11' = v11 + 1
      /\ v2' \in SUBSET ServiceAccounts
      /\ v3' = Service!Started(v2').config /\ v4' = Service!Started(v2').phase
      /\ v5' = Service!Started(v2').left
      /\ v10' = "open" /\ v12' = 0 /\ UNCHANGED <<v1, v6, v7, v8, v9>>
  BY DEF Service!Boot
<1>2. v11' \in 1 .. ServiceMaxBoots /\ v12' \in 0 .. ServiceMaxRequests
  <2>1. v11 \in 1 .. ServiceMaxBoots
    BY DEF Service!TypeOK
  <2>. QED
    BY <1>1, <2>1, ServiceAssumption
<1>3. Service!TypeOK'
  BY <1>1, <1>2, StartIsClean DEF Service!TypeOK
<1>4. Service!RegisteredSoFar'
  BY <1>1, StartIsClean DEF Service!RegisteredSoFar
<1>5. Service!ClosedInOrder'
  BY <1>1, StartIsClean DEF Service!ClosedInOrder
<1>. QED
  BY <1>3, <1>4, <1>5

\* Every step of the start, the requests and the shutdown.
LEMMA StepKeepsServer ==
  ASSUME Service!ServerInv, [Service!Next]_(Service!vars) PROVE Service!ServerInv'
<1>1. CASE Service!Next
  BY <1>1, ClearKeepsServer, UpsertKeepsServer, RequestsKeepServer, PhasesKeepServer,
     EndKeepsServer, BootKeepsServer DEF Service!Next
<1>2. CASE UNCHANGED Service!vars
  BY <1>2
     DEF Service!vars, Service!ServerInv, Service!TypeOK, Service!RegisteredSoFar,
         Service!ClosedInOrder
<1>. QED
  BY <1>1, <1>2

\* What the service promises follows.
LEMMA ServerKeepsPromises ==
  ASSUME Service!ServerInv
  PROVE  Service!PrimaryFollowsTheFile /\ Service!DatabaseOutlivesItsUsers
<1>1. Service!DatabaseOutlivesItsUsers
  BY DEF Service!ServerInv, Service!ClosedInOrder, Service!DatabaseOutlivesItsUsers
<1>2. ASSUME v4 = "listening" PROVE {x \in DOMAIN v1 : v1[x]} = {v3}
  BY <1>2 DEF Service!ServerInv, Service!RegisteredSoFar
<1>. QED
  BY <1>1, <1>2 DEF Service!ServerInv, Service!RegisteredSoFar, Service!PrimaryFollowsTheFile

-----------------------------------------------------------------------------
(* Signing in at the service.                                              *)

\* Cardinality and finiteness are the usual ones.
LEMMA SameSessionCount ==
  \A S : /\ Session!Cardinality(S) = Cardinality(S)
         /\ Session!IsFiniteSet(S) <=> IsFiniteSet(S)
  BY DEF Session!Cardinality, Cardinality, Session!IsFiniteSet, IsFiniteSet

\* The limiter's window: it is what it was, or begins empty and later.
LEMMA WindowKeptOrLeft ==
  ASSUME Session!SessionInv, NEW at \in 0 .. SessionMaxNow
  PROVE  LET w == Session!CurrentWindow(at)
         IN \/ w = v3
            \/ w = [start |-> at, failures |-> 0] /\ at - v3.start >= SessionWindow
  BY DEF Session!CurrentWindow

\* The limiter starts empty.
LEMMA SessionInit == ASSUME Session!Init PROVE Session!SessionInv
<1>0. SessionMaxNow \in Nat /\ SessionMaxFailures \in Nat \ {0} /\ SessionMaxPending \in Nat \ {0}
  BY SessionAssumption
<1>1. /\ 0 \in 0 .. SessionMaxNow
      /\ 0 + 0 <= SessionMaxFailures + SessionMaxPending - 1
      /\ 0 <= SessionMaxPending
  BY <1>0
<1>2. IsFiniteSet({}) /\ Cardinality({}) = 0
  BY FS_EmptySet
<1>3. Session!TypeOK
  BY <1>1 DEF Session!Init, Session!TypeOK
<1>4. Session!InFlightBounded
  BY <1>1, <1>2, SameSessionCount DEF Session!Init, Session!InFlightBounded
<1>. QED
  BY <1>3, <1>4 DEF Session!SessionInv

\* A sign-in that passes the check takes one of the free places.
LEMMA CheckKeepsSession ==
  ASSUME Session!SessionInv, NEW token \in SessionKeys \union {None}, Session!CheckSignIn(token)
  PROVE  Session!SessionInv' /\ Session!FailuresKeptStep
<1> DEFINE signIn == [at |-> v1, token |-> token]
<1>1. /\ v1 \in 0 .. SessionMaxNow
      /\ v3 \in [start : 0 .. SessionMaxNow, failures : Nat]
      /\ v4 \subseteq Session!SignIn
  BY DEF Session!SessionInv, Session!TypeOK
<1>2. /\ v3' = Session!CurrentWindow(v1)
      /\ Cardinality(v4) < SessionMaxPending
      /\ UNCHANGED <<v1, v2, v5>>
      /\ \/ v3'.failures < SessionMaxFailures /\ v4' = v4 \union {signIn} /\ v6' = v6
         \/ ~(v3'.failures < SessionMaxFailures) /\ v4' = v4 /\ v6' = "too many"
  BY SameSessionCount DEF Session!CheckSignIn, Session!Allowed
<1>3. \/ v3' = v3
      \/ v3' = [start |-> v1, failures |-> 0] /\ v1 - v3.start >= SessionWindow
  BY <1>1, <1>2, WindowKeptOrLeft
<1>4. v3' \in [start : 0 .. SessionMaxNow, failures : Nat]
  BY <1>1, <1>3
<1>5. signIn \in Session!SignIn
  BY <1>1 DEF Session!SignIn
<1>6. /\ IsFiniteSet(v4) /\ Cardinality(v4) \in Nat
      /\ v3.failures + Cardinality(v4) <= SessionMaxFailures + SessionMaxPending - 1
  BY SameSessionCount, FS_CardinalityType DEF Session!SessionInv, Session!InFlightBounded
<1>7. SessionMaxFailures \in Nat \ {0} /\ SessionMaxPending \in Nat \ {0} /\ SessionWindow \in Nat
  BY SessionAssumption
<1>8. v3'.failures \in Nat /\ v3.failures \in Nat
  BY <1>1, <1>4
<1> HIDE DEF signIn
<1>9. /\ IsFiniteSet(v4') /\ Cardinality(v4') <= SessionMaxPending
      /\ v3'.failures + Cardinality(v4') <= SessionMaxFailures + SessionMaxPending - 1
  <2>1. CASE v3'.failures < SessionMaxFailures
    <3>1. v4' = v4 \union {signIn}
      BY <1>2, <2>1
    <3>2. /\ IsFiniteSet(v4') /\ Cardinality(v4') \in Nat
          /\ Cardinality(v4') <= Cardinality(v4) + 1
      BY <1>6, <3>1, FS_AddElement
    <3>3. Cardinality(v4) < SessionMaxPending
      BY <1>2
    <3>. QED
      BY <1>6, <1>7, <1>8, <2>1, <3>2, <3>3
  <2>2. CASE ~(v3'.failures < SessionMaxFailures)
    <3>1. v4' = v4 /\ Cardinality(v4) < SessionMaxPending
      BY <1>2, <2>2
    <3>2. v3'.failures # 0
      BY <1>7, <1>8, <2>2
    <3>3. v3' = v3
      BY <1>3, <3>2
    <3>. QED
      BY <1>6, <1>7, <3>1, <3>3
  <2>. QED
    BY <2>1, <2>2
<1>10. Session!TypeOK'
  <2>1. v4' \subseteq Session!SignIn
    BY <1>1, <1>2, <1>5
  <2>2. v6' = v6 \/ v6' = "too many"
    BY <1>2
  <2>. QED
    BY <1>2, <1>4, <2>1, <2>2 DEF Session!SessionInv, Session!TypeOK
<1>11. Session!InFlightBounded'
  BY <1>9, SameSessionCount DEF Session!InFlightBounded
<1>12. Session!FailuresKeptStep
  <2>1. CASE v3' = v3
    BY <1>8, <2>1 DEF Session!FailuresKeptStep
  <2>2. CASE v3' = [start |-> v1, failures |-> 0] /\ v1 - v3.start >= SessionWindow
    BY <2>2 DEF Session!FailuresKeptStep
  <2>. QED
    BY <1>3, <2>1, <2>2
<1>. QED
  BY <1>10, <1>11, <1>12 DEF Session!SessionInv

\* A failure gives its place back to the window's count.
LEMMA AnswerKeepsSession ==
  ASSUME Session!SessionInv, NEW request \in v4, Session!AnswerSignIn(request)
  PROVE  Session!SessionInv' /\ Session!FailuresKeptStep
<1> DEFINE w == Session!CurrentWindow(request.at)
<1>1. /\ v1 \in 0 .. SessionMaxNow
      /\ v3 \in [start : 0 .. SessionMaxNow, failures : Nat]
      /\ request \in Session!SignIn /\ v4 \subseteq Session!SignIn
      /\ v5 \in Session!Cookie \union {None} /\ v2 \in SessionKeys
  BY DEF Session!SessionInv, Session!TypeOK
<1>2. request.at \in 0 .. SessionMaxNow
  BY <1>1 DEF Session!SignIn
<1>3. /\ v4' = v4 \ {request} /\ UNCHANGED <<v1, v2>>
      /\ \/ v3' = v3
         \/ v3' = [w EXCEPT !.failures = @ + 1]
      /\ v5' \in {v5, [key |-> v2, expires |-> v1 + SessionLifetime]}
      /\ v6' \in {"signed in", "refused"}
  BY DEF Session!AnswerSignIn
<1>4. \/ w = v3
      \/ w = [start |-> request.at, failures |-> 0] /\ request.at - v3.start >= SessionWindow
  BY <1>2, WindowKeptOrLeft
<1> HIDE DEF w
<1>5. w \in [start : 0 .. SessionMaxNow, failures : Nat]
  BY <1>1, <1>2, <1>4
<1>6. \/ v3' = v3
      \/ v3' = [start |-> w.start, failures |-> w.failures + 1]
  BY <1>3, <1>5
<1>7. v3' \in [start : 0 .. SessionMaxNow, failures : Nat]
  BY <1>1, <1>5, <1>6
<1>8. v3'.failures <= v3.failures + 1 \/ v3'.failures = 1
  BY <1>1, <1>4, <1>5, <1>6
<1>9. /\ IsFiniteSet(v4) /\ Cardinality(v4) \in Nat /\ Cardinality(v4) <= SessionMaxPending
      /\ v3.failures + Cardinality(v4) <= SessionMaxFailures + SessionMaxPending - 1
  BY SameSessionCount, FS_CardinalityType DEF Session!SessionInv, Session!InFlightBounded
<1>10. IsFiniteSet(v4') /\ Cardinality(v4') = Cardinality(v4) - 1
  BY <1>3, <1>9, FS_RemoveElement
<1>11. /\ Cardinality(v4') <= SessionMaxPending
       /\ v3'.failures + Cardinality(v4') <= SessionMaxFailures + SessionMaxPending - 1
  <2>1. SessionMaxFailures \in Nat \ {0} /\ SessionMaxPending \in Nat \ {0}
    BY SessionAssumption
  <2>2. v3'.failures \in Nat /\ v3.failures \in Nat
    BY <1>1, <1>7
  <2>. QED
    BY <1>8, <1>9, <1>10, <2>1, <2>2
<1>12. Session!TypeOK'
  <2>1. v1 + SessionLifetime \in 0 .. SessionMaxNow + SessionLifetime
    <3>1. SessionMaxNow \in Nat /\ SessionLifetime \in Nat
      BY SessionAssumption
    <3>. QED
      BY <1>1, <3>1
  <2>2. [key |-> v2, expires |-> v1 + SessionLifetime] \in Session!Cookie
    BY <1>1, <2>1 DEF Session!Cookie
  <2>3. v5' \in Session!Cookie \union {None}
    BY <1>1, <1>3, <2>2
  <2>4. v4' \subseteq Session!SignIn
    BY <1>1, <1>3
  <2>. QED
    BY <1>1, <1>3, <1>7, <2>3, <2>4 DEF Session!TypeOK
<1>13. Session!InFlightBounded'
  BY <1>10, <1>11, SameSessionCount DEF Session!InFlightBounded
<1>14. Session!FailuresKeptStep
  <2>1. CASE v3' = v3
    <3>1. v3.failures \in Nat
      BY <1>1
    <3>. QED
      BY <2>1, <3>1 DEF Session!FailuresKeptStep
  <2>2. CASE v3' = [start |-> w.start, failures |-> w.failures + 1] /\ w = v3
    <3>1. v3'.failures = v3.failures + 1 /\ v3.failures \in Nat
      BY <1>1, <2>2
    <3>. QED
      BY <3>1 DEF Session!FailuresKeptStep
  <2>3. CASE v3' = [start |-> w.start, failures |-> w.failures + 1] /\ w # v3
    <3>1. v3'.start = request.at /\ request.at - v3.start >= SessionWindow
      BY <1>4, <2>3
    <3>. QED
      BY <3>1 DEF Session!FailuresKeptStep
  <2>. QED
    BY <1>6, <2>1, <2>2, <2>3
<1>. QED
  BY <1>12, <1>13, <1>14 DEF Session!SessionInv

\* The clock, a restart and the other routes fail no sign-in.
LEMMA TickKeepsSession ==
  ASSUME Session!SessionInv, Session!Tick PROVE Session!SessionInv' /\ Session!FailuresKeptStep
<1>1. v1 \in 0 .. SessionMaxNow /\ v1 < SessionMaxNow /\ v1' = v1 + 1
  BY DEF Session!SessionInv, Session!TypeOK, Session!Tick
<1>2. SessionMaxNow \in Nat
  BY SessionAssumption
<1>3. v1' \in 0 .. SessionMaxNow
  BY <1>1, <1>2
<1>4. UNCHANGED <<v2, v3, v4, v5, v6>>
  BY DEF Session!Tick
<1>5. v3.failures \in Nat
  BY DEF Session!SessionInv, Session!TypeOK
<1>6. Session!SessionInv'
  BY <1>3, <1>4 DEF Session!SessionInv, Session!TypeOK, Session!InFlightBounded
<1>7. Session!FailuresKeptStep
  BY <1>4, <1>5 DEF Session!FailuresKeptStep
<1>. QED
  BY <1>6, <1>7

\* A restart, maybe with another token.
LEMMA RestartKeepsSession ==
  ASSUME Session!SessionInv, Session!Restart PROVE Session!SessionInv' /\ Session!FailuresKeptStep
<1>1. /\ v2' \in SessionKeys /\ v4' = {} /\ UNCHANGED <<v1, v5, v6>>
      /\ v3' = [start |-> 0, failures |-> 0]
  BY DEF Session!Restart
<1>2. SessionMaxNow \in Nat /\ SessionMaxFailures \in Nat \ {0} /\ SessionMaxPending \in Nat \ {0}
  BY SessionAssumption
<1>3. 0 \in 0 .. SessionMaxNow
  BY <1>2
<1>4. Session!TypeOK'
  BY <1>1, <1>3 DEF Session!SessionInv, Session!TypeOK
<1>5. IsFiniteSet(v4') /\ Cardinality(v4') = 0
  BY <1>1, FS_EmptySet
<1>6. v3'.failures = 0
  BY <1>1
<1>7. /\ Cardinality(v4') <= SessionMaxPending
      /\ v3'.failures + Cardinality(v4') <= SessionMaxFailures + SessionMaxPending - 1
  BY <1>2, <1>5, <1>6
<1>8. Session!InFlightBounded'
  BY <1>5, <1>7, SameSessionCount DEF Session!InFlightBounded
<1>9. Session!FailuresKeptStep
  BY <1>1 DEF Session!FailuresKeptStep
<1>. QED
  BY <1>4, <1>8, <1>9 DEF Session!SessionInv

\* A request with a cookie.
LEMMA RequestKeepsSession ==
  ASSUME Session!SessionInv, NEW path, Session!Request(path)
  PROVE  Session!SessionInv' /\ Session!FailuresKeptStep
<1>1. UNCHANGED <<v1, v2, v3, v4>> /\ v5' \in {v5, None} /\ v6' = Session!Dispatch(path)
  BY DEF Session!Request
<1>2. Session!Dispatch(path) \in {"health", "page", "unauthorized", "not found", "signed out", "data"}
  BY DEF Session!Dispatch
<1>3. v3.failures \in Nat
  BY DEF Session!SessionInv, Session!TypeOK
<1>4. Session!SessionInv'
  BY <1>1, <1>2 DEF Session!SessionInv, Session!TypeOK, Session!InFlightBounded
<1>5. Session!FailuresKeptStep
  BY <1>1, <1>3 DEF Session!FailuresKeptStep
<1>. QED
  BY <1>4, <1>5

\* Data is given on a valid cookie only.
LEMMA DataNeedsCookie == ASSUME [Session!Next]_(Session!vars) PROVE Session!DataNeedsASignInStep
<1>1. ASSUME NEW path, Session!Request(path), v6' = "data"
      PROVE  v5 # None /\ v5.key = v2 /\ v1 < v5.expires
  <2>1. Session!Dispatch(path) = "data"
    BY <1>1 DEF Session!Request
  <2>2. Session!Valid(v5)
    BY <2>1 DEF Session!Dispatch
  <2>. QED
    BY <2>2 DEF Session!Valid
<1>2. ASSUME v6' = "data", v6 # "data"
      PROVE  \E path : Session!Request(path)
  BY <1>2 DEF Session!Next, Session!vars, Session!Tick, Session!Restart,
              Session!CheckSignIn, Session!AnswerSignIn
<1>. QED
  BY <1>1, <1>2 DEF Session!DataNeedsASignInStep

\* Every step of the route, and what a step never does.
LEMMA StepKeepsSession ==
  ASSUME Session!SessionInv, [Session!Next]_(Session!vars)
  PROVE  /\ Session!SessionInv'
         /\ Session!FailuresKeptStep /\ Session!DataNeedsASignInStep
<1>. SUFFICES Session!SessionInv' /\ Session!FailuresKeptStep
  BY DataNeedsCookie
<1>1. ASSUME NEW token \in SessionKeys \union {None}, Session!CheckSignIn(token)
      PROVE  Session!SessionInv' /\ Session!FailuresKeptStep
  BY <1>1, CheckKeepsSession
<1>2. ASSUME NEW request \in v4, Session!AnswerSignIn(request)
      PROVE  Session!SessionInv' /\ Session!FailuresKeptStep
  BY <1>2, AnswerKeepsSession
<1>3. CASE UNCHANGED Session!vars
  <2>1. Session!SessionInv'
    BY <1>3 DEF Session!vars, Session!SessionInv, Session!TypeOK, Session!InFlightBounded
  <2>2. v3.failures \in Nat /\ v3' = v3
    BY <1>3 DEF Session!vars, Session!SessionInv, Session!TypeOK
  <2>. QED
    BY <2>1, <2>2 DEF Session!FailuresKeptStep
<1>4. ASSUME NEW path, Session!Request(path) PROVE Session!SessionInv' /\ Session!FailuresKeptStep
  BY <1>4, RequestKeepsSession
<1>5. CASE Session!Next
  <2>1. \/ Session!Tick \/ Session!Restart
        \/ \E token \in SessionKeys \union {None} : Session!CheckSignIn(token)
        \/ \E request \in v4 : Session!AnswerSignIn(request)
        \/ \E path : Session!Request(path)
    BY <1>5 DEF Session!Next
  <2>. QED
    BY <2>1, <1>1, <1>2, <1>4, TickKeepsSession, RestartKeepsSession
<1>. QED
  BY <1>3, <1>5

\* The limit follows.
LEMMA SessionIsBounded == ASSUME Session!SessionInv PROVE Session!FailuresBounded
<1>1. Cardinality(v4) \in Nat /\ v3.failures \in Nat
      /\ v3.failures + Cardinality(v4) <= SessionMaxFailures + SessionMaxPending - 1
  BY SameSessionCount, FS_CardinalityType
     DEF Session!SessionInv, Session!TypeOK, Session!InFlightBounded
<1>. QED
  BY <1>1, SessionAssumption DEF Session!FailuresBounded

-----------------------------------------------------------------------------
(* The built client's files.                                               *)

\* What a path is answered with while one build's files are there.
LEMMA ServedFiles ==
  ASSUME Files!FilesInv
  PROVE  /\ \A p \in {Files!Index, <<"deep link", 0>>} :
              /\ p \notin DOMAIN v3
              /\ Files!Serve(p) = [content |-> v2, page |-> TRUE, cache |-> "no-cache"]
         /\ \A v \in Files!Version :
              Files!Serve(Files!Asset(v)) =
                IF v = v2 THEN [content |-> v, page |-> FALSE, cache |-> "long"]
                          ELSE [content |-> None, page |-> FALSE, cache |-> "no-cache"]
<1>1. /\ DOMAIN v1 = {Files!Asset(v2), Files!Index}
      /\ v1[Files!Index] = v2 /\ v1[Files!Asset(v2)] = v2
  BY DEF Files!FilesInv
<1>2. ASSUME NEW v \in Files!Version
      PROVE  /\ Files!Asset(v) # Files!Index /\ Files!Asset(v) # <<"deep link", 0>>
             /\ (Files!Asset(v) = Files!Asset(v2) <=> v = v2)
             /\ Files!Asset(v)[1] = "asset"
  BY DEF Files!Asset, Files!Index
<1>3. /\ Files!Index[1] = "index" /\ <<"deep link", 0>>[1] = "deep link"
      /\ Files!Index # <<"deep link", 0>>
  BY DEF Files!Index
<1>4. ASSUME NEW p \in {Files!Index, <<"deep link", 0>>} PROVE p \notin DOMAIN v3
  BY <1>2 DEF Files!FilesInv
<1>5. v2 \in Files!Version
  BY DEF Files!FilesInv, Files!TypeOK
<1>6. /\ Files!Serve(Files!Index) = [content |-> v2, page |-> TRUE, cache |-> "no-cache"]
      /\ Files!Serve(<<"deep link", 0>>)
           = [content |-> v2, page |-> TRUE, cache |-> "no-cache"]
  BY <1>1, <1>2, <1>3, <1>5 DEF Files!Serve, Files!CacheControl, Files!LooksLikeNonHtml
<1>7. ASSUME NEW v \in Files!Version
      PROVE  Files!Serve(Files!Asset(v)) =
                IF v = v2 THEN [content |-> v, page |-> FALSE, cache |-> "long"]
                          ELSE [content |-> None, page |-> FALSE, cache |-> "no-cache"]
  BY <1>1, <1>2, <1>7 DEF Files!Serve, Files!CacheControl, Files!LooksLikeNonHtml
<1>. QED
  BY <1>4, <1>6, <1>7

\* The first deploy.
LEMMA FilesInit == ASSUME Files!Init PROVE Files!FilesInv
<1>1. 1 \in Files!Version
  BY FilesAssumption DEF Files!Version
<1>2. v2 = 1 /\ v1 = [p \in {Files!Asset(1), Files!Index} |-> 1] /\ v3 = << >>
      /\ v4 = None /\ v5 = None
  BY DEF Files!Init
<1>3. Files!TypeOK
  <2>1. DOMAIN v1 = {Files!Asset(1), Files!Index} /\ DOMAIN v3 = {}
    BY <1>2
  <2>2. {Files!Asset(1), Files!Index} \subseteq Files!Path
    BY <1>1 DEF Files!Path
  <2>. QED
    BY <1>1, <1>2, <2>1, <2>2 DEF Files!TypeOK
<1>. QED
  BY <1>2, <1>3 DEF Files!FilesInv, Files!ScriptFitsThePage

\* A deploy replaces the files.
LEMMA DeployKeepsFiles == ASSUME Files!FilesInv, Files!Deploy PROVE Files!FilesInv'
<1>1. /\ v2 < FilesMaxVersion /\ v2' = v2 + 1 /\ UNCHANGED <<v3, v4, v5>>
      /\ v1' = [p \in {Files!Asset(v2 + 1), Files!Index} |-> v2 + 1]
  BY DEF Files!Deploy
<1>2. v2' \in Files!Version
  <2>1. v2 \in 1 .. FilesMaxVersion
    BY DEF Files!FilesInv, Files!TypeOK, Files!Version
  <2>. QED
    BY <1>1, <2>1, FilesAssumption DEF Files!Version
<1>3. Files!TypeOK'
  <2>1. DOMAIN v1' \subseteq Files!Path
    BY <1>1, <1>2 DEF Files!Path
  <2>. QED
    BY <1>1, <1>2, <2>1 DEF Files!FilesInv, Files!TypeOK
<1>4. Files!ScriptFitsThePage'
  BY <1>1 DEF Files!FilesInv, Files!ScriptFitsThePage
<1>5. v1' = [p \in {Files!Asset(v2'), Files!Index} |-> v2']
  BY <1>1
<1>. QED
  BY <1>1, <1>3, <1>4, <1>5 DEF Files!FilesInv

\* A page that is asked for is that of the build.
LEMMA NavigateBringsBuild ==
  ASSUME Files!FilesInv, NEW p \in {Files!Index, <<"deep link", 0>>}, Files!Navigate(p)
  PROVE  v4' = v2 /\ v5' = None /\ UNCHANGED <<v1, v2, v3>>
<1> DEFINE r == Files!Fetch(p)
<1>1. r = [content |-> v2, page |-> TRUE, cache |-> "no-cache"]
  BY ServedFiles DEF Files!Fetch
<1>2. /\ v4' = r.content /\ v5' = None /\ v3' = Files!Keep(p, r) /\ UNCHANGED <<v1, v2>>
  BY DEF Files!Navigate
<1> HIDE DEF r
<1>3. r.content = v2 /\ r.cache # "long"
  BY <1>1
<1>. QED
  BY <1>2, <1>3 DEF Files!Keep

\* A navigation fetches a page, or finds it in the cache.
LEMMA NavigateKeepsFiles ==
  ASSUME Files!FilesInv, NEW p \in {Files!Index, <<"deep link", 0>>}, Files!Navigate(p)
  PROVE  Files!FilesInv'
<1>1. v4' = v2 /\ v5' = None /\ UNCHANGED <<v1, v2, v3>>
  BY NavigateBringsBuild
<1>2. Files!TypeOK'
  BY <1>1 DEF Files!FilesInv, Files!TypeOK
<1>. QED
  BY <1>1, <1>2 DEF Files!FilesInv, Files!ScriptFitsThePage

\* A script is the page's own, or gone with its build.
LEMMA LoadScriptKeepsFiles ==
  ASSUME Files!FilesInv, Files!LoadScript PROVE Files!FilesInv' /\ v5' # None
<1> DEFINE own == [content |-> v4, page |-> FALSE, cache |-> "long"]
           none == [content |-> None, page |-> FALSE, cache |-> "no-cache"]
           r == Files!Fetch(Files!Asset(v4))
<1>1. v4 \in Files!Version /\ v4 \in Nat /\ v4 # None
  BY FilesAssumption DEF Files!LoadScript, Files!FilesInv, Files!TypeOK, Files!Version
<1>2. r \in {own, none}
  <2>1. CASE Files!Asset(v4) \in DOMAIN v3
    <3>1. PICK v \in Files!Version :
            /\ Files!Asset(v4) = Files!Asset(v)
            /\ v3[Files!Asset(v4)] = [content |-> v, page |-> FALSE, cache |-> "long"]
      BY <2>1 DEF Files!FilesInv
    <3>2. v = v4
      BY <3>1 DEF Files!Asset
    <3>. QED
      BY <2>1, <3>1, <3>2 DEF Files!Fetch
  <2>2. CASE Files!Asset(v4) \notin DOMAIN v3
    BY <1>1, <2>2, ServedFiles DEF Files!Fetch
  <2>. QED
    BY <2>1, <2>2
<1> HIDE DEF r
<1>3. /\ v5' = IF r.content = None THEN <<"missing", v4>>
               ELSE <<IF r.page THEN "page" ELSE "script", r.content>>
      /\ v3' = Files!Keep(Files!Asset(v4), r) /\ UNCHANGED <<v1, v2, v4>>
  BY DEF Files!LoadScript, r
<1>4. v5' \in {<<"missing", v4>>, <<"script", v4>>}
  BY <1>1, <1>2, <1>3
<1>5. v5' # None
  BY <1>1, <1>4, FilesAssumption
<1>6. \A p \in DOMAIN v3' : \E v \in Files!Version :
        p = Files!Asset(v) /\ v3'[p] = [content |-> v, page |-> FALSE, cache |-> "long"]
  <2>1. CASE r = own
    <3>1. v3' = [q \in DOMAIN v3 \union {Files!Asset(v4)} |->
                   IF q = Files!Asset(v4) THEN own ELSE v3[q]]
      BY <1>3, <2>1 DEF Files!Keep
    <3>2. ASSUME NEW p \in DOMAIN v3'
          PROVE  \E v \in Files!Version :
                   p = Files!Asset(v) /\ v3'[p] = [content |-> v, page |-> FALSE, cache |-> "long"]
      <4>1. CASE p = Files!Asset(v4)
        BY <1>1, <3>1, <4>1
      <4>2. CASE p # Files!Asset(v4)
        <5>1. p \in DOMAIN v3 /\ v3'[p] = v3[p]
          BY <3>1, <3>2, <4>2
        <5>. QED
          BY <5>1 DEF Files!FilesInv
      <4>. QED
        BY <4>1, <4>2
    <3>. QED
      BY <3>2
  <2>2. CASE r = none
    <3>1. v3' = v3
      BY <1>3, <2>2 DEF Files!Keep
    <3>. QED
      BY <3>1 DEF Files!FilesInv
  <2>. QED
    BY <1>2, <2>1, <2>2
<1>7. Files!TypeOK'
  <2>1. DOMAIN v3' \subseteq Files!Path
    BY <1>6 DEF Files!Path
  <2>2. v5' \in ({"script", "page", "missing"} \X Files!Version)
    BY <1>1, <1>4
  <2>. QED
    BY <1>3, <2>1, <2>2 DEF Files!FilesInv, Files!TypeOK
<1>. QED
  BY <1>3, <1>4, <1>5, <1>6, <1>7 DEF Files!FilesInv, Files!ScriptFitsThePage

\* Every step, and what a reload brings.
LEMMA StepKeepsFiles ==
  ASSUME Files!FilesInv, [Files!Next]_(Files!vars)
  PROVE  Files!FilesInv' /\ Files!ReloadIsCurrentStep
<1>1. CASE Files!Deploy
  BY <1>1, DeployKeepsFiles DEF Files!ReloadIsCurrentStep, Files!Deploy
<1>2. ASSUME NEW p \in {Files!Index, <<"deep link", 0>>}, Files!Navigate(p)
      PROVE  Files!FilesInv' /\ Files!ReloadIsCurrentStep
  BY <1>2, NavigateKeepsFiles, NavigateBringsBuild DEF Files!ReloadIsCurrentStep
<1>3. CASE Files!LoadScript
  BY <1>3, LoadScriptKeepsFiles DEF Files!ReloadIsCurrentStep
<1>4. CASE UNCHANGED Files!vars
  BY <1>4 DEF Files!vars, Files!FilesInv, Files!TypeOK, Files!ScriptFitsThePage,
              Files!ReloadIsCurrentStep
<1>. QED
  BY <1>1, <1>2, <1>3, <1>4 DEF Files!Next

-----------------------------------------------------------------------------
(*-------------------------- Folders (FolderNames) -------------------------*)

\* Each special use is that of one kind.
LEMMA UseOfKind ==
  /\ (CHOOSE use \in Names!Uses : Names!KindOfUse(use) = "sent") = "Sent"
  /\ (CHOOSE use \in Names!Uses : Names!KindOfUse(use) = "trash") = "Trash"
<1>1. None # "sent" /\ None # "trash"
  BY NamesAssumption DEF Names!Kinds
<1>2. \A use \in Names!Uses : Names!KindOfUse(use) = "sent" <=> use = "Sent"
  BY <1>1 DEF Names!Uses, Names!KindOfUse
<1>3. \A use \in Names!Uses : Names!KindOfUse(use) = "trash" <=> use = "Trash"
  BY <1>1 DEF Names!Uses, Names!KindOfUse
<1>4. "Sent" \in Names!Uses /\ "Trash" \in Names!Uses
  BY DEF Names!Uses
<1>. QED
  BY <1>2, <1>3, <1>4

\* A path is of the mailbox it begins with.
LEMMA PathOfMailbox ==
  ASSUME v1 \in NamesLangs, NEW m \in Names!Mailboxes
  PROVE  /\ Names!Path(m) \in Names!Paths /\ Names!Path(m)[1] = m
         /\ Names!MailboxOf(Names!Path(m)) = m
<1>1. \A n \in Names!Mailboxes : Names!Path(n)[1] = n /\ Names!Path(n) \in Names!Paths
  BY DEF Names!Path, Names!Paths
<1>2. \A n \in Names!Mailboxes : Names!Path(n) = Names!Path(m) => n = m
  BY <1>1
<1>. QED
  BY <1>1, <1>2 DEF Names!MailboxOf

LEMMA DiscoveredIsFaithful ==
  ASSUME v1 \in NamesLangs
  PROVE  Names!Discovered \in Names!Folders /\ Names!Faithful(Names!Discovered)
<1> DEFINE folders == Names!Discovered
<1>1. /\ folders["inbox"] = Names!Path("INBOX")
      /\ folders["archive"] = IF "Archive" \in v2 THEN Names!Path("Archive")
                              ELSE Names!PathOfUse("All")
  BY DEF Names!Discovered, Names!Kinds
<1>11. /\ folders["sent"] = Names!PathOfUse("Sent")
       /\ folders["trash"] = Names!PathOfUse("Trash")
  <2>1. /\ folders["sent"] = Names!PathOfUse(CHOOSE use \in Names!Uses : Names!KindOfUse(use) = "sent")
        /\ folders["trash"] = Names!PathOfUse(CHOOSE use \in Names!Uses : Names!KindOfUse(use) = "trash")
    BY DEF Names!Discovered, Names!Kinds
  <2>. QED
    BY <2>1, UseOfKind
<1>12. folders = [k \in Names!Kinds |-> folders[k]]
  BY DEF Names!Discovered
<1>2. \A use \in Names!Uses :
        /\ Names!PathOfUse(use) \in Names!Paths \union {None}
        /\ Names!PathOfUse(use) # None => Names!PathOfUse(use)[1] = use
        /\ Names!Path(use) \in Names!Paths /\ Names!Path(use)[1] = use
  BY PathOfMailbox DEF Names!PathOfUse, Names!Mailboxes
<1>3. Names!Path("INBOX") \in Names!Paths /\ Names!Path("INBOX") = <<"INBOX", None>>
  BY PathOfMailbox DEF Names!Mailboxes, Names!Path
<1> HIDE DEF folders
<1>4. /\ folders["sent"] \in Names!Paths \union {None}
      /\ folders["sent"] # None => folders["sent"][1] = "Sent"
      /\ folders["trash"] \in Names!Paths \union {None}
      /\ folders["trash"] # None => folders["trash"][1] = "Trash"
      /\ folders["archive"] \in Names!Paths \union {None}
      /\ folders["archive"] # None => folders["archive"][1] \in {"Archive", "All"}
  BY <1>1, <1>11, <1>2 DEF Names!Uses
<1>5. folders \in Names!Folders
  BY <1>1, <1>12, <1>3, <1>4 DEF Names!Folders, Names!Kinds
<1>6. \A kind \in {"inbox", "sent", "trash"} : folders[kind] # None => folders[kind][1] = Names!Use(kind)
  BY <1>1, <1>3, <1>4 DEF Names!Use
<1>7. Names!Kinds \ {"archive"} = {"inbox", "sent", "trash"}
  BY DEF Names!Kinds
<1>8. Names!Faithful(folders)
  BY <1>1, <1>3, <1>4, <1>6, <1>7 DEF Names!Faithful
<1>. QED
  BY <1>5, <1>8 DEF folders

\* A folder that is synced is the mailbox of its use.
LEMMA SyncedByUse ==
  ASSUME NEW folders \in Names!Folders, Names!Faithful(folders), NEW path \in Names!Synced(folders)
  PROVE  path \in Names!Paths /\ path[1] \in {"INBOX", "Sent", "Trash"}
<1>1. PICK kind \in Names!Kinds \ {"archive"} : path = folders[kind] /\ path # None
  BY DEF Names!Synced
<1>2. path \in Names!Paths
  BY <1>1 DEF Names!Folders
<1>3. path[1] \in {"INBOX", Names!Use(kind)}
  BY <1>1 DEF Names!Faithful, Names!Path, Names!Kinds
<1>. QED
  BY <1>2, <1>3 DEF Names!Use

LEMMA NamesInit == Names!Init => Names!NamesInv
<1>. SUFFICES ASSUME Names!Init PROVE Names!NamesInv
  OBVIOUS
<1>1. Names!TypeOK
  <2>1. v3 \in 0 .. NamesMaxTurns /\ v5 \in 1 .. NamesMaxUid
    BY NamesAssumption DEF Names!Init
  <2>2. v4 \in Names!Mailboxes /\ v2 \subseteq Names!Uses
    BY DEF Names!Init, Names!Mailboxes, Names!Uses
  <2>3. v9.origin = None /\ v9.home = None
    BY DEF Names!Init, Names!NoTicket
  <2>. QED
    BY <2>1, <2>2, <2>3 DEF Names!Init, Names!TypeOK
<1>. QED
  BY <1>1 DEF Names!NamesInv, Names!Init, Names!FoldersAreFaithful, Names!RowsAreSynced,
              Names!TicketNamesHome, Names!UndoReturnsHome

LEMMA CycleKeepsNames ==
  ASSUME Names!NamesInv, Names!Cycle PROVE Names!NamesInv'
<1> DEFINE folders == IF v6 = None THEN Names!Discovered ELSE v6
<1>1. Names!TypeOK /\ Names!FoldersAreFaithful /\ Names!RowsAreSynced /\ Names!TicketNamesHome
      /\ Names!UndoReturnsHome
  BY DEF Names!NamesInv
<1>2. folders \in Names!Folders /\ Names!Faithful(folders)
  BY <1>1, DiscoveredIsFaithful DEF Names!TypeOK, Names!FoldersAreFaithful
<1>3. /\ v6' = folders
      /\ v7' = IF v6 = None THEN folders ELSE v7
      /\ v8' = v8 \union ({<<Names!Path(v4), v5>>} \intersect (Names!Synced(folders) \X {v5}))
      /\ UNCHANGED <<v1, v2, v3, v4, v5, v9, v10>>
  BY DEF Names!Cycle, Names!AccountAfter, Names!server, Names!message
<1>4. v6 # None => folders = v7
  BY <1>1 DEF Names!FoldersAreFaithful
<1>5. v7' = folders
  BY <1>3, <1>4
<1> HIDE DEF folders
<1>6. \A row \in v8' \ v8 : /\ row \in Names!Paths \X (1 .. NamesMaxUid)
                            /\ row[1][1] \in {"INBOX", "Sent", "Trash"}
  <2>. SUFFICES ASSUME NEW row \in v8' \ v8
                PROVE  /\ row \in Names!Paths \X (1 .. NamesMaxUid)
                       /\ row[1][1] \in {"INBOX", "Sent", "Trash"}
    OBVIOUS
  <2>1. row = <<Names!Path(v4), v5>> /\ Names!Path(v4) \in Names!Synced(folders)
    BY <1>3
  <2>2. v5 \in 1 .. NamesMaxUid
    BY <1>1 DEF Names!TypeOK
  <2>. QED
    BY <1>2, <2>1, <2>2, SyncedByUse
<1>7. Names!TypeOK'
  BY <1>1, <1>2, <1>3, <1>5, <1>6 DEF Names!TypeOK
<1>8. Names!RowsAreSynced'
  BY <1>1, <1>6 DEF Names!RowsAreSynced
<1>9. Names!FoldersAreFaithful'
  BY <1>2, <1>3, <1>5 DEF Names!FoldersAreFaithful, Names!Faithful
<1>. QED
  BY <1>1, <1>3, <1>7, <1>8, <1>9
     DEF Names!NamesInv, Names!TicketNamesHome, Names!UndoReturnsHome

\* Where a message goes: to the mailbox the account's folder names now.
LEMMA MovedToFolder ==
  ASSUME Names!NamesInv, NEW from, NEW n, NEW kind \in Names!Kinds,
         Names!Accepted(from, kind), Names!Moved(from, n, kind), v5 < NamesMaxUid
  PROVE  /\ v4' \in Names!Mailboxes /\ v5' \in 1 .. NamesMaxUid
         /\ v4' # v4 => /\ from = Names!Path(v4) /\ v7[kind] \in Names!Paths
                        /\ v4' = v7[kind][1]
<1>1. v4 \in Names!Mailboxes /\ v5 \in 1 .. NamesMaxUid /\ v5 + 1 \in 1 .. NamesMaxUid
  BY NamesAssumption DEF Names!NamesInv, Names!TypeOK
<1>2. v1 \in NamesLangs
  BY DEF Names!NamesInv, Names!TypeOK
<1>3. PICK m \in Names!Mailboxes : Names!Path(m) = v7[kind]
  BY DEF Names!Accepted, Names!Named
<1>4. /\ Names!MailboxOf(v7[kind]) = m /\ v7[kind] \in Names!Paths /\ v7[kind][1] = m
  BY <1>2, <1>3, PathOfMailbox
<1>. QED
  BY <1>1, <1>3, <1>4 DEF Names!Moved

LEMMA MoveKeepsNames ==
  ASSUME Names!NamesInv, NEW row \in v8, NEW kind \in Names!Kinds, Names!Move(row, kind)
  PROVE  Names!NamesInv'
<1> DEFINE origin == Names!KindForPath(v7, row[1])
<1>1. Names!TypeOK /\ Names!FoldersAreFaithful /\ Names!RowsAreSynced /\ Names!UndoReturnsHome
  BY DEF Names!NamesInv
<1>2. /\ Names!Accepted(row[1], kind) /\ Names!Moved(row[1], row[2], kind) /\ v5 < NamesMaxUid
      /\ v8' = v8 \ {row}
      /\ v9' = IF v4' # v4 /\ origin # None
               THEN [path |-> v7[kind], uid |-> v5', origin |-> origin, home |-> v4]
               ELSE Names!NoTicket
      /\ v10' = IF v4' # v4 THEN None ELSE v10
      /\ UNCHANGED <<v1, v2, v3, v6, v7>>
  BY DEF Names!Move, Names!server
<1>3. /\ v4' \in Names!Mailboxes /\ v5' \in 1 .. NamesMaxUid
      /\ v4' # v4 => row[1] = Names!Path(v4)
  BY <1>2, MovedToFolder
<1>4. ASSUME v4' # v4, origin # None
      PROVE  origin \in Names!Kinds \ {"archive"} /\ v4 = Names!Use(origin)
  <2>1. row[1][1] = v4 /\ v4 \in {"INBOX", "Sent", "Trash"}
    BY <1>1, <1>3, <1>4, PathOfMailbox DEF Names!TypeOK, Names!RowsAreSynced
  <2>2. origin \in Names!Kinds /\ v7[origin] = row[1]
    BY <1>4 DEF Names!KindForPath
  <2>3. v7 # None
    BY <1>2 DEF Names!Accepted
  <2>4. v7 \in Names!Folders /\ Names!Faithful(v7)
    BY <1>1, <2>3 DEF Names!TypeOK, Names!FoldersAreFaithful
  <2>5. row[1] \in Names!Paths /\ row[1] # None
    BY <1>1, NamesAssumption DEF Names!TypeOK
  <2>6. origin # "archive"
    BY <2>1, <2>2, <2>4, <2>5 DEF Names!Faithful
  <2>7. row[1][1] = Names!Use(origin)
    BY <2>2, <2>4, <2>5, <2>6 DEF Names!Faithful
  <2>. QED
    BY <2>1, <2>2, <2>6, <2>7
<1>5. v4 \in Names!Mailboxes
  BY <1>1 DEF Names!TypeOK
<1> HIDE DEF origin
<1>6. Names!TicketNamesHome'
  <2>1. CASE v4' # v4 /\ origin # None
    <3>1. v9'.origin = origin /\ v9'.home = v4
      BY <1>2, <2>1
    <3>. QED
      BY <1>4, <2>1, <3>1 DEF Names!TicketNamesHome
  <2>2. CASE ~(v4' # v4 /\ origin # None)
    BY <1>2, <2>2 DEF Names!TicketNamesHome, Names!NoTicket
  <2>. QED
    BY <2>1, <2>2
<1>7. Names!TypeOK'
  <2>1. v9'.origin \in Names!Kinds \union {None} /\ v9'.home \in Names!Mailboxes \union {None}
    BY <1>2, <1>4, <1>5 DEF Names!NoTicket
  <2>2. v10' \in Names!Mailboxes \union {None}
    BY <1>1, <1>2 DEF Names!TypeOK
  <2>. QED
    BY <1>1, <1>2, <1>3, <2>1, <2>2 DEF Names!TypeOK
<1>8. Names!RowsAreSynced' /\ Names!FoldersAreFaithful' /\ Names!UndoReturnsHome'
  BY <1>1, <1>2 DEF Names!RowsAreSynced, Names!FoldersAreFaithful, Names!UndoReturnsHome, Names!Faithful
<1>. QED
  BY <1>6, <1>7, <1>8 DEF Names!NamesInv

LEMMA UndoKeepsNames ==
  ASSUME Names!NamesInv, Names!Undo PROVE Names!NamesInv'
<1>1. Names!TypeOK /\ Names!FoldersAreFaithful /\ Names!RowsAreSynced /\ Names!UndoReturnsHome
  BY DEF Names!NamesInv
<1>2. /\ Names!Accepted(v9.path, v9.origin) /\ Names!Moved(v9.path, v9.uid, v9.origin)
      /\ v5 < NamesMaxUid
      /\ v8' = v8 \ {<<v9.path, v9.uid>>}
      /\ v9' = Names!NoTicket
      /\ v10' = IF v4' # v4 THEN v9.home ELSE v10
      /\ UNCHANGED <<v1, v2, v3, v6, v7>>
  BY DEF Names!Undo, Names!server
<1>3. v9.origin \in Names!Kinds \ {"archive"} /\ v9.home = Names!Use(v9.origin)
  BY DEF Names!NamesInv, Names!TicketNamesHome, Names!Undo
<1>4. /\ v4' \in Names!Mailboxes /\ v5' \in 1 .. NamesMaxUid
      /\ v4' # v4 => v4' = v7[v9.origin][1]
  BY <1>2, <1>3, MovedToFolder
<1>5. v7 # None /\ v7[v9.origin] # None
  BY <1>2 DEF Names!Accepted
<1>6. v7[v9.origin][1] = Names!Use(v9.origin)
  BY <1>1, <1>3, <1>5 DEF Names!FoldersAreFaithful, Names!Faithful
<1>7. Names!UndoReturnsHome'
  BY <1>1, <1>2, <1>3, <1>4, <1>6 DEF Names!UndoReturnsHome
<1>8. Names!Use(v9.origin) \in Names!Mailboxes
  BY <1>3 DEF Names!Use, Names!Mailboxes, Names!Uses
<1>9. Names!TypeOK'
  <2>1. v9'.origin = None /\ v9'.home = None
    BY <1>2 DEF Names!NoTicket
  <2>2. v10' \in Names!Mailboxes \union {None}
    BY <1>1, <1>2, <1>3, <1>8 DEF Names!TypeOK
  <2>. QED
    BY <1>1, <1>2, <1>4, <2>1, <2>2 DEF Names!TypeOK
<1>10. Names!RowsAreSynced' /\ Names!FoldersAreFaithful' /\ Names!TicketNamesHome'
  BY <1>1, <1>2 DEF Names!RowsAreSynced, Names!FoldersAreFaithful, Names!TicketNamesHome, Names!Faithful
<1>. QED
  BY <1>7, <1>9, <1>10 DEF Names!NamesInv

\* The mail server may turn as it likes.
LEMMA TurnKeepsNames ==
  ASSUME Names!NamesInv,
         \/ Names!SetLanguage \/ Names!MoveElsewhere \/ Names!Reconnect
         \/ UNCHANGED Names!vars
         \/ \E use \in Names!Uses : Names!Flag(use)
  PROVE  Names!NamesInv'
<1>1. Names!TypeOK /\ Names!FoldersAreFaithful /\ Names!RowsAreSynced /\ Names!TicketNamesHome
      /\ Names!UndoReturnsHome
  BY DEF Names!NamesInv
<1>2. /\ UNCHANGED <<v7, v8, v9>> /\ v6' \in {v6, None}
      /\ v1' \in NamesLangs /\ v2' \subseteq Names!Uses /\ v3' \in 0 .. NamesMaxTurns
      /\ \/ UNCHANGED <<v4, v5, v10>>
         \/ /\ v4' \in Names!Mailboxes /\ v5' = v5 + 1 /\ v5 < NamesMaxUid
            /\ v10' = None
  <2>1. ASSUME Names!Turn PROVE v3' \in 0 .. NamesMaxTurns
    BY <1>1, <2>1, NamesAssumption DEF Names!Turn, Names!TypeOK
  <2>2. CASE Names!SetLanguage
    BY <1>1, <2>1, <2>2 DEF Names!SetLanguage, Names!message, Names!TypeOK
  <2>3. CASE Names!MoveElsewhere
    BY <1>1, <2>1, <2>3 DEF Names!MoveElsewhere, Names!TypeOK, Names!Mailboxes, Names!Uses
  <2>4. CASE Names!Reconnect
    BY <1>1, <2>4 DEF Names!Reconnect, Names!message, Names!server, Names!TypeOK
  <2>5. CASE UNCHANGED Names!vars
    BY <1>1, <2>5 DEF Names!vars, Names!TypeOK
  <2>6. ASSUME NEW use \in Names!Uses, Names!Flag(use)
        PROVE  UNCHANGED <<v1, v4, v5, v6, v7, v8, v9, v10>> /\ v2' \subseteq Names!Uses /\ Names!Turn
    BY <1>1, <2>6 DEF Names!Flag, Names!message, Names!TypeOK
  <2>. QED
    BY <1>1, <2>1, <2>2, <2>3, <2>4, <2>5, <2>6 DEF Names!TypeOK
<1>3. v5' \in 1 .. NamesMaxUid
  BY <1>1, <1>2, NamesAssumption DEF Names!TypeOK
<1>4. Names!TypeOK'
  BY <1>1, <1>2, <1>3 DEF Names!TypeOK
<1>5. Names!UndoReturnsHome'
  BY <1>1, <1>2 DEF Names!UndoReturnsHome
<1>6. Names!RowsAreSynced' /\ Names!FoldersAreFaithful' /\ Names!TicketNamesHome'
  BY <1>1, <1>2 DEF Names!RowsAreSynced, Names!FoldersAreFaithful, Names!TicketNamesHome, Names!Faithful
<1>. QED
  BY <1>4, <1>5, <1>6 DEF Names!NamesInv

LEMMA StepKeepsNames ==
  ASSUME Names!NamesInv, [Names!Next]_(Names!vars) PROVE Names!NamesInv'
<1>1. ASSUME NEW row \in v8, NEW kind \in Names!Kinds \ {"inbox", "sent"}, Names!Move(row, kind)
      PROVE  Names!NamesInv'
  BY <1>1, MoveKeepsNames
<1>. QED
  BY <1>1, CycleKeepsNames, UndoKeepsNames, TurnKeepsNames DEF Names!Next

\* What a folder lists is what is synced, and nothing is synced twice.
LEMMA NamesKeepPromises ==
  ASSUME Names!NamesInv
  PROVE  Names!UndoReturnsHome /\ Names!NothingTwice /\ Names!ViewsAreSynced
<1>1. Names!NothingTwice
  BY DEF Names!NamesInv, Names!RowsAreSynced, Names!NothingTwice
<1>2. ASSUME v6 # None, NEW kind \in Names!Kinds \ {"archive"}
      PROVE  Names!Listed(kind) \subseteq Names!Synced(v6)
  <2>1. v7 = v6 /\ Names!Faithful(v6) /\ v6 \in Names!Folders
    BY <1>2 DEF Names!NamesInv, Names!FoldersAreFaithful, Names!TypeOK
  <2>2. v6["inbox"] = Names!Path("INBOX") /\ Names!Path("INBOX") # None
        /\ "inbox" \in Names!Kinds \ {"archive"}
    <3>1. Names!Path("INBOX") \in Names!Paths
      BY PathOfMailbox DEF Names!NamesInv, Names!TypeOK, Names!Mailboxes
    <3>. QED
      BY <2>1, <3>1, NamesAssumption DEF Names!Faithful, Names!Path, Names!Kinds
  <2>3. Names!Synced(v6) = {v6[k] : k \in Names!Kinds \ {"archive"}} \ {None}
    BY DEF Names!Synced
  <2>. QED
    BY <1>2, <2>1, <2>2, <2>3 DEF Names!Listed
<1>3. Names!ViewsAreSynced
  BY <1>2 DEF Names!ViewsAreSynced
<1>. QED
  BY <1>1, <1>3 DEF Names!NamesInv

-----------------------------------------------------------------------------
(* The view of sent mail that waits for an answer.                         *)
LEMMA SameWaitingCount ==
  \A S : Waiting!Cardinality(S) = Cardinality(S)
  BY DEF Waiting!Cardinality, Cardinality

\* A numbering counts what it numbers.
Numbers(f, n, S) ==
  /\ f \in [1 .. n -> S]
  /\ \A i, j \in 1 .. n : f[i] = f[j] => i = j
  /\ \A x \in S : \E i \in 1 .. n : f[i] = x
LEMMA NumberedAreCounted ==
  ASSUME NEW S, NEW n \in Nat, NEW f, Numbers(f, n, S) PROVE Cardinality(S) = n
<1>1. f \in Bijection(1 .. n, S)
  BY DEF Numbers, Bijection, Injection, Surjection, IsInjective
<1>2. ExistsBijection(1 .. n, S)
  BY <1>1 DEF ExistsBijection
<1>. QED
  BY <1>2, FS_CountingElements

\* The first selection has asked for its first page.
LEMMA ViewInit == ASSUME Waiting!Init PROVE Waiting!ViewInv
<1>1. /\ v1 \in WaitingAccounts /\ v2 \in [Waiting!Row -> WaitingStates]
      /\ v3 = [load |-> "loading", rows |-> {}, cursor |-> None,
               more |-> FALSE, available |-> TRUE]
      /\ v4 = 1 /\ v5 = {Waiting!Ask(1, v1, 0)}
  BY DEF Waiting!Init
<1>2. 1 \in 1 .. WaitingMaxSel /\ 0 \in 0 .. WaitingRows /\ 1 <= 1
  BY WaitingAssumption
<1>3. v3 \in Waiting!View
  BY <1>1 DEF Waiting!View
<1>4. v5 \subseteq Waiting!Request
  BY <1>1, <1>2 DEF Waiting!Ask, Waiting!Request
<1>5. Waiting!TypeOK
  BY <1>1, <1>2, <1>3, <1>4 DEF Waiting!TypeOK
<1>6. Waiting!AsksAreCurrent
  BY <1>1, <1>2 DEF Waiting!AsksAreCurrent, Waiting!Ask, Waiting!Current
<1>7. Waiting!EachRowOnce
  BY <1>1 DEF Waiting!EachRowOnce
<1>. QED
  BY <1>5, <1>6, <1>7 DEF Waiting!ViewInv

\* A row's state changes at the service only.
LEMMA OpenedKeepsView ==
  ASSUME Waiting!ViewInv, NEW row \in Waiting!Row, NEW state \in WaitingStates,
         Waiting!Opened(row, state)
  PROVE  Waiting!ViewInv'
<1>1. v2' = [v2 EXCEPT ![row] = state] /\ UNCHANGED <<v1, v3, v4, v5>>
  BY DEF Waiting!Opened
<1>2. v2' \in [Waiting!Row -> WaitingStates]
  BY <1>1 DEF Waiting!ViewInv, Waiting!TypeOK
<1>. QED
  BY <1>1, <1>2
     DEF Waiting!ViewInv, Waiting!TypeOK, Waiting!AsksAreCurrent, Waiting!EachRowOnce,
         Waiting!Current, Waiting!Reached

\* What was asked before a selection is asked no more.
LEMMA SelectKeepsView ==
  ASSUME Waiting!ViewInv, NEW who \in WaitingAccounts, NEW retried \in BOOLEAN,
         Waiting!Select(who, retried)
  PROVE  Waiting!ViewInv'
<1> DEFINE r0 == Waiting!Ask(v4 + 1, who, 0)
<1>1. /\ v4 < WaitingMaxSel /\ v4' = v4 + 1 /\ v1' = who
      /\ v3' = [v3 EXCEPT !.load = "loading"]
      /\ v5' = v5 \union {r0}
      /\ UNCHANGED v2
  BY DEF Waiting!Select
<1>2. v4 \in Nat /\ v4 + 1 \in 1 .. WaitingMaxSel /\ 0 \in 0 .. WaitingRows
  BY <1>1, WaitingAssumption DEF Waiting!ViewInv, Waiting!TypeOK
<1>3. v3 \in Waiting!View /\ v5 \subseteq Waiting!Request
  BY DEF Waiting!ViewInv, Waiting!TypeOK
<1>4. v3' \in Waiting!View /\ v3'.load = "loading"
  BY <1>1, <1>3 DEF Waiting!View
<1>5. r0 \in Waiting!Request /\ r0.selection = v4 + 1 /\ r0.account = who /\ r0.from = 0
  BY <1>2 DEF Waiting!Ask, Waiting!Request
<1> HIDE DEF r0
<1>6. Waiting!TypeOK'
  BY <1>1, <1>2, <1>3, <1>4, <1>5 DEF Waiting!ViewInv, Waiting!TypeOK
<1>7. Waiting!AsksAreCurrent'
  <2>. SUFFICES ASSUME NEW r \in v5'
                PROVE  /\ r.selection <= v4'
                       /\ r.selection = v4' =>
                            /\ r.account = v1'
                            /\ IF r.from = 0 THEN v3'.load = "loading"
                               ELSE v3'.load = "ready" /\ v3'.cursor = r.from
    BY DEF Waiting!AsksAreCurrent, Waiting!Current
  <2>1. CASE r = r0
    BY <1>1, <1>2, <1>4, <1>5, <2>1
  <2>2. CASE r \in v5
    <3>1. r.selection <= v4 /\ r.selection \in Nat
      BY <1>3, <2>2, WaitingAssumption
         DEF Waiting!ViewInv, Waiting!AsksAreCurrent, Waiting!Request
    <3>2. r.selection <= v4 + 1 /\ r.selection # v4 + 1
      BY <1>2, <3>1
    <3>. QED
      BY <1>1, <3>2
  <2>. QED
    BY <1>1, <2>1, <2>2
<1>8. Waiting!EachRowOnce'
  BY <1>4 DEF Waiting!EachRowOnce
<1>. QED
  BY <1>6, <1>7, <1>8 DEF Waiting!ViewInv

\* The next page is asked for at the cursor.
LEMMA LoadMoreKeepsView ==
  ASSUME Waiting!ViewInv, Waiting!LoadMore PROVE Waiting!ViewInv'
<1> DEFINE r0 == Waiting!Ask(v4, v1, v3.cursor)
<1>1. /\ v3.load = "ready" /\ v3.cursor # None
      /\ v3' = [v3 EXCEPT !.more = TRUE]
      /\ v5' = v5 \union {r0}
      /\ UNCHANGED <<v1, v2, v4>>
  BY DEF Waiting!LoadMore
<1>2. v3 \in Waiting!View /\ v5 \subseteq Waiting!Request /\ v4 \in 1 .. WaitingMaxSel
      /\ v1 \in WaitingAccounts
  BY DEF Waiting!ViewInv, Waiting!TypeOK
<1>3. v3' \in Waiting!View /\ v3'.load = "ready" /\ v3'.rows = v3.rows
      /\ v3'.cursor = v3.cursor
  BY <1>1, <1>2 DEF Waiting!View
<1>4. v3.cursor \in 1 .. WaitingRows
  BY <1>1, <1>2 DEF Waiting!View
<1>5. v3.cursor \in 0 .. WaitingRows /\ v3.cursor # 0 /\ v4 <= v4
  BY <1>2, <1>4, WaitingAssumption
<1>6. r0 \in Waiting!Request /\ r0.selection = v4 /\ r0.account = v1 /\ r0.from = v3.cursor
  BY <1>2, <1>5 DEF Waiting!Ask, Waiting!Request
<1> HIDE DEF r0
<1>7. Waiting!TypeOK'
  BY <1>1, <1>2, <1>3, <1>6 DEF Waiting!ViewInv, Waiting!TypeOK
<1>8. Waiting!AsksAreCurrent'
  <2>. SUFFICES ASSUME NEW r \in v5'
                PROVE  /\ r.selection <= v4
                       /\ r.selection = v4 =>
                            /\ r.account = v1
                            /\ IF r.from = 0 THEN v3'.load = "loading"
                               ELSE v3'.load = "ready" /\ v3'.cursor = r.from
    BY <1>1 DEF Waiting!AsksAreCurrent, Waiting!Current
  <2>1. CASE r = r0
    BY <1>3, <1>5, <1>6, <2>1
  <2>2. CASE r \in v5
    BY <1>1, <1>3, <2>2 DEF Waiting!ViewInv, Waiting!AsksAreCurrent, Waiting!Current
  <2>. QED
    BY <1>1, <2>1, <2>2
<1>9. Waiting!EachRowOnce'
  BY <1>1, <1>3 DEF Waiting!ViewInv, Waiting!EachRowOnce, Waiting!Reached
<1>. QED
  BY <1>7, <1>8, <1>9 DEF Waiting!ViewInv

\* Only what was asked for the present selection is out for it, and that once.
LEMMA CurrentAskIsAlone ==
  ASSUME Waiting!ViewInv, NEW r \in v5, NEW s \in v5,
         Waiting!Current(r), Waiting!Current(s)
  PROVE  r = s
<1>1. r \in Waiting!Request /\ s \in Waiting!Request
  BY DEF Waiting!ViewInv, Waiting!TypeOK
<1>2. /\ r.selection = s.selection /\ r.account = s.account
      /\ IF r.from = 0 THEN v3.load = "loading" ELSE v3.load = "ready" /\ v3.cursor = r.from
      /\ IF s.from = 0 THEN v3.load = "loading" ELSE v3.load = "ready" /\ v3.cursor = s.from
  BY DEF Waiting!ViewInv, Waiting!AsksAreCurrent, Waiting!Current
<1>3. r.from = s.from
  BY <1>2
<1>. QED
  BY <1>1, <1>2, <1>3 DEF Waiting!Request

\* A page continues where its cursor is.
LEMMA PageContinues ==
  ASSUME Waiting!ViewInv, NEW r \in v5
  PROVE  LET n == IF Waiting!NextCursor(r) = None THEN WaitingRows ELSE Waiting!NextCursor(r)
         IN /\ Waiting!NextCursor(r) \in 1 .. WaitingRows \union {None}
            /\ r.from <= n /\ n \in Nat /\ r.from \in Nat
            /\ Waiting!PageRows(r) =
                 {[row |-> <<r.account, k>>, state |-> v2[<<r.account, k>>]] :
                    k \in r.from + 1 .. n}
            /\ Waiting!PageRows(r) \subseteq Waiting!Loaded
<1>1. r \in Waiting!Request /\ v2 \in [Waiting!Row -> WaitingStates]
  BY DEF Waiting!ViewInv, Waiting!TypeOK
<1>2. r.account \in WaitingAccounts /\ r.from \in 0 .. WaitingRows
  BY <1>1 DEF Waiting!Request
<1> DEFINE f == r.from
           n == IF Waiting!NextCursor(r) = None THEN WaitingRows ELSE Waiting!NextCursor(r)
<1>3. /\ n = Waiting!Least(f + WaitingPageSize, WaitingRows)
      /\ Waiting!NextCursor(r) \in 1 .. WaitingRows \union {None}
      /\ f <= n /\ n \in Nat /\ n <= WaitingRows /\ f \in Nat
  BY <1>2, WaitingAssumption DEF Waiting!NextCursor, Waiting!Least
<1> HIDE DEF n
<1>4. Waiting!PageRows(r) =
        {[row |-> <<r.account, k>>, state |-> v2[<<r.account, k>>]] : k \in f + 1 .. n}
  BY <1>3 DEF Waiting!PageRows
<1>5. \A k \in f + 1 .. n : k \in 1 .. WaitingRows
  BY <1>3, WaitingAssumption
<1>6. Waiting!PageRows(r) \subseteq Waiting!Loaded
  <2>. SUFFICES ASSUME NEW k \in f + 1 .. n
                PROVE  [row |-> <<r.account, k>>, state |-> v2[<<r.account, k>>]]
                         \in Waiting!Loaded
    BY <1>4
  <2>1. <<r.account, k>> \in Waiting!Row
    BY <1>2, <1>5 DEF Waiting!Row
  <2>2. v2[<<r.account, k>>] \in WaitingStates
    BY <1>1, <2>1
  <2>. QED
    BY <2>1, <2>2 DEF Waiting!Loaded
<1>. QED
  BY <1>3, <1>4, <1>6 DEF n

\* An answer that is current is the page that was missing.
LEMMA AnswerKeepsView ==
  ASSUME Waiting!ViewInv, NEW r \in v5, NEW available \in BOOLEAN,
         Waiting!Answer(r, available)
  PROVE  Waiting!ViewInv'
<1>1. v5' = v5 \ {r} /\ UNCHANGED <<v1, v2, v4>>
  BY DEF Waiting!Answer
<1>2. v3 \in Waiting!View /\ v5 \subseteq Waiting!Request /\ r \in Waiting!Request
  BY DEF Waiting!ViewInv, Waiting!TypeOK
<1>3. CASE ~Waiting!Current(r)
  <2>1. v3' = v3
    BY <1>3 DEF Waiting!Answer
  <2>. QED
    BY <1>1, <2>1
       DEF Waiting!ViewInv, Waiting!TypeOK, Waiting!AsksAreCurrent, Waiting!EachRowOnce,
           Waiting!Current, Waiting!Reached
<1>4. CASE Waiting!Current(r)
  <2> DEFINE next == Waiting!NextCursor(r)
             n == IF next = None THEN WaitingRows ELSE next
             rows == Waiting!Appended(r)
  <2>1. v3' = [load |-> "ready", rows |-> rows, cursor |-> next,
               more |-> v3.more /\ r.from = 0, available |-> available]
    BY <1>4 DEF Waiting!Answer
  <2>2. /\ next \in 1 .. WaitingRows \union {None}
        /\ r.from <= n /\ n \in Nat /\ r.from \in Nat
        /\ Waiting!PageRows(r) =
             {[row |-> <<r.account, k>>, state |-> v2[<<r.account, k>>]] : k \in r.from + 1 .. n}
        /\ Waiting!PageRows(r) \subseteq Waiting!Loaded
    BY PageContinues
  <2>3. rows \subseteq Waiting!Loaded
    BY <1>2, <2>2 DEF Waiting!Appended, Waiting!View
  <2>4. v3' \in Waiting!View
    <3>1. (v3.more /\ r.from = 0) \in BOOLEAN
      OBVIOUS
    <3> DEFINE more == v3.more /\ r.from = 0
    <3> HIDE DEF more, next, rows
    <3>2. more \in BOOLEAN
      BY <3>1 DEF more
    <3>3. v3' = [load |-> "ready", rows |-> rows, cursor |-> next,
                 more |-> more, available |-> available]
      BY <2>1 DEF more
    <3>. QED
      BY <2>2, <2>3, <3>2, <3>3 DEF Waiting!View, next, rows
  <2>5. v3'.load = "ready" /\ v3'.rows = rows /\ v3'.cursor = next
    BY <2>1
  <2>6. Waiting!TypeOK'
    BY <1>1, <1>2, <2>4 DEF Waiting!ViewInv, Waiting!TypeOK
  <2>7. Waiting!AsksAreCurrent'
    BY <1>1, <1>4, CurrentAskIsAlone
       DEF Waiting!ViewInv, Waiting!AsksAreCurrent, Waiting!Current
  <2>8. /\ r.account = v1
        /\ r.from # 0 =>
             /\ {l.row : l \in v3.rows} = {v1} \X (1 .. r.from)
             /\ \A k, l \in v3.rows : k.row = l.row => k = l
    <3>1. r.from # 0 => v3.load = "ready" /\ v3.cursor = r.from /\ r.from # None
      BY <1>4, <2>2, WaitingAssumption DEF Waiting!ViewInv, Waiting!AsksAreCurrent
    <3>2. r.account = v1
      BY <1>4 DEF Waiting!ViewInv, Waiting!AsksAreCurrent
    <3>3. r.from # 0 => Waiting!Reached = r.from
      BY <3>1 DEF Waiting!Reached
    <3>. QED
      BY <3>1, <3>2, <3>3 DEF Waiting!ViewInv, Waiting!EachRowOnce
  <2> DEFINE at(k) == [row |-> <<v1, k>>, state |-> v2[<<v1, k>>]]
  <2>9. \A l \in Waiting!PageRows(r) : \E k \in r.from + 1 .. n : l = at(k)
    BY <2>2, <2>8
  <2>10. \A k \in r.from + 1 .. n : at(k) \in Waiting!PageRows(r)
    BY <2>2, <2>8
  <2>15. \A k : at(k).row = <<v1, k>>
    OBVIOUS
  <2>16. /\ \A k \in 1 .. n : <<v1, k>> \in {v1} \X (1 .. n)
         /\ \A x \in {v1} \X (1 .. n) : \E k \in 1 .. n : x = <<v1, k>>
         /\ \A i, j : <<v1, i>> = <<v1, j>> => i = j
    OBVIOUS
  <2> HIDE DEF at
  <2> HIDE DEF n, rows, next
  <2>11. \A k \in 1 .. n : k \in 1 .. r.from \/ k \in r.from + 1 .. n
    BY <2>2
  <2>12. /\ \A k \in 1 .. r.from : k \in 1 .. n
         /\ \A k \in r.from + 1 .. n : k \in 1 .. n /\ k \notin 1 .. r.from
    BY <2>2
  <2>13. CASE r.from = 0
    <3>1. rows = Waiting!PageRows(r) /\ \A k \in 1 .. n : k \in r.from + 1 .. n
      BY <2>2, <2>13 DEF Waiting!Appended, rows
    <3>2. ASSUME NEW l \in rows PROVE l.row \in {v1} \X (1 .. n)
      <4>1. PICK k \in r.from + 1 .. n : l = at(k)
        BY <2>9, <3>1
      <4>2. l.row = <<v1, k>> /\ k \in 1 .. n
        BY <2>12, <2>15, <4>1
      <4>. QED
        BY <2>16, <4>2
    <3>3. ASSUME NEW x \in {v1} \X (1 .. n) PROVE \E l \in rows : l.row = x
      <4>1. PICK k \in 1 .. n : x = <<v1, k>>
        BY <2>16
      <4>2. at(k) \in rows /\ at(k).row = x
        BY <2>10, <2>15, <3>1, <4>1
      <4>. QED
        BY <4>2
    <3>4. ASSUME NEW k \in rows, NEW l \in rows, k.row = l.row PROVE k = l
      <4>1. PICK i \in r.from + 1 .. n, j \in r.from + 1 .. n : k = at(i) /\ l = at(j)
        BY <2>9, <3>1
      <4>2. <<v1, i>> = <<v1, j>>
        BY <2>15, <3>4, <4>1
      <4>. QED
        BY <2>16, <4>1, <4>2
    <3>5. {l.row : l \in rows} = {v1} \X (1 .. n)
      BY <3>2, <3>3
    <3>. QED
      BY <3>4, <3>5, <1>1, <2>5, <2>6, <2>7
         DEF Waiting!ViewInv, Waiting!EachRowOnce, Waiting!Reached, n
  <2>14. CASE r.from # 0
    <3>1. rows = v3.rows \union Waiting!PageRows(r)
      BY <2>14 DEF Waiting!Appended, rows
    <3>2. ASSUME NEW l \in v3.rows PROVE \E k \in 1 .. r.from : l.row = <<v1, k>>
      <4>1. l.row \in {v1} \X (1 .. r.from)
        BY <2>8, <2>14
      <4>. QED
        BY <4>1
    <3>3. ASSUME NEW l \in Waiting!PageRows(r)
          PROVE  \E k \in r.from + 1 .. n : l = at(k) /\ l.row = <<v1, k>>
      BY <2>9, <2>15
    <3>4. ASSUME NEW l \in rows PROVE l.row \in {v1} \X (1 .. n)
      <4>1. CASE l \in v3.rows
        BY <2>12, <2>16, <3>2, <4>1
      <4>2. CASE l \in Waiting!PageRows(r)
        BY <2>12, <2>16, <3>3, <4>2
      <4>. QED
        BY <3>1, <4>1, <4>2
    <3>5. ASSUME NEW x \in {v1} \X (1 .. n) PROVE \E l \in rows : l.row = x
      <4>1. PICK k \in 1 .. n : x = <<v1, k>>
        BY <2>16
      <4>2. CASE k \in r.from + 1 .. n
        <5>1. at(k) \in rows /\ at(k).row = x
          BY <2>10, <2>15, <3>1, <4>1, <4>2
        <5>. QED
          BY <5>1
      <4>3. CASE k \in 1 .. r.from
        <5>1. <<v1, k>> \in {v1} \X (1 .. r.from)
          BY <4>3
        <5>2. <<v1, k>> \in {l.row : l \in v3.rows}
          BY <2>8, <2>14, <5>1
        <5>. QED
          BY <3>1, <4>1, <5>2
      <4>. QED
        BY <2>11, <4>1, <4>2, <4>3
    <3>6. ASSUME NEW k \in rows, NEW l \in rows, k.row = l.row PROVE k = l
      <4>1. CASE k \in v3.rows /\ l \in v3.rows
        BY <2>8, <2>14, <3>6, <4>1
      <4>2. CASE k \in Waiting!PageRows(r) /\ l \in Waiting!PageRows(r)
        <5>1. PICK i \in r.from + 1 .. n : k = at(i) /\ k.row = <<v1, i>>
          BY <3>3, <4>2
        <5>2. PICK j \in r.from + 1 .. n : l = at(j) /\ l.row = <<v1, j>>
          BY <3>3, <4>2
        <5>. QED
          BY <2>16, <3>6, <5>1, <5>2
      <4>3. ASSUME NEW x \in v3.rows, NEW y \in Waiting!PageRows(r), x.row = y.row
            PROVE  FALSE
        <5>1. PICK i \in 1 .. r.from : x.row = <<v1, i>>
          BY <3>2
        <5>2. PICK j \in r.from + 1 .. n : y.row = <<v1, j>>
          BY <3>3
        <5>. QED
          BY <2>12, <2>16, <4>3, <5>1, <5>2
      <4>. QED
        BY <3>1, <3>6, <4>1, <4>2, <4>3
    <3>7. {l.row : l \in rows} = {v1} \X (1 .. n)
      BY <3>4, <3>5
    <3>. QED
      BY <3>6, <3>7, <1>1, <2>5, <2>6, <2>7
         DEF Waiting!ViewInv, Waiting!EachRowOnce, Waiting!Reached, n
  <2>. QED
    BY <2>13, <2>14
<1>. QED
  BY <1>3, <1>4

\* A failure leaves the rows, or puts an error in their place.
LEMMA FailKeepsView ==
  ASSUME Waiting!ViewInv, NEW r \in v5, Waiting!Fail(r) PROVE Waiting!ViewInv'
<1>1. v5' = v5 \ {r} /\ UNCHANGED <<v1, v2, v4>>
  BY DEF Waiting!Fail
<1>2. v3 \in Waiting!View
  BY DEF Waiting!ViewInv, Waiting!TypeOK
<1>3. CASE ~Waiting!Current(r)
  <2>1. v3' = v3
    BY <1>3 DEF Waiting!Fail
  <2>. QED
    BY <1>1, <2>1
       DEF Waiting!ViewInv, Waiting!TypeOK, Waiting!AsksAreCurrent, Waiting!EachRowOnce,
           Waiting!Current, Waiting!Reached
<1>4. CASE Waiting!Current(r)
  <2>1. v3' = IF r.from = 0 THEN [v3 EXCEPT !.load = "error"] ELSE [v3 EXCEPT !.more = FALSE]
    BY <1>4 DEF Waiting!Fail
  <2>2. /\ v3' \in Waiting!View
        /\ \/ v3'.load = "error"
           \/ v3'.load = v3.load /\ v3'.rows = v3.rows /\ v3'.cursor = v3.cursor
    BY <1>2, <2>1 DEF Waiting!View
  <2>3. Waiting!TypeOK'
    BY <1>1, <2>2 DEF Waiting!ViewInv, Waiting!TypeOK
  <2>4. Waiting!AsksAreCurrent'
    BY <1>1, <1>4, CurrentAskIsAlone
       DEF Waiting!ViewInv, Waiting!AsksAreCurrent, Waiting!Current
  <2>5. Waiting!EachRowOnce'
    BY <1>1, <2>2 DEF Waiting!ViewInv, Waiting!EachRowOnce, Waiting!Reached
  <2>. QED
    BY <2>3, <2>4, <2>5 DEF Waiting!ViewInv
<1>. QED
  BY <1>3, <1>4

\* Every step of the view.
LEMMA StepKeepsView ==
  ASSUME Waiting!ViewInv, [Waiting!Next]_(Waiting!vars) PROVE Waiting!ViewInv'
<1>1. CASE UNCHANGED Waiting!vars
  BY <1>1
     DEF Waiting!vars, Waiting!ViewInv, Waiting!TypeOK, Waiting!AsksAreCurrent,
         Waiting!EachRowOnce, Waiting!Current, Waiting!Reached
<1>. QED
  BY <1>1, OpenedKeepsView, SelectKeepsView, LoadMoreKeepsView, AnswerKeepsView,
     FailKeepsView DEF Waiting!Next

\* The rows on screen are the newest, each once, up to the cursor.
LEMMA ViewKeepsPromises == ASSUME Waiting!ViewInv PROVE Waiting!RowsAreThePrefix
<1>. SUFFICES ASSUME v3.load = "ready"
              PROVE  LET loaded == {l.row : l \in v3.rows}
                         n == Waiting!Cardinality(loaded)
                     IN /\ Waiting!Cardinality(v3.rows) = n
                        /\ loaded = {v1} \X (1 .. n)
                        /\ IF v3.cursor = None THEN n = WaitingRows ELSE n = v3.cursor
  BY DEF Waiting!RowsAreThePrefix
<1> DEFINE n == Waiting!Reached
           loaded == {l.row : l \in v3.rows}
<1>1. /\ loaded = {v1} \X (1 .. n)
      /\ \A k, l \in v3.rows : k.row = l.row => k = l
  BY DEF Waiting!ViewInv, Waiting!EachRowOnce
<1>2. n \in Nat
  <2>1. v3.cursor \in 1 .. WaitingRows \union {None}
    BY DEF Waiting!ViewInv, Waiting!TypeOK, Waiting!View
  <2>. QED
    BY <2>1, WaitingAssumption DEF Waiting!Reached
<1> HIDE DEF n
<1>3. Cardinality(loaded) = n
  <2> DEFINE f == [i \in 1 .. n |-> <<v1, i>>]
  <2>1. /\ \A i \in 1 .. n : <<v1, i>> \in {v1} \X (1 .. n)
        /\ \A x \in {v1} \X (1 .. n) : \E i \in 1 .. n : x = <<v1, i>>
        /\ \A i, j : <<v1, i>> = <<v1, j>> => i = j
    OBVIOUS
  <2>2. f \in [1 .. n -> {v1} \X (1 .. n)]
    BY <2>1
  <2>3. Numbers(f, n, {v1} \X (1 .. n))
    BY <2>1, <2>2 DEF Numbers
  <2> HIDE DEF f, loaded
  <2>. QED
    BY <1>1, <1>2, <2>3, NumberedAreCounted
<1>4. Cardinality(v3.rows) = n
  <2> DEFINE f == [i \in 1 .. n |-> CHOOSE l \in v3.rows : l.row = <<v1, i>>]
  <2>1. ASSUME NEW i \in 1 .. n PROVE f[i] \in v3.rows /\ f[i].row = <<v1, i>>
    <3>1. <<v1, i>> \in loaded
      BY <1>1
    <3>2. \E l \in v3.rows : l.row = <<v1, i>>
      BY <3>1
    <3>. QED
      BY <3>2
  <2>2. f \in [1 .. n -> v3.rows]
    BY <2>1
  <2>3. \A i, j \in 1 .. n : f[i] = f[j] => i = j
    <3>. SUFFICES ASSUME NEW i \in 1 .. n, NEW j \in 1 .. n, f[i] = f[j] PROVE i = j
      OBVIOUS
    <3>1. <<v1, i>> = <<v1, j>>
      BY <2>1
    <3>. QED
      BY <3>1
  <2>4. ASSUME NEW x \in v3.rows PROVE \E i \in 1 .. n : f[i] = x
    <3>1. x.row \in loaded
      OBVIOUS
    <3>2. PICK i \in 1 .. n : x.row = <<v1, i>>
      BY <1>1, <3>1
    <3>3. f[i] = x
      BY <1>1, <2>1, <3>2
    <3>. QED
      BY <3>3
  <2> HIDE DEF f
  <2>5. Numbers(f, n, v3.rows)
    BY <2>2, <2>3, <2>4 DEF Numbers
  <2>. QED
    BY <1>2, <2>5, NumberedAreCounted
<1>5. IF v3.cursor = None THEN n = WaitingRows ELSE n = v3.cursor
  BY DEF n, Waiting!Reached
<1>. QED
  BY <1>1, <1>3, <1>4, <1>5, SameWaitingCount

-----------------------------------------------------------------------------
(* What a search text means.  A value that is missing makes a test neither *)
(* true nor false, until it is negated.                                    *)

\* A negation holds exactly where the test does not.
LEMMA NegateIsNot ==
  ASSUME NEW answer \in {"true", "false", "null"}
  PROVE  Terms!Negate(answer) = "true" <=> answer # "true"
  BY DEF Terms!Negate, Terms!Coalesce, Terms!SqlNot, Terms!Sql

\* A test has one of the three answers of SQL.
LEMMA SqlAnswers ==
  \A c : Terms!Sql(c) \in {"true", "false", "null"}
  BY DEF Terms!Sql
LEMMA BaseClauseAnswers ==
  ASSUME NEW term, NEW row \in Terms!Row
  PROVE  Terms!BaseClause(term, row) \in {"true", "false", "null"}
<1>1. \A column, value : Terms!Like(column, value) \in {"true", "false", "null"}
  BY SqlAnswers DEF Terms!Like
<1>2. Terms!MatchClause(term, row) \in {"true", "false", "null"}
  <2>1. \A answers : Terms!SqlOr(answers) \in {"true", "false", "null"}
    BY DEF Terms!SqlOr
  <2>2. CASE term.what = "any"
    BY <2>1, <2>2 DEF Terms!MatchClause
  <2>3. CASE term.what = "from"
    BY <1>1, <2>3 DEF Terms!MatchClause
  <2>4. CASE term.what = "subject"
    BY <1>1, <2>4 DEF Terms!MatchClause
  <2>5. CASE term.what \notin {"any", "from", "subject"}
    <3>1. Terms!MatchClause(term, row) = Terms!Sql(row.to # None /\ term.value \in row.to)
      BY <2>5 DEF Terms!MatchClause
    <3>. QED
      BY <3>1, SqlAnswers
  <2>. QED
    BY <2>2, <2>3, <2>4, <2>5
<1>3. \A flag : Terms!Present(flag, row) \in {"true", "false", "null"}
  BY SqlAnswers DEF Terms!Present
<1>4. Terms!FlagClause(term.value, row) \in {"true", "false", "null"}
  <2>1. \A answer : Terms!Negate(answer) \in {"true", "false", "null"}
    BY DEF Terms!Negate, Terms!SqlNot, Terms!Coalesce, Terms!Sql
  <2>2. CASE term.value = "attachment"
    <3>1. Terms!FlagClause(term.value, row) = Terms!Sql(row.attach)
      BY <2>2 DEF Terms!FlagClause
    <3>. QED
      BY <3>1, SqlAnswers
  <2>3. CASE term.value = "unread"
    BY <2>1, <2>3 DEF Terms!FlagClause
  <2>4. CASE term.value = "read"
    BY <1>3, <2>4 DEF Terms!FlagClause
  <2>5. CASE term.value \notin {"attachment", "unread", "read"}
    BY <1>3, <2>5 DEF Terms!FlagClause
  <2>. QED
    BY <2>2, <2>3, <2>4, <2>5
<1>5. /\ Terms!DateClause(term.what, row) \in {"true", "false", "null"}
      /\ Terms!SizeClause(term.what, row) \in {"true", "false", "null"}
  BY SqlAnswers DEF Terms!DateClause, Terms!SizeClause
<1>6. CASE term.kind = "match"
  BY <1>2, <1>6 DEF Terms!BaseClause
<1>7. CASE term.kind = "flag"
  BY <1>4, <1>7 DEF Terms!BaseClause
<1>8. CASE term.kind = "date"
  BY <1>5, <1>8 DEF Terms!BaseClause
<1>9. CASE term.kind \notin {"match", "flag", "date"}
  BY <1>5, <1>9 DEF Terms!BaseClause
<1>. QED
  BY <1>6, <1>7, <1>8, <1>9

\* The term of a negated token is the negated term.
LEMMA OppositeTerm ==
  ASSUME NEW token \in Terms!Token
  PROVE  LET term == Terms!Classify(token)
             other == Terms!Classify(Terms!Opposite(token))
         IN /\ term.negated = token.negated /\ other.negated = ~token.negated
            /\ other.kind = term.kind /\ other.what = term.what
            /\ other.value = term.value
<1> DEFINE o == Terms!Opposite(token)
<1>1. /\ o.operator = token.operator /\ o.value = token.value
      /\ o.negated = ~token.negated
  BY DEF Terms!Opposite, Terms!Token
<1> HIDE DEF o
<1>2. /\ Terms!TextTerm(o).kind = Terms!TextTerm(token).kind
      /\ Terms!TextTerm(o).what = Terms!TextTerm(token).what
      /\ Terms!TextTerm(o).value = Terms!TextTerm(token).value
      /\ Terms!TextTerm(o).negated = ~token.negated
      /\ Terms!TextTerm(token).negated = token.negated
  BY <1>1 DEF Terms!TextTerm, Terms!Literal
<1>3. \A kind : /\ Terms!Of(kind, o).kind = Terms!Of(kind, token).kind
                /\ Terms!Of(kind, o).what = Terms!Of(kind, token).what
                /\ Terms!Of(kind, o).value = Terms!Of(kind, token).value
                /\ Terms!Of(kind, o).negated = ~token.negated
                /\ Terms!Of(kind, token).negated = token.negated
  BY <1>1 DEF Terms!Of
<1>4. \/ /\ Terms!Classify(token) = Terms!TextTerm(token)
         /\ Terms!Classify(o) = Terms!TextTerm(o)
      \/ \E kind \in {"match", "flag", "date", "size"} :
           /\ Terms!Classify(token) = Terms!Of(kind, token)
           /\ Terms!Classify(o) = Terms!Of(kind, o)
  <2>1. CASE token.value = "empty"
    BY <1>1, <2>1 DEF Terms!Classify
  <2>2. CASE token.value # "empty" /\ token.operator \in Terms!Fields
    BY <1>1, <2>2 DEF Terms!Classify
  <2>3. CASE /\ token.value # "empty" /\ token.operator \notin Terms!Fields
             /\ Terms!FlagOf(token.operator, token.value) # None
    BY <1>1, <2>3 DEF Terms!Classify
  <2>4. CASE /\ token.value # "empty" /\ token.operator \notin Terms!Fields
             /\ ~(Terms!FlagOf(token.operator, token.value) # None)
    BY <1>1, <2>4 DEF Terms!Classify
  <2>. QED
    BY <2>1, <2>2, <2>3, <2>4
<1>. QED
  BY <1>1, <1>2, <1>3, <1>4 DEF o

\* A text of one token has its one term.
LEMMA OneToken ==
  ASSUME NEW token \in Terms!Token, ~Terms!IsEmpty(token)
  PROVE  Terms!Matching(<<token>>) =
           {row \in Terms!Row : Terms!TermClause(Terms!Classify(token), row) = "true"}
<1>1. Terms!Range(<<token>>) = {token} /\ <<token>> # <<>>
  BY DEF Terms!Range
<1>2. Terms!Parse(<<token>>) = {Terms!Classify(token)}
  BY <1>1 DEF Terms!Parse
<1>. QED
  BY <1>2 DEF Terms!Matching

\* A token and its opposite find complements.
LEMMA OppositesPart ==
  ASSUME NEW token \in Terms!Token, ~Terms!IsEmpty(token)
  PROVE  Terms!Matching(<<token>>) = Terms!Row \ Terms!Matching(<<Terms!Opposite(token)>>)
<1> DEFINE term == Terms!Classify(token)
           other == Terms!Classify(Terms!Opposite(token))
<1>1. Terms!Opposite(token) \in Terms!Token /\ ~Terms!IsEmpty(Terms!Opposite(token))
  BY DEF Terms!Opposite, Terms!Token, Terms!IsEmpty
<1>2. ASSUME NEW row \in Terms!Row
      PROVE  Terms!TermClause(term, row) = "true" <=> Terms!TermClause(other, row) # "true"
  <2>1. Terms!BaseClause(other, row) = Terms!BaseClause(term, row)
    BY OppositeTerm DEF Terms!BaseClause, Terms!MatchClause
  <2>2. Terms!BaseClause(term, row) \in {"true", "false", "null"}
    BY BaseClauseAnswers
  <2>3. Terms!Negate(Terms!BaseClause(term, row)) = "true"
          <=> Terms!BaseClause(term, row) # "true"
    BY <2>2, NegateIsNot
  <2>4. token.negated \in BOOLEAN /\ term.negated = token.negated
        /\ other.negated = ~token.negated
    BY OppositeTerm DEF Terms!Token
  <2> HIDE DEF term, other
  <2>5. CASE token.negated
    <3>1. /\ Terms!TermClause(term, row) = Terms!Negate(Terms!BaseClause(term, row))
          /\ Terms!TermClause(other, row) = Terms!BaseClause(other, row)
      BY <2>4, <2>5 DEF Terms!TermClause
    <3>. QED
      BY <2>1, <2>3, <3>1
  <2>6. CASE ~token.negated
    <3>1. /\ Terms!TermClause(term, row) = Terms!BaseClause(term, row)
          /\ Terms!TermClause(other, row) = Terms!Negate(Terms!BaseClause(other, row))
      BY <2>4, <2>6 DEF Terms!TermClause
    <3>. QED
      BY <2>1, <2>3, <3>1
  <2>. QED
    BY <2>5, <2>6
<1>3. /\ Terms!Matching(<<token>>) =
            {row \in Terms!Row : Terms!TermClause(term, row) = "true"}
      /\ Terms!Matching(<<Terms!Opposite(token)>>) =
            {row \in Terms!Row : Terms!TermClause(other, row) = "true"}
  BY <1>1, OneToken
<1> HIDE DEF term, other
<1>. QED
  BY <1>2, <1>3

\* A token is understood by both sides or by neither, but for a size too large.
LEMMA BothUnderstand ==
  ASSUME NEW token \in Terms!Token, token.value # "huge"
  PROVE  Terms!Understands(token) <=> Terms!Classify(token) # Terms!TextTerm(token)
<1>1. Terms!TextTerm(token).what = "any" /\ Terms!TextTerm(token).kind = "match"
  BY DEF Terms!TextTerm
<1>2. \A kind : Terms!Of(kind, token).what = token.operator
                /\ Terms!Of(kind, token).kind = kind
  BY DEF Terms!Of
<1>3. token.operator # "any"
  BY DEF Terms!Token, Terms!Operators, Terms!Fields, Terms!NoOperator
<1>4. CASE token.value = "empty"
  <2>1. Terms!FlagOf(token.operator, token.value) = None
    BY <1>4 DEF Terms!FlagOf
  <2>. QED
    BY <1>4, <2>1 DEF Terms!Classify, Terms!Understands
<1>5. CASE token.value # "empty" /\ token.operator \in Terms!Fields
  BY <1>1, <1>2, <1>3, <1>5 DEF Terms!Classify, Terms!Understands
<1>6. CASE /\ token.value # "empty" /\ token.operator \notin Terms!Fields
           /\ Terms!FlagOf(token.operator, token.value) # None
  <2>4. token.operator \in {"is", "has"}
    <3>1. <<token.operator, token.value>> \in ({"is"} \X {"unread", "read", "starred"})
                                                \union {<<"has", "attachment">>}
      BY <1>6 DEF Terms!FlagOf
    <3>. QED
      BY <3>1
  <2>1. Terms!Classify(token) = Terms!Of("flag", token)
    BY <1>6, <2>4 DEF Terms!Classify
  <2>2. Terms!Of("flag", token).what # Terms!TextTerm(token).what
    BY <1>1, <1>2, <1>3
  <2>3. Terms!Classify(token) # Terms!TextTerm(token)
    BY <2>1, <2>2
  <2>. QED
    BY <1>6, <2>3 DEF Terms!Understands
<1>7. CASE /\ token.value # "empty" /\ token.operator \notin Terms!Fields
           /\ ~(Terms!FlagOf(token.operator, token.value) # None)
  <2>1. CASE token.operator \in {"before", "after"} /\ token.value = "day"
    BY <1>1, <1>2, <1>3, <1>7, <2>1 DEF Terms!Classify, Terms!Understands
  <2>2. CASE token.operator \in {"larger", "smaller"} /\ token.value = "size"
    BY <1>1, <1>2, <1>3, <1>7, <2>2 DEF Terms!Classify, Terms!Understands
  <2>3. CASE /\ ~(token.operator \in {"before", "after"} /\ token.value = "day")
             /\ ~(token.operator \in {"larger", "smaller"} /\ token.value = "size")
    <3>1. Terms!Classify(token) = Terms!TextTerm(token)
      BY <1>7, <2>3 DEF Terms!Classify
    <3>2. ~Terms!Understands(token)
      BY <1>7, <2>3 DEF Terms!Understands
    <3>. QED
      BY <3>1, <3>2
  <2>. QED
    BY <2>1, <2>2, <2>3
<1>. QED
  BY <1>4, <1>5, <1>6, <1>7

\* Before anything is typed, all rows are there; then those that match.
LEMMA SearchInit == ASSUME Terms!Init PROVE Terms!SearchInv
<1>1. v1 = <<>> /\ v2 = Terms!Row
  BY DEF Terms!Init
<1>2. Terms!Parse(<<>>) = {}
  BY DEF Terms!Parse
<1>3. Terms!Matching(<<>>) = Terms!Row
  BY <1>2 DEF Terms!Matching
<1>4. <<>> \in Seq(Terms!Token)
  OBVIOUS
<1>. QED
  BY <1>1, <1>3, <1>4 DEF Terms!SearchInv, Terms!TypeOK

LEMMA StepKeepsSearch ==
  ASSUME Terms!SearchInv, [Terms!Next]_(Terms!vars) PROVE Terms!SearchInv'
<1>1. ASSUME NEW token \in Terms!Token, Terms!Search(token) PROVE Terms!SearchInv'
  <2>1. v1' = Append(v1, token) /\ v2' = Terms!Matching(v1')
    BY <1>1 DEF Terms!Search
  <2>2. v1' \in Seq(Terms!Token)
    <3> DEFINE S == Terms!Token
    <3>1. v1 \in Seq(S) /\ token \in S
      BY DEF Terms!SearchInv, Terms!TypeOK
    <3> HIDE DEF S
    <3>2. Append(v1, token) \in Seq(S)
      BY <3>1, AppendProperties
    <3>. QED
      BY <2>1, <3>2 DEF S
  <2>3. v2' \subseteq Terms!Row
    BY <2>1 DEF Terms!Matching
  <2>. QED
    BY <2>1, <2>2, <2>3 DEF Terms!SearchInv, Terms!TypeOK
<1>2. CASE UNCHANGED Terms!vars
  BY <1>2 DEF Terms!vars, Terms!SearchInv, Terms!TypeOK
<1>. QED
  BY <1>1, <1>2 DEF Terms!Next

\* A search and its negation part the mailbox, and a chip says what is searched for.
LEMMA SearchKeepsPromises ==
  ASSUME Terms!SearchInv PROVE Terms!NegationIsComplement /\ Terms!ChipsAreTrue
<1>1. v1 \in Seq(Terms!Token) /\ v2 = Terms!Matching(v1)
  BY DEF Terms!SearchInv, Terms!TypeOK
<1>2. \A i \in DOMAIN v1 : v1[i] \in Terms!Token
  <2> DEFINE S == Terms!Token
  <2>1. v1 \in Seq(S)
    BY <1>1
  <2> HIDE DEF S
  <2>2. \A i \in DOMAIN v1 : v1[i] \in S
    BY <2>1
  <2>. QED
    BY <2>2 DEF S
<1>3. Terms!NegationIsComplement
  <2>. SUFFICES ASSUME Len(v1) = 1, ~Terms!IsEmpty(v1[1])
                PROVE  v2 = Terms!Row \ Terms!Matching(<<Terms!Opposite(v1[1])>>)
    BY DEF Terms!NegationIsComplement
  <2>1. v1 = <<v1[1]>> /\ 1 \in DOMAIN v1
    <3> DEFINE S == Terms!Token
    <3>1. v1 \in Seq(S)
      BY <1>1
    <3> HIDE DEF S
    <3>. QED
      BY <3>1
  <2>2. v1[1] \in Terms!Token
    BY <1>2, <2>1
  <2>3. Terms!Matching(<<v1[1]>>) = Terms!Row \ Terms!Matching(<<Terms!Opposite(v1[1])>>)
    BY <2>2, OppositesPart
  <2>. QED
    BY <1>1, <2>1, <2>3
<1>4. Terms!ChipsAreTrue
  BY <1>2, BothUnderstand DEF Terms!ChipsAreTrue
<1>. QED
  BY <1>3, <1>4

-----------------------------------------------------------------------------
(* The list and its pages.                                                  *)

\* What is drawn of a list is a list of its messages.
LEMMA DrawnIsAList ==
  ASSUME NEW S, NEW l \in Seq(S), NEW G PROVE Pages!Drawn(l, G) \in Seq(S)
<1>1. Pages!Drawn(l, G) = Kept(l, G)
  BY DEF Pages!Drawn, Kept
<1>. QED
  BY <1>1, KeptAreTheRest

\* A cursor belongs to the list it was reconciled with.
Points(c, keys) == c # Pages!Nothing => c.index \in DOMAIN keys /\ keys[c.index] = c.key
LEMMA ReconciledPoints ==
  ASSUME v11 \in Pages!Cursor, Points(v11, v10), v10 \in Seq(Pages!Message), NEW S, NEW keys \in Seq(S), S \subseteq Pages!Message
  PROVE  Pages!Reconcile(keys) \in Pages!Cursor /\ Points(Pages!Reconcile(keys), keys)
<1> DEFINE c == Pages!Reconcile(keys)
<1>1. CASE keys = << >> \/ v11.key = None
  <2>1. c = Pages!Nothing
    BY <1>1 DEF Pages!Reconcile
  <2>. QED
    BY <2>1 DEF Points, Pages!Cursor
<1>2. CASE keys # << >> /\ v11.key # None
  <2>1. v11 # Pages!Nothing
    BY <1>2 DEF Pages!Nothing
  <2>2. v11.index \in Nat \ {0}
    BY <2>1 DEF Points
  <2>3. Len(keys) \in Nat \ {0} /\ DOMAIN keys = 1 .. Len(keys)
    BY <1>2
  <2>4. \E i \in 1 .. Len(keys) : c = [key |-> keys[i], index |-> i]
    <3>1. CASE v11.key \in Pages!Range(keys)
      <4> DEFINE i == Pages!Place(v11.key, keys)
      <4>1. \E j \in 1 .. Len(keys) : keys[j] = v11.key
        BY <2>3, <3>1 DEF Pages!Range
      <4>2. i \in 1 .. Len(keys) /\ keys[i] = v11.key
        BY <4>1 DEF Pages!Place
      <4>3. c = [key |-> v11.key, index |-> i]
        BY <1>2, <3>1 DEF Pages!Reconcile
      <4>. QED BY <4>2, <4>3
    <3>2. CASE v11.key \notin Pages!Range(keys)
      <4> DEFINE i == IF keys[1] = v10[1]
                        THEN IF v11.index > Len(keys) THEN Len(keys) ELSE v11.index
                        ELSE 1
      <4>1. c = [key |-> keys[i], index |-> i]
        BY <1>2, <3>2 DEF Pages!Reconcile
      <4>. QED BY <2>2, <2>3, <4>1
    <3>. QED BY <3>1, <3>2
  <2>. QED BY <2>3, <2>4 DEF Points, Pages!Cursor
<1>. QED BY <1>1, <1>2

\* A report takes the cursor along.
LEMMA ReportTakesCursor ==
  ASSUME Pages!PagesInv, NEW keys \in Seq(Pages!Message), Pages!Report(keys)
  PROVE  v10' \in Seq(Pages!Message) /\ v11' \in Pages!Cursor /\ Pages!CursorOnItsRow'
<1>1. v11 \in Pages!Cursor /\ v10 \in Seq(Pages!Message) /\ Points(v11, v10)
  BY DEF Pages!PagesInv, Pages!TypeOK, Pages!CursorOnItsRow, Points
<1>2. v10' = keys /\ v11' = Pages!Reconcile(keys)
  BY DEF Pages!Report
<1>3. v11' \in Pages!Cursor /\ Points(v11', keys)
  BY <1>1, <1>2, ReconciledPoints
<1>. QED
  BY <1>2, <1>3 DEF Pages!CursorOnItsRow, Points, Pages!Nothing

\* The first selection has asked for its first page.
LEMMA PagesInit == ASSUME Pages!Init PROVE Pages!PagesInv
<1> DEFINE r0 == [kind |-> "first", sel |-> 1, scope |-> Pages!Scope, from |-> None]
<1>1. /\ v1 = TRUE /\ v5 = FALSE /\ v2 = PagesInbox /\ v3 = PagesNoQuery /\ v4 = PagesNoQuery
      /\ v7 = Pages!Fresh /\ v8 = {r0} /\ v9 = {} /\ v10 = << >> /\ v11 = Pages!Nothing
  BY DEF Pages!Init
<1>2. v6 \in [Pages!Scopes -> 0 .. PagesMaxTop]
  <2>1. PICK e : v6 = [s \in Pages!Scopes |-> IF s \in e THEN 0 ELSE PagesFirst]
    BY DEF Pages!Init
  <2>2. 0 \in 0 .. PagesMaxTop /\ PagesFirst \in 0 .. PagesMaxTop
    BY PagesAssumption
  <2>. QED BY <2>1, <2>2
<1>3. v2 \in PagesFolders /\ v3 \in Pages!Texts /\ v4 \in Pages!Texts
  BY <1>1, PagesAssumption DEF Pages!Texts
<1>4. Pages!Scope \in Pages!Scopes /\ 1 \in 1 .. PagesMaxSel
  BY <1>3, PagesAssumption DEF Pages!Scope, Pages!Scopes
<1>5. << >> \in Seq(Pages!Message)
  OBVIOUS
<1>6. v7 \in Pages!List /\ v7.load = "loading" /\ v7.more = FALSE /\ v7.sel = 1
  BY <1>1, <1>4, <1>5 DEF Pages!Fresh, Pages!List
<1>7. r0 \in Pages!Request
  BY <1>4 DEF Pages!Request
<1>8. Pages!TypeOK
  BY <1>1, <1>2, <1>3, <1>5, <1>6, <1>7 DEF Pages!TypeOK, Pages!Cursor
<1>9. Pages!AsksAreCurrent
  BY <1>1, <1>6 DEF Pages!AsksAreCurrent, Pages!Current
<1>10. Pages!EmptyIsAll /\ Pages!RowsAreOneRun
  BY <1>6 DEF Pages!EmptyIsAll, Pages!RowsAreOneRun
<1>11. Pages!SpinnerIsOwned
  BY <1>1, <1>6 DEF Pages!SpinnerIsOwned
<1>12. Pages!QueryCatchesUp /\ Pages!CursorOnItsRow
  BY <1>1 DEF Pages!QueryCatchesUp, Pages!CursorOnItsRow, Pages!Nothing
<1>. QED
  BY <1>8, <1>9, <1>10, <1>11, <1>12 DEF Pages!PagesInv

\* A fetch effect makes everything that was asked before a thing of the past.
LEMMA FetchForgets ==
  ASSUME Pages!PagesInv, v2' \in PagesFolders, v4' \in Pages!Texts, Pages!FetchEffect(v7)
  PROVE  /\ v7' \in Pages!List /\ v8' \subseteq Pages!Request
         /\ Pages!AsksAreCurrent' /\ Pages!EmptyIsAll' /\ Pages!RowsAreOneRun'
         /\ Pages!SpinnerIsOwned'
<1> DEFINE n == v7.sel + 1
           r0 == [kind |-> "first", sel |-> n, scope |-> <<v2', v4'>>, from |-> None]
<1>1. v7 \in Pages!List /\ v8 \subseteq Pages!Request
  BY DEF Pages!PagesInv, Pages!TypeOK
<1>2. v7.sel < PagesMaxSel /\ v7' = Pages!Restart(v7) /\ v8' = v8 \union {r0}
  BY DEF Pages!FetchEffect
<1>3. n \in 1 .. PagesMaxSel /\ v7.sel < n /\ n <= n
  BY <1>1, <1>2, PagesAssumption DEF Pages!List
<1> HIDE DEF n
<1>4. v7' = [v7 EXCEPT !.sel = n, !.load = "loading", !.more = FALSE]
  BY <1>2 DEF Pages!Restart, n
<1>5. v7' \in Pages!List /\ v7'.sel = n /\ v7'.load = "loading" /\ v7'.more = FALSE
  BY <1>1, <1>3, <1>4 DEF Pages!List
<1>6. <<v2', v4'>> \in Pages!Scopes
  BY DEF Pages!Scopes
<1>7. r0 \in Pages!Request
  BY <1>3, <1>6 DEF Pages!Request
<1>8. r0.sel = n /\ r0.kind = "first" /\ r0.scope = Pages!Scope' /\ r0.from = None
  BY DEF Pages!Scope
<1> HIDE DEF r0
<1>9. Pages!AsksAreCurrent'
  <2>. SUFFICES ASSUME NEW r \in v8'
                PROVE  /\ r.sel <= v7'.sel
                       /\ r.sel = v7'.sel =>
                            /\ r.scope = Pages!Scope'
                            /\ IF r.kind = "first" THEN r.from = None /\ v7'.load = "loading"
                               ELSE /\ r.from = v7'.next /\ v7'.next # None
                                    /\ v7'.load = "ready" /\ v7'.more
    BY DEF Pages!AsksAreCurrent, Pages!Current
  <2>1. CASE r = r0
    BY <1>3, <1>5, <1>8, <2>1
  <2>2. CASE r \in v8
    <3>1. r.sel <= v7.sel /\ r.sel \in Nat /\ v7.sel \in Nat
      BY <1>1, <2>2, PagesAssumption
         DEF Pages!PagesInv, Pages!AsksAreCurrent, Pages!Request, Pages!List
    <3>2. r.sel <= n /\ r.sel # n
      BY <1>3, <3>1
    <3>. QED BY <1>5, <3>2
  <2>. QED BY <1>2, <2>1, <2>2
<1>10. Pages!EmptyIsAll' /\ Pages!RowsAreOneRun'
  BY <1>5 DEF Pages!EmptyIsAll, Pages!RowsAreOneRun
<1>11. Pages!SpinnerIsOwned'
  BY <1>2, <1>5, <1>8 DEF Pages!SpinnerIsOwned
<1>. QED
  BY <1>1, <1>2, <1>5, <1>7, <1>9, <1>10, <1>11

\* So does showing the list.
LEMMA ShowForgets ==
  ASSUME Pages!PagesInv, v2' \in PagesFolders, v4' \in Pages!Texts, Pages!Show
  PROVE  /\ v7' \in Pages!List /\ v8' \subseteq Pages!Request
         /\ v10' \in Seq(Pages!Message) /\ v11' \in Pages!Cursor
         /\ Pages!AsksAreCurrent' /\ Pages!EmptyIsAll' /\ Pages!RowsAreOneRun'
         /\ Pages!SpinnerIsOwned' /\ Pages!CursorOnItsRow'
<1>1. Pages!FetchEffect(v7)
  BY DEF Pages!Show
<1>2. << >> \in Seq(Pages!Message)
  OBVIOUS
<1>3. CASE Pages!Report(<< >>)
  BY <1>1, <1>2, <1>3, FetchForgets, ReportTakesCursor
<1>4. CASE UNCHANGED Pages!app
  BY <1>1, <1>4, FetchForgets
     DEF Pages!app, Pages!PagesInv, Pages!TypeOK, Pages!CursorOnItsRow, Pages!Nothing
<1>. QED
  BY <1>3, <1>4 DEF Pages!Show

\* What is shown changes with the folder or the text only with a fetch effect.
LEMMA ChangeFolderKeepsPages ==
  ASSUME Pages!PagesInv, NEW f \in PagesFolders, Pages!ChangeFolder(f)
  PROVE  Pages!PagesInv'
<1>1. v2' = f /\ v1' = TRUE /\ UNCHANGED <<v3, v4, v5, v6, v9>> /\ Pages!Show
  BY DEF Pages!ChangeFolder
<1>2. v4' \in Pages!Texts
  BY <1>1 DEF Pages!PagesInv, Pages!TypeOK
<1>. QED
  BY <1>1, <1>2, ShowForgets DEF Pages!PagesInv, Pages!TypeOK, Pages!QueryCatchesUp

LEMMA RetryKeepsPages ==
  ASSUME Pages!PagesInv, Pages!Retry PROVE Pages!PagesInv'
<1>1. UNCHANGED <<v1, v2, v3, v4, v5, v6, v9>> /\ Pages!Show
  BY DEF Pages!Retry, Pages!where
<1>2. v2' \in PagesFolders /\ v4' \in Pages!Texts
  BY <1>1 DEF Pages!PagesInv, Pages!TypeOK
<1>. QED
  BY <1>1, <1>2, ShowForgets DEF Pages!PagesInv, Pages!TypeOK, Pages!QueryCatchesUp

\* Where nothing about the list changes it stays as it is, shown or not.
LEMMA HiddenListIsNobodys ==
  ASSUME Pages!PagesInv, UNCHANGED <<v2, v7, v8>>, ~v1' \/ (v1' = v1 /\ v4' = v4)
  PROVE  /\ Pages!AsksAreCurrent' /\ Pages!EmptyIsAll' /\ Pages!RowsAreOneRun'
         /\ Pages!SpinnerIsOwned'
<1>1. CASE ~v1'
  BY <1>1 DEF Pages!PagesInv, Pages!AsksAreCurrent, Pages!Current, Pages!EmptyIsAll,
              Pages!RowsAreOneRun, Pages!SpinnerIsOwned
<1>2. CASE v1' = v1 /\ v4' = v4
  <2>1. Pages!Scope' = Pages!Scope
    BY <1>2 DEF Pages!Scope
  <2>. QED
    BY <1>2, <2>1
       DEF Pages!PagesInv, Pages!AsksAreCurrent, Pages!Current, Pages!EmptyIsAll,
           Pages!RowsAreOneRun, Pages!SpinnerIsOwned
<1>. QED
  BY <1>1, <1>2

\* The text that is searched for is the one typed, at once or by its timer.
LEMMA TypeTextKeepsPages ==
  ASSUME Pages!PagesInv, NEW text \in Pages!Texts, Pages!TypeText(text)
  PROVE  Pages!PagesInv'
<1>1. /\ v3' = text /\ v1' = (v1 \/ v3 = PagesNoQuery)
      /\ v4' = Pages!QueryAfter(text) /\ v5' = (text # PagesNoQuery)
      /\ UNCHANGED <<v2, v6, v9>>
      /\ IF v1' /\ (~v1 \/ v4' # v4) THEN Pages!Show
                                     ELSE UNCHANGED <<v7, v8, Pages!app>>
  BY DEF Pages!TypeText
<1>2. v1' \in BOOLEAN /\ v5' \in BOOLEAN
  BY <1>1 DEF Pages!PagesInv, Pages!TypeOK
<1>3. v4' \in Pages!Texts /\ (v4' = v3' \/ v5')
  BY <1>1 DEF Pages!QueryAfter, Pages!Texts, Pages!PagesInv, Pages!TypeOK
<1>4. v2' \in PagesFolders
  BY <1>1 DEF Pages!PagesInv, Pages!TypeOK
<1>5. CASE v1' /\ (~v1 \/ v4' # v4)
  BY <1>1, <1>2, <1>3, <1>4, <1>5, ShowForgets
     DEF Pages!PagesInv, Pages!TypeOK, Pages!QueryCatchesUp
<1>6. CASE ~(v1' /\ (~v1 \/ v4' # v4))
  <2>1. UNCHANGED <<v2, v7, v8, v10, v11>>
    BY <1>1, <1>6 DEF Pages!app
  <2>2. ~v1' \/ (v1' = v1 /\ v4' = v4)
    BY <1>2, <1>6 DEF Pages!PagesInv, Pages!TypeOK
  <2>3. /\ Pages!AsksAreCurrent' /\ Pages!EmptyIsAll' /\ Pages!RowsAreOneRun'
        /\ Pages!SpinnerIsOwned'
    BY <2>1, <2>2, HiddenListIsNobodys
  <2>. QED
    BY <1>1, <1>2, <1>3, <2>1, <2>3
       DEF Pages!PagesInv, Pages!TypeOK, Pages!QueryCatchesUp, Pages!CursorOnItsRow,
           Pages!Nothing
<1>. QED
  BY <1>5, <1>6

LEMMA DebouncedKeepsPages ==
  ASSUME Pages!PagesInv, Pages!Debounced PROVE Pages!PagesInv'
<1>1. /\ v5' = FALSE /\ v4' = v3 /\ UNCHANGED <<v1, v2, v3, v6, v9>>
      /\ IF v1 /\ v4' # v4 THEN Pages!Show ELSE UNCHANGED <<v7, v8, Pages!app>>
  BY DEF Pages!Debounced
<1>2. v1' \in BOOLEAN /\ v4' \in Pages!Texts /\ v2' \in PagesFolders
  BY <1>1 DEF Pages!PagesInv, Pages!TypeOK
<1>3. CASE v1 /\ v4' # v4
  BY <1>1, <1>2, <1>3, ShowForgets DEF Pages!PagesInv, Pages!TypeOK, Pages!QueryCatchesUp
<1>4. CASE ~(v1 /\ v4' # v4)
  <2>1. UNCHANGED <<v2, v7, v8, v10, v11>>
    BY <1>1, <1>4 DEF Pages!app
  <2>2. ~v1' \/ (v1' = v1 /\ v4' = v4)
    BY <1>1, <1>4
  <2>3. /\ Pages!AsksAreCurrent' /\ Pages!EmptyIsAll' /\ Pages!RowsAreOneRun'
        /\ Pages!SpinnerIsOwned'
    BY <2>1, <2>2, HiddenListIsNobodys
  <2>. QED
    BY <1>1, <1>2, <2>1, <2>3
       DEF Pages!PagesInv, Pages!TypeOK, Pages!QueryCatchesUp, Pages!CursorOnItsRow,
           Pages!Nothing
<1>. QED
  BY <1>3, <1>4

LEMMA LeaveListKeepsPages ==
  ASSUME Pages!PagesInv, Pages!LeaveList PROVE Pages!PagesInv'
<1>1. /\ v1' = FALSE /\ v7' = [Pages!Fresh EXCEPT !.sel = v7.sel] /\ v8' = {}
      /\ UNCHANGED <<v2, v3, v4, v5, v6, v9, v10, v11>>
  BY DEF Pages!LeaveList, Pages!app
<1>2. v7.sel \in 1 .. PagesMaxSel
  BY DEF Pages!PagesInv, Pages!TypeOK, Pages!List
<1>3. << >> \in Seq(Pages!Message)
  OBVIOUS
<1>4. v7' \in Pages!List
  BY <1>1, <1>2, <1>3 DEF Pages!Fresh, Pages!List
<1>5. Pages!TypeOK'
  BY <1>1, <1>4 DEF Pages!PagesInv, Pages!TypeOK
<1>6. /\ Pages!AsksAreCurrent' /\ Pages!EmptyIsAll' /\ Pages!RowsAreOneRun'
      /\ Pages!SpinnerIsOwned'
  BY <1>1 DEF Pages!AsksAreCurrent, Pages!EmptyIsAll, Pages!RowsAreOneRun,
              Pages!SpinnerIsOwned
<1>. QED
  BY <1>1, <1>5, <1>6
     DEF Pages!PagesInv, Pages!QueryCatchesUp, Pages!CursorOnItsRow, Pages!Nothing

\* Of the present selection one request is out.
LEMMA CurrentPageIsAlone ==
  ASSUME Pages!PagesInv, NEW r \in v8, NEW s \in v8, Pages!Current(r), Pages!Current(s)
  PROVE  r = s
<1>1. r \in Pages!Request /\ s \in Pages!Request
  BY DEF Pages!PagesInv, Pages!TypeOK
<1>2. /\ r.scope = s.scope /\ r.sel = s.sel
      /\ IF r.kind = "first" THEN r.from = None /\ v7.load = "loading"
         ELSE r.from = v7.next /\ v7.load = "ready"
      /\ IF s.kind = "first" THEN s.from = None /\ v7.load = "loading"
         ELSE s.from = v7.next /\ v7.load = "ready"
  BY DEF Pages!PagesInv, Pages!AsksAreCurrent, Pages!Current
<1>3. r.kind \in {"first", "more"} /\ s.kind \in {"first", "more"}
  BY <1>1 DEF Pages!Request
<1>4. r.kind = s.kind /\ r.from = s.from
  BY <1>2, <1>3
<1>. QED
  BY <1>1, <1>2, <1>4 DEF Pages!Request

\* An answer for another selection changes nothing.
LEMMA OvertakenAnswerIsDropped ==
  ASSUME Pages!PagesInv, NEW r \in v8, ~Pages!Current(r), v8' = v8 \ {r},
         UNCHANGED <<v1, v2, v3, v4, v5, v6, v7, v9, v10, v11>>
  PROVE  Pages!PagesInv'
<1>1. Pages!Scope' = Pages!Scope
  BY DEF Pages!Scope
<1>2. Pages!TypeOK' /\ Pages!EmptyIsAll' /\ Pages!RowsAreOneRun' /\ Pages!QueryCatchesUp'
      /\ Pages!CursorOnItsRow'
  BY <1>1 DEF Pages!PagesInv, Pages!TypeOK, Pages!EmptyIsAll, Pages!RowsAreOneRun,
              Pages!QueryCatchesUp, Pages!CursorOnItsRow, Pages!Nothing
<1>3. Pages!AsksAreCurrent'
  BY <1>1 DEF Pages!PagesInv, Pages!AsksAreCurrent, Pages!Current
<1>4. Pages!SpinnerIsOwned'
  <2>. SUFFICES ASSUME v1
                PROVE  /\ v7.load = "loading" =>
                            \E q \in v8' : q.kind = "first" /\ q.sel = v7.sel
                                           /\ q.scope = Pages!Scope
                       /\ v7.more => \E q \in v8' : q.kind = "more" /\ q.sel = v7.sel
    BY <1>1 DEF Pages!SpinnerIsOwned
  <2>1. r.sel # v7.sel
    BY DEF Pages!Current
  <2>. QED
    BY <2>1 DEF Pages!PagesInv, Pages!SpinnerIsOwned
<1>. QED
  BY <1>2, <1>3, <1>4 DEF Pages!PagesInv

\* An answer for the present one is the last that it waits for.
LEMMA AnswerLeavesNobodyCurrent ==
  ASSUME Pages!PagesInv, NEW r \in v8, Pages!Current(r), v8' = v8 \ {r},
         v7'.sel = v7.sel, v1' = v1
  PROVE  v1' /\ v8' \subseteq Pages!Request /\ Pages!AsksAreCurrent'
<1>1. v1
  BY DEF Pages!Current
<1>2. ASSUME NEW s \in v8' PROVE s.sel <= v7.sel /\ s.sel # v7.sel
  <2>1. s \in v8 /\ s # r
    BY <1>2
  <2>2. ~Pages!Current(s)
    BY <2>1, CurrentPageIsAlone
  <2>. QED
    BY <1>1, <2>1, <2>2 DEF Pages!Current, Pages!PagesInv, Pages!AsksAreCurrent
<1>3. Pages!AsksAreCurrent'
  BY <1>2 DEF Pages!AsksAreCurrent, Pages!Current
<1>. QED
  BY <1>1, <1>3 DEF Pages!PagesInv, Pages!TypeOK

LEMMA FirstPageFailsKeepsPages ==
  ASSUME Pages!PagesInv, NEW r \in v8, Pages!FirstPageFails(r)
  PROVE  Pages!PagesInv'
<1>1. /\ r.kind = "first" /\ v8' = v8 \ {r}
      /\ v7' = IF Pages!Current(r) THEN [v7 EXCEPT !.load = "error"] ELSE v7
      /\ UNCHANGED <<v1, v2, v3, v4, v5, v6, v9, v10, v11>>
  BY DEF Pages!FirstPageFails, Pages!where, Pages!app
<1>2. CASE Pages!Current(r)
  <2>1. v7 \in Pages!List /\ v7.load = "loading"
    BY <1>1, <1>2 DEF Pages!PagesInv, Pages!TypeOK, Pages!AsksAreCurrent
  <2>2. ~v7.more
    BY <1>2, <2>1 DEF Pages!PagesInv, Pages!SpinnerIsOwned, Pages!AsksAreCurrent,
                      Pages!Current
  <2>3. v7' = [v7 EXCEPT !.load = "error"]
    BY <1>1, <1>2
  <2>4. v7' \in Pages!List /\ v7'.sel = v7.sel /\ v7'.load = "error" /\ v7'.more = v7.more
    BY <2>1, <2>3 DEF Pages!List
  <2>5. v8' \subseteq Pages!Request /\ Pages!AsksAreCurrent'
    BY <1>1, <1>2, <2>4, AnswerLeavesNobodyCurrent
  <2>6. Pages!EmptyIsAll' /\ Pages!RowsAreOneRun' /\ Pages!SpinnerIsOwned'
    BY <2>2, <2>4 DEF Pages!EmptyIsAll, Pages!RowsAreOneRun, Pages!SpinnerIsOwned
  <2>. QED
    BY <1>1, <2>4, <2>5, <2>6
       DEF Pages!PagesInv, Pages!TypeOK, Pages!QueryCatchesUp, Pages!CursorOnItsRow,
           Pages!Nothing
<1>3. CASE ~Pages!Current(r)
  BY <1>1, <1>3, OvertakenAnswerIsDropped
<1>. QED
  BY <1>2, <1>3

LEMMA MorePageFailsKeepsPages ==
  ASSUME Pages!PagesInv, NEW r \in v8, Pages!MorePageFails(r)
  PROVE  Pages!PagesInv'
<1>1. /\ r.kind = "more" /\ v8' = v8 \ {r}
      /\ v7' = IF Pages!Current(r) THEN [v7 EXCEPT !.more = FALSE] ELSE v7
      /\ UNCHANGED <<v1, v2, v3, v4, v5, v6, v9, v10, v11>>
  BY DEF Pages!MorePageFails, Pages!where, Pages!app
<1>2. CASE Pages!Current(r)
  <2>1. v7 \in Pages!List /\ v7.load = "ready"
    BY <1>1, <1>2 DEF Pages!PagesInv, Pages!TypeOK, Pages!AsksAreCurrent
  <2>2. v7' = [v7 EXCEPT !.more = FALSE]
    BY <1>1, <1>2
  <2>3. /\ v7' \in Pages!List /\ v7'.sel = v7.sel /\ v7'.load = v7.load /\ v7'.more = FALSE
        /\ v7'.messages = v7.messages /\ v7'.next = v7.next
    BY <2>1, <2>2 DEF Pages!List
  <2>4. v8' \subseteq Pages!Request /\ Pages!AsksAreCurrent'
    BY <1>1, <1>2, <2>3, AnswerLeavesNobodyCurrent
  <2>5. Pages!Scope' = Pages!Scope
    BY <1>1 DEF Pages!Scope
  <2>6. Pages!EmptyIsAll' /\ Pages!RowsAreOneRun' /\ Pages!SpinnerIsOwned'
    BY <1>1, <2>1, <2>3, <2>5
       DEF Pages!PagesInv, Pages!EmptyIsAll, Pages!RowsAreOneRun, Pages!SpinnerIsOwned
  <2>. QED
    BY <1>1, <2>3, <2>4, <2>6
       DEF Pages!PagesInv, Pages!TypeOK, Pages!QueryCatchesUp, Pages!CursorOnItsRow,
           Pages!Nothing
<1>3. CASE ~Pages!Current(r)
  BY <1>1, <1>3, OvertakenAnswerIsDropped
<1>. QED
  BY <1>2, <1>3

\* The server answers with the messages below the cursor, and where they end.
IsRunBelow(p, scope, h) ==
  LET l == IF h > PagesPageSize THEN h - PagesPageSize + 1 ELSE 1
  IN /\ l \in Nat /\ 1 <= l /\ l <= h + 1 /\ (h # 0 => l <= h)
     /\ p.messages \in Seq(Pages!Message) /\ Len(p.messages) = h - l + 1
     /\ \A i \in 1 .. h - l + 1 : p.messages[i] = <<scope, h - i + 1>>
     /\ p.next = IF l > 1 THEN l ELSE None
     /\ p.next \in 1 .. PagesMaxTop \union {None}
LEMMA PageIsARun ==
  ASSUME Pages!PagesInv, NEW scope \in Pages!Scopes, NEW h \in 0 .. PagesMaxTop,
         NEW from, h = IF from = None THEN v6[scope] ELSE from - 1
  PROVE  IsRunBelow(Pages!PageOf(scope, from), scope, h)
<1> DEFINE p == Pages!PageOf(scope, from)
           l == IF h > PagesPageSize THEN h - PagesPageSize + 1 ELSE 1
           m == [i \in 1 .. h - l + 1 |-> <<scope, h - i + 1>>]
<1>0. PagesPageSize \in Nat \ {0} /\ PagesMaxTop \in Nat
  BY PagesAssumption
<1>9. h \in Nat /\ h <= PagesMaxTop
  BY <1>0
<1>1. /\ h \in Nat /\ h <= PagesMaxTop /\ PagesMaxTop \in Nat
      /\ l \in Nat /\ 1 <= l /\ l <= h + 1 /\ (h # 0 => l <= h)
  <2>1. CASE h > PagesPageSize
    <3>1. l = h - PagesPageSize + 1
      BY <2>1
    <3> HIDE DEF l
    <3>. QED
      BY ONLY <1>0, <1>9, <2>1, <3>1
  <2>2. CASE ~(h > PagesPageSize)
    <3>1. l = 1
      BY <2>2
    <3> HIDE DEF l
    <3>. QED
      BY ONLY <1>0, <1>9, <2>2, <3>1
  <2>. QED BY <2>1, <2>2
<1>2. p = [messages |-> m, next |-> IF l > 1 THEN l ELSE None]
  BY DEF Pages!PageOf
<1>3. p.messages = m /\ p.next = IF l > 1 THEN l ELSE None
  BY <1>2
<1> HIDE DEF l, p
<1>4. l > 1 => l \in 1 .. PagesMaxTop
  BY <1>1
<1>5. \A i \in 1 .. h - l + 1 : <<scope, h - i + 1>> \in Pages!Message
  <2>. SUFFICES ASSUME NEW i \in 1 .. h - l + 1 PROVE h - i + 1 \in 1 .. PagesMaxTop
    BY DEF Pages!Message
  <2>. QED BY <1>1
<1>6. h - l + 1 \in Nat
  BY <1>1
<1>7. m \in Seq(Pages!Message) /\ Len(m) = h - l + 1
  BY <1>5, <1>6
<1>. QED
  BY <1>1, <1>3, <1>4, <1>7 DEF l, p, IsRunBelow

\* The first page is the newest of the scope.
LEMMA FirstPageKeepsPages ==
  ASSUME Pages!PagesInv, NEW r \in v8, Pages!FirstPage(r)
  PROVE  Pages!PagesInv'
<1> DEFINE p == Pages!PageOf(r.scope, None)
           synced == IF p.messages # << >> THEN v7.synced \union {v2} ELSE v7.synced
           after == [v7 EXCEPT !.messages = p.messages, !.next = p.next,
                       !.load = "ready", !.synced = synced]
<1>1. /\ r.kind = "first" /\ v8' = v8 \ {r}
      /\ UNCHANGED <<v1, v2, v3, v4, v5, v6, v9>>
      /\ IF Pages!Current(r) THEN v7' = after /\ Pages!Report(Pages!Drawn(after.messages, v9))
                             ELSE UNCHANGED <<v7, v10, v11>>
  BY DEF Pages!FirstPage, Pages!where, Pages!app
<1>2. CASE ~Pages!Current(r)
  BY <1>1, <1>2, OvertakenAnswerIsDropped
<1>3. CASE Pages!Current(r)
  <2>1. v7 \in Pages!List /\ v7.load = "loading" /\ r.scope = Pages!Scope
        /\ v2 \in PagesFolders /\ v4 \in Pages!Texts
    BY <1>1, <1>3 DEF Pages!PagesInv, Pages!TypeOK, Pages!AsksAreCurrent
  <2>2. ~v7.more
    BY <1>3, <2>1 DEF Pages!PagesInv, Pages!SpinnerIsOwned, Pages!AsksAreCurrent,
                      Pages!Current
  <2>3. Pages!Scope \in Pages!Scopes
    BY <2>1 DEF Pages!Scope, Pages!Scopes
  <2> DEFINE s == Pages!Scope
             h == v6[s]
             l == IF h > PagesPageSize THEN h - PagesPageSize + 1 ELSE 1
  <2>4. h \in 0 .. PagesMaxTop
    BY <2>3 DEF Pages!PagesInv, Pages!TypeOK
  <2>5. /\ l \in Nat /\ 1 <= l /\ l <= h + 1 /\ (h # 0 => l <= h)
        /\ p.messages \in Seq(Pages!Message) /\ Len(p.messages) = h - l + 1
        /\ \A i \in 1 .. h - l + 1 : p.messages[i] = <<s, h - i + 1>>
        /\ p.next = IF l > 1 THEN l ELSE None
        /\ p.next \in 1 .. PagesMaxTop \union {None}
    <3> HIDE DEF h, s
    <3>1. s \in Pages!Scopes /\ h \in 0 .. PagesMaxTop /\ h = v6[s]
      BY <2>3, <2>4 DEF h, s
    <3>2. p = Pages!PageOf(s, None)
      BY <2>1 DEF s
    <3>3. h = IF None = None THEN v6[s] ELSE None - 1
      BY <3>1
    <3>4. IsRunBelow(Pages!PageOf(s, None), s, h)
      BY <3>1, <3>3, PageIsARun
    <3>. QED
      BY <3>2, <3>4 DEF IsRunBelow
  <2> HIDE DEF p
  <2>6. synced \subseteq PagesFolders
    BY <2>1 DEF Pages!List
  <2> HIDE DEF synced
  <2>7. v7' = after /\ Pages!Report(Pages!Drawn(after.messages, v9))
    BY <1>1, <1>3
  <2>8. /\ after \in Pages!List /\ after.sel = v7.sel /\ after.load = "ready"
        /\ after.more = v7.more /\ after.messages = p.messages /\ after.next = p.next
    BY <2>1, <2>5, <2>6 DEF Pages!List
  <2> HIDE DEF after, h, l, s
  <2>9. v10' \in Seq(Pages!Message) /\ v11' \in Pages!Cursor /\ Pages!CursorOnItsRow'
    <3>1. Pages!Drawn(after.messages, v9) \in Seq(Pages!Message)
      BY <2>5, <2>8, DrawnIsAList
    <3>. QED BY <2>7, <3>1, ReportTakesCursor
  <2>10. v8' \subseteq Pages!Request /\ Pages!AsksAreCurrent'
    BY <1>1, <1>3, <2>7, <2>8, AnswerLeavesNobodyCurrent
  <2>11. Pages!Scope' = s
    BY <1>1 DEF Pages!Scope, s
  <2>12. h \in Nat
    BY <2>4, PagesAssumption
  <2>13. Pages!EmptyIsAll'
    <3>. SUFFICES ASSUME p.messages = << >> PROVE p.next = None
      BY <2>7, <2>8 DEF Pages!EmptyIsAll
    <3>1. h - l + 1 = 0
      BY <2>5
    <3>2. ~(l > 1)
      BY <2>5, <2>12, <3>1
    <3>. QED BY <2>5, <3>2
  <2>14. Pages!RowsAreOneRun'
    <3>. SUFFICES ASSUME p.messages # << >>
                  PROVE  LET n == Len(p.messages)
                             newest == p.messages[1][2]
                         IN /\ \A i \in 1 .. n : p.messages[i] = <<s, newest - i + 1>>
                            /\ p.next = IF newest = n THEN None ELSE newest - n + 1
      BY <2>7, <2>8, <2>11 DEF Pages!RowsAreOneRun
    <3> DEFINE n == Len(p.messages)
    <3>1. n \in Nat \ {0} /\ n = h - l + 1 /\ 1 \in 1 .. h - l + 1
      BY <2>5
    <3>2. p.messages[1] = <<s, h - 1 + 1>>
      BY <2>5, <3>1
    <3>3. h - 1 + 1 = h
      BY <2>12
    <3>4. p.messages[1][2] = h
      BY <3>2, <3>3
    <3>5. l > 1 <=> h # n
      BY <2>5, <2>12, <3>1
    <3>6. h # n => l = h - n + 1
      BY <2>5, <2>12, <3>1
    <3>7. p.next = IF h = n THEN None ELSE h - n + 1
      BY <2>5, <3>5, <3>6
    <3>. QED
      BY <2>5, <3>1, <3>4, <3>7
  <2>15. Pages!SpinnerIsOwned'
    BY <2>2, <2>7, <2>8 DEF Pages!SpinnerIsOwned
  <2>. QED
    BY <1>1, <2>7, <2>8, <2>9, <2>10, <2>13, <2>14, <2>15
       DEF Pages!PagesInv, Pages!TypeOK, Pages!QueryCatchesUp
<1>. QED
  BY <1>2, <1>3

\* A further page continues right below the last row.
LEMMA MorePageKeepsPages ==
  ASSUME Pages!PagesInv, NEW r \in v8, Pages!MorePage(r)
  PROVE  Pages!PagesInv'
<1> DEFINE p == Pages!PageOf(r.scope, r.from)
           m == v7.messages \o p.messages
           after == [v7 EXCEPT !.messages = v7.messages \o p.messages, !.next = p.next,
                       !.more = FALSE]
<1>1. /\ r.kind = "more" /\ v8' = v8 \ {r}
      /\ UNCHANGED <<v1, v2, v3, v4, v5, v6, v9>>
      /\ IF Pages!Current(r) THEN v7' = after /\ Pages!Report(Pages!Drawn(after.messages, v9))
                             ELSE UNCHANGED <<v7, v10, v11>>
  BY DEF Pages!MorePage, Pages!Takes, Pages!where, Pages!app
<1>2. CASE ~Pages!Current(r)
  BY <1>1, <1>2, OvertakenAnswerIsDropped
<1>3. CASE Pages!Current(r)
  <2>1. /\ v7 \in Pages!List /\ r.scope = Pages!Scope /\ r.from = v7.next
        /\ v7.next # None /\ v7.load = "ready" /\ v1
        /\ v2 \in PagesFolders /\ v4 \in Pages!Texts
    BY <1>1, <1>3 DEF Pages!PagesInv, Pages!TypeOK, Pages!AsksAreCurrent, Pages!Current
  <2>2. v7.messages \in Seq(Pages!Message) /\ v7.messages # << >>
    BY <2>1 DEF Pages!PagesInv, Pages!EmptyIsAll, Pages!List
  <2>3. Pages!Scope \in Pages!Scopes
    BY <2>1 DEF Pages!Scope, Pages!Scopes
  <2> DEFINE s == Pages!Scope
             old == v7.messages
             n == Len(old)
             top == old[1][2]
             h == v7.next - 1
             l == IF h > PagesPageSize THEN h - PagesPageSize + 1 ELSE 1
  <2>4. /\ \A i \in 1 .. n : old[i] = <<s, top - i + 1>>
        /\ v7.next = IF top = n THEN None ELSE top - n + 1
    BY <2>1, <2>2 DEF Pages!PagesInv, Pages!RowsAreOneRun
  <2>5. n \in Nat /\ 1 <= n /\ old[1] \in Pages!Message /\ old[n] \in Pages!Message
    BY <2>2
  <2>6. top \in 1 .. PagesMaxTop /\ top - n + 1 \in 1 .. PagesMaxTop
    <3>1. n \in 1 .. n
      <4> HIDE DEF n
      <4>. QED BY ONLY <2>5
    <3>3. old[n] = <<s, top - n + 1>>
      BY <2>4, <3>1
    <3>2. old[n][2] = top - n + 1
      BY <3>3
    <3>. QED BY <2>5, <3>2 DEF Pages!Message
  <2>7. v7.next = top - n + 1 /\ top # n
    BY <2>1, <2>4
  <2>8. h \in 0 .. PagesMaxTop /\ h = top - n /\ h # 0
    <3> DEFINE next == v7.next
    <3>1. PagesMaxTop \in Nat /\ next = top - n + 1
      BY <2>7, PagesAssumption
    <3>4. h = next - 1
      OBVIOUS
    <3>2. top \in Nat /\ n \in Nat /\ 1 <= top /\ top <= PagesMaxTop /\ 1 <= n
          /\ 1 <= top - n + 1
      BY <2>5, <2>6, <3>1
    <3>3. top # n
      BY <2>7
    <3> HIDE DEF h, top, n, next
    <3>. QED BY ONLY <3>1, <3>2, <3>3, <3>4
  <2>9. /\ l \in Nat /\ 1 <= l /\ l <= h + 1 /\ (h # 0 => l <= h)
        /\ p.messages \in Seq(Pages!Message) /\ Len(p.messages) = h - l + 1
        /\ \A i \in 1 .. h - l + 1 : p.messages[i] = <<s, h - i + 1>>
        /\ p.next = IF l > 1 THEN l ELSE None
        /\ p.next \in 1 .. PagesMaxTop \union {None}
    <3> DEFINE from == v7.next
    <3>1. h = IF from = None THEN v6[s] ELSE from - 1
      BY <2>1
    <3>2. p = Pages!PageOf(s, from)
      BY <2>1
    <3>3. s \in Pages!Scopes /\ h \in 0 .. PagesMaxTop
      BY <2>3, <2>8
    <3> HIDE DEF s, h, from
    <3>4. IsRunBelow(Pages!PageOf(s, from), s, h)
      BY <3>1, <3>3, PageIsARun
    <3>. QED
      BY <3>2, <3>4 DEF IsRunBelow
  <2>10. v7' = after /\ Pages!Report(Pages!Drawn(after.messages, v9))
    BY <1>1, <1>3
  <2> DEFINE new == p.messages
             c == Len(new)
  <2>11. new \in Seq(Pages!Message) /\ c = h - l + 1 /\ c \in Nat
    BY <2>8, <2>9
  <2> HIDE DEF p, h, l, s, top, n, old, c, new
  <2>12. /\ m \in Seq(Pages!Message) /\ Len(m) = n + c
         /\ \A i \in 1 .. n : m[i] = old[i]
         /\ \A i \in 1 .. c : m[n + i] = new[i]
    <3>1. m = old \o new
      BY DEF old, new
    <3> HIDE DEF m
    <3>2. old \in Seq(Pages!Message) /\ n = Len(old) /\ c = Len(new)
      BY <2>2 DEF old, n, c
    <3>. QED BY <2>11, <3>1, <3>2
  <2>13. m = v7.messages \o p.messages
    OBVIOUS
  <2> HIDE DEF m
  <2>14. /\ after \in Pages!List /\ after.sel = v7.sel /\ after.load = "ready"
         /\ after.more = FALSE /\ after.messages = m /\ after.next = p.next
    BY <2>1, <2>9, <2>12, <2>13 DEF Pages!List
  <2> HIDE DEF after
  <2>15. v10' \in Seq(Pages!Message) /\ v11' \in Pages!Cursor /\ Pages!CursorOnItsRow'
    <3>1. Pages!Drawn(after.messages, v9) \in Seq(Pages!Message)
      BY <2>12, <2>14, DrawnIsAList
    <3>. QED BY <2>10, <3>1, ReportTakesCursor
  <2>16. v8' \subseteq Pages!Request /\ Pages!AsksAreCurrent'
    BY <1>1, <1>3, <2>10, <2>14, AnswerLeavesNobodyCurrent
  <2>17. Pages!Scope' = s
    BY <1>1 DEF Pages!Scope, s
  <2>18. n \in Nat /\ 1 <= n /\ c \in Nat /\ top \in Nat /\ h \in Nat /\ h = top - n
         /\ l \in Nat /\ c = h - l + 1 /\ 1 <= l /\ l <= h
    <3>1. PagesMaxTop \in Nat
      BY PagesAssumption
    <3>. QED BY <2>5, <2>6, <2>8, <2>9, <2>11, <3>1
  <2>19. m # << >>
    BY <2>12, <2>18
  <2>20. m[1][2] = top
    <3>1. 1 \in 1 .. n
      BY <2>18
    <3>. QED BY <2>12, <3>1 DEF top
  <2>21. ASSUME NEW i \in 1 .. n + c PROVE m[i] = <<s, top - i + 1>>
    <3>1. CASE i \in 1 .. n
      BY <2>4, <2>12, <3>1
    <3>2. CASE i \notin 1 .. n
      <4> DEFINE j == i - n
      <4>1. j \in 1 .. c /\ i = n + j /\ h - j + 1 = top - i + 1
        BY <2>18, <3>2
      <4> HIDE DEF j
      <4>2. m[n + j] = new[j]
        BY <2>12, <4>1
      <4>3. new[j] = <<s, h - j + 1>>
        BY <2>9, <2>11, <4>1 DEF new
      <4>. QED BY <4>1, <4>2, <4>3
    <3>. QED BY <3>1, <3>2
  <2>22. p.next = IF top = n + c THEN None ELSE top - (n + c) + 1
    <3>1. (l > 1 <=> top # n + c) /\ l = top - (n + c) + 1
      BY <2>18
    <3>. QED BY <2>9, <3>1
  <2>23. Pages!EmptyIsAll' /\ Pages!SpinnerIsOwned'
    BY <2>10, <2>14, <2>19 DEF Pages!EmptyIsAll, Pages!SpinnerIsOwned
  <2>24. Pages!RowsAreOneRun'
    BY <2>10, <2>12, <2>14, <2>17, <2>20, <2>21, <2>22 DEF Pages!RowsAreOneRun
  <2>. QED
    BY <1>1, <2>10, <2>14, <2>15, <2>16, <2>23, <2>24
       DEF Pages!PagesInv, Pages!TypeOK, Pages!QueryCatchesUp
<1>. QED
  BY <1>2, <1>3

LEMMA LoadMoreKeepsPages ==
  ASSUME Pages!PagesInv, Pages!LoadMore PROVE Pages!PagesInv'
<1> DEFINE r0 == [kind |-> "more", sel |-> v7.sel, scope |-> Pages!Scope, from |-> v7.next]
<1>1. /\ v1 /\ v7.load = "ready" /\ v7.next # None /\ ~v7.more
      /\ v7' = [v7 EXCEPT !.more = TRUE] /\ v8' = v8 \union {r0}
      /\ UNCHANGED <<v1, v2, v3, v4, v5, v6, v9, v10, v11>>
  BY DEF Pages!LoadMore, Pages!where, Pages!app
<1>2. v7 \in Pages!List /\ v8 \subseteq Pages!Request /\ Pages!Scope \in Pages!Scopes
  BY DEF Pages!PagesInv, Pages!TypeOK, Pages!Scope, Pages!Scopes
<1>3. /\ v7' \in Pages!List /\ v7'.sel = v7.sel /\ v7'.load = "ready" /\ v7'.more = TRUE
      /\ v7'.messages = v7.messages /\ v7'.next = v7.next
  BY <1>1, <1>2 DEF Pages!List
<1>4. v7.next \in 1 .. PagesMaxTop /\ v7.sel \in 1 .. PagesMaxSel
  BY <1>1, <1>2 DEF Pages!List
<1>6. r0 \in Pages!Request /\ r0.sel = v7.sel /\ r0.kind = "more"
      /\ r0.scope = Pages!Scope /\ r0.from = v7.next
  BY <1>2, <1>4 DEF Pages!Request
<1> HIDE DEF r0
<1>7. Pages!Scope' = Pages!Scope
  BY <1>1 DEF Pages!Scope
<1>8. Pages!AsksAreCurrent'
  <2>. SUFFICES ASSUME NEW r \in v8'
                PROVE  /\ r.sel <= v7'.sel
                       /\ r.sel = v7'.sel =>
                            /\ r.scope = Pages!Scope'
                            /\ IF r.kind = "first" THEN r.from = None /\ v7'.load = "loading"
                               ELSE /\ r.from = v7'.next /\ v7'.next # None
                                    /\ v7'.load = "ready" /\ v7'.more
    BY DEF Pages!AsksAreCurrent, Pages!Current
  <2>1. CASE r = r0
    <3>1. v7.sel <= v7.sel
      BY <1>4, PagesAssumption
    <3>. QED BY <1>1, <1>3, <1>6, <1>7, <2>1, <3>1
  <2>2. CASE r \in v8
    BY <1>1, <1>3, <1>7, <2>2 DEF Pages!PagesInv, Pages!AsksAreCurrent, Pages!Current
  <2>. QED BY <1>1, <2>1, <2>2
<1>9. Pages!EmptyIsAll' /\ Pages!RowsAreOneRun' /\ Pages!SpinnerIsOwned'
  BY <1>1, <1>3, <1>6, <1>7
     DEF Pages!PagesInv, Pages!EmptyIsAll, Pages!RowsAreOneRun, Pages!SpinnerIsOwned
<1>. QED
  BY <1>1, <1>2, <1>3, <1>6, <1>8, <1>9
     DEF Pages!PagesInv, Pages!TypeOK, Pages!QueryCatchesUp, Pages!CursorOnItsRow,
         Pages!Nothing

\* New mail is the server's; the rows keep their numbers.
LEMMA NewMailKeepsPages ==
  ASSUME Pages!PagesInv, NEW s \in Pages!Scopes, Pages!NewMail(s)
  PROVE  Pages!PagesInv'
<1>1. /\ v6[s] < PagesMaxTop /\ v6' = [v6 EXCEPT ![s] = @ + 1]
      /\ UNCHANGED <<v1, v2, v3, v4, v5, v7, v8, v9, v10, v11>>
  BY DEF Pages!NewMail, Pages!where, Pages!app
<1>2. v6 \in [Pages!Scopes -> 0 .. PagesMaxTop]
  BY DEF Pages!PagesInv, Pages!TypeOK
<1>3. v6[s] + 1 \in 0 .. PagesMaxTop
  BY <1>1, <1>2, PagesAssumption
<1>4. v6' \in [Pages!Scopes -> 0 .. PagesMaxTop]
  BY <1>1, <1>2, <1>3
<1>5. Pages!TypeOK'
  BY <1>1, <1>4 DEF Pages!PagesInv, Pages!TypeOK
<1>6. /\ Pages!AsksAreCurrent' /\ Pages!EmptyIsAll' /\ Pages!RowsAreOneRun'
      /\ Pages!SpinnerIsOwned'
  BY <1>1, HiddenListIsNobodys
<1>. QED
  BY <1>1, <1>5, <1>6
     DEF Pages!PagesInv, Pages!QueryCatchesUp, Pages!CursorOnItsRow, Pages!Nothing

\* The keys and the mouse put the cursor on a row,
LEMMA PutCursorKeepsPages ==
  ASSUME Pages!PagesInv, NEW i \in DOMAIN v10, Pages!PutCursor(i)
  PROVE  Pages!PagesInv'
<1>1. /\ v11' = [key |-> v10[i], index |-> i]
      /\ UNCHANGED <<v1, v2, v3, v4, v5, v6, v7, v8, v9, v10>>
  BY DEF Pages!PutCursor, Pages!where
<1>2. v10 \in Seq(Pages!Message)
  BY DEF Pages!PagesInv, Pages!TypeOK
<1>3. i \in Nat /\ v10[i] \in Pages!Message
  BY <1>2
<1>4. v11' \in Pages!Cursor /\ Pages!CursorOnItsRow'
  BY <1>1, <1>3 DEF Pages!Cursor, Pages!CursorOnItsRow
<1>5. Pages!TypeOK'
  BY <1>1, <1>4 DEF Pages!PagesInv, Pages!TypeOK
<1>6. /\ Pages!AsksAreCurrent' /\ Pages!EmptyIsAll' /\ Pages!RowsAreOneRun'
      /\ Pages!SpinnerIsOwned'
  BY <1>1, HiddenListIsNobodys
<1>. QED
  BY <1>1, <1>4, <1>5, <1>6 DEF Pages!PagesInv, Pages!QueryCatchesUp

\* and a move takes the row under it away.
LEMMA HideRowKeepsPages ==
  ASSUME Pages!PagesInv, Pages!HideRow PROVE Pages!PagesInv'
<1>1. /\ v11.key # None /\ v9' = v9 \union {v11.key}
      /\ Pages!Report(Pages!Drawn(v7.messages, v9'))
      /\ UNCHANGED <<v1, v2, v3, v4, v5, v6, v7, v8>>
  BY DEF Pages!HideRow, Pages!where
<1>2. v7.messages \in Seq(Pages!Message)
  BY DEF Pages!PagesInv, Pages!TypeOK, Pages!List
<1>3. v11.key \in Pages!Message
  <2>1. v11 # Pages!Nothing
    BY <1>1 DEF Pages!Nothing
  <2>. QED
    BY <2>1 DEF Pages!PagesInv, Pages!TypeOK, Pages!Cursor
<1>4. Pages!Drawn(v7.messages, v9') \in Seq(Pages!Message)
  BY <1>2, DrawnIsAList
<1>5. v10' \in Seq(Pages!Message) /\ v11' \in Pages!Cursor /\ Pages!CursorOnItsRow'
  BY <1>1, <1>4, ReportTakesCursor
<1>6. Pages!TypeOK'
  BY <1>1, <1>3, <1>5 DEF Pages!PagesInv, Pages!TypeOK
<1>7. /\ Pages!AsksAreCurrent' /\ Pages!EmptyIsAll' /\ Pages!RowsAreOneRun'
      /\ Pages!SpinnerIsOwned'
  BY <1>1, HiddenListIsNobodys
<1>. QED
  BY <1>1, <1>5, <1>6, <1>7 DEF Pages!PagesInv, Pages!QueryCatchesUp

\* Every step keeps the list's invariant, whichever answer comes when.
LEMMA StepKeepsPages ==
  ASSUME Pages!PagesInv, [Pages!Next]_(Pages!vars)
  PROVE  Pages!PagesInv'
<1>1. ASSUME NEW f \in PagesFolders, Pages!ChangeFolder(f) PROVE Pages!PagesInv'
  BY <1>1, ChangeFolderKeepsPages
<1>2. ASSUME NEW text \in Pages!Texts, Pages!TypeText(text) PROVE Pages!PagesInv'
  BY <1>2, TypeTextKeepsPages
<1>3. ASSUME NEW r \in v8, Pages!FirstPage(r) PROVE Pages!PagesInv'
  BY <1>3, FirstPageKeepsPages
<1>4. ASSUME NEW r \in v8, Pages!FirstPageFails(r) PROVE Pages!PagesInv'
  BY <1>4, FirstPageFailsKeepsPages
<1>5. ASSUME NEW r \in v8, Pages!MorePage(r) PROVE Pages!PagesInv'
  BY <1>5, MorePageKeepsPages
<1>6. ASSUME NEW r \in v8, Pages!MorePageFails(r) PROVE Pages!PagesInv'
  BY <1>6, MorePageFailsKeepsPages
<1>7. ASSUME NEW s \in Pages!Scopes, Pages!NewMail(s) PROVE Pages!PagesInv'
  BY <1>7, NewMailKeepsPages
<1>8. ASSUME NEW i \in DOMAIN v10, Pages!PutCursor(i) PROVE Pages!PagesInv'
  BY <1>8, PutCursorKeepsPages
<1>9. CASE Pages!LeaveList
  BY <1>9, LeaveListKeepsPages
<1>10. CASE Pages!Debounced
  BY <1>10, DebouncedKeepsPages
<1>11. CASE Pages!Retry
  BY <1>11, RetryKeepsPages
<1>12. CASE Pages!LoadMore
  BY <1>12, LoadMoreKeepsPages
<1>13. CASE Pages!HideRow
  BY <1>13, HideRowKeepsPages
<1>14. CASE UNCHANGED Pages!vars
  <2>1. UNCHANGED <<v1, v2, v3, v4, v5, v6, v7, v8, v9, v10, v11>>
    BY <1>14 DEF Pages!vars
  <2>2. /\ Pages!AsksAreCurrent' /\ Pages!EmptyIsAll' /\ Pages!RowsAreOneRun'
        /\ Pages!SpinnerIsOwned'
    BY <2>1, HiddenListIsNobodys
  <2>. QED
    BY <2>1, <2>2
       DEF Pages!PagesInv, Pages!TypeOK, Pages!QueryCatchesUp, Pages!CursorOnItsRow,
           Pages!Nothing
<1>. QED
  BY <1>1, <1>2, <1>3, <1>4, <1>5, <1>6, <1>7, <1>8, <1>9, <1>10, <1>11, <1>12, <1>13,
     <1>14 DEF Pages!Next

\* The cursor follows its message, or goes to the head of another list.
LEMMA CursorFollows ==
  ASSUME [Pages!Next]_(Pages!vars) PROVE Pages!CursorStep
<1>1. ASSUME NEW keys, Pages!Report(keys) PROVE Pages!CursorStep
  <2>. SUFFICES ASSUME v11.key # None, keys # << >>
                PROVE  IF v11.key \in Pages!Range(keys) THEN v11'.key = v11.key
                       ELSE keys[1] # v10[1] => v11'.index = 1
    BY <1>1 DEF Pages!CursorStep, Pages!Report
  <2>1. v11' = Pages!Reconcile(keys)
    BY <1>1 DEF Pages!Report
  <2>2. CASE v11.key \in Pages!Range(keys)
    BY <2>1, <2>2 DEF Pages!Reconcile
  <2>3. CASE v11.key \notin Pages!Range(keys)
    BY <2>1, <2>3 DEF Pages!Reconcile
  <2>. QED BY <2>2, <2>3
<1>2. ASSUME v10' = v10 PROVE Pages!CursorStep
  BY <1>2 DEF Pages!CursorStep
<1>3. ASSUME Pages!Show PROVE Pages!CursorStep
  BY <1>1, <1>2, <1>3 DEF Pages!Show, Pages!app
<1>4. ASSUME Pages!Next PROVE (\E keys : Pages!Report(keys)) \/ v10' = v10 \/ Pages!Show
  BY <1>4
     DEF Pages!Next, Pages!ChangeFolder, Pages!TypeText, Pages!Debounced, Pages!Retry,
         Pages!LeaveList, Pages!FirstPage, Pages!FirstPageFails, Pages!MorePage,
         Pages!MorePageFails, Pages!LoadMore, Pages!NewMail, Pages!PutCursor,
         Pages!HideRow, Pages!app
<1>. QED
  BY <1>1, <1>2, <1>3, <1>4 DEF Pages!vars

-----------------------------------------------------------------------------
(* The keys.                                                                *)

\* What a key needs for what it does.
LEMMA KeyNeeds ==
  ASSUME NEW key \in Shortcuts!Letters
  PROVE  /\ Shortcuts!Action(key) = "move" => Shortcuts!InHand
         /\ Shortcuts!Action(key) \in {"open", "tick"} => Shortcuts!OnRow
         /\ Shortcuts!Action(key) \in {"select", "step"} => v7 # <<>>
         /\ Shortcuts!Action(key) = "go-folder" =>
              Shortcuts!Pending /\ Shortcuts!IsFolderKey(key)
<1> DEFINE a0 == Shortcuts!BareKey(key)
<1>1. /\ a0 = "move" => Shortcuts!InHand
      /\ a0 \in {"open", "tick"} => Shortcuts!OnRow
      /\ a0 \in {"select", "step"} => v7 # <<>>
      /\ a0 # "go-folder"
  <2>1. CASE key = "?"
    BY <2>1 DEF Shortcuts!BareKey
  <2>2. CASE key = "Escape"
    BY <2>2 DEF Shortcuts!BareKey
  <2>3. CASE key \notin {"?", "Escape"} /\ v5
    BY <2>3 DEF Shortcuts!BareKey
  <2>4. CASE key \in {"j", "k"} /\ ~v5
    BY <2>4 DEF Shortcuts!BareKey
  <2>5. CASE key \in {"o", "u"} /\ ~v5
    BY <2>5 DEF Shortcuts!BareKey
  <2>6. CASE key \in {"e", "x", "s"} /\ ~v5
    BY <2>6 DEF Shortcuts!BareKey
  <2>7. CASE key \in {"g", "i", "Shift"} /\ ~v5
    BY <2>7 DEF Shortcuts!BareKey
  <2>. QED BY <2>1, <2>2, <2>3, <2>4, <2>5, <2>6, <2>7 DEF Shortcuts!Letters
<1> HIDE DEF a0
<1>2. \/ Shortcuts!Action(key) = "none"
      \/ /\ Shortcuts!Action(key) = "go-folder"
         /\ Shortcuts!Pending /\ Shortcuts!IsFolderKey(key)
      \/ Shortcuts!Action(key) = a0
  <2>1. CASE key = "Shift" \/ Shortcuts!Refused
    BY <2>1 DEF Shortcuts!Action, Shortcuts!IsFolderKey
  <2>2. CASE ~(key = "Shift" \/ Shortcuts!Refused) /\ Shortcuts!Pending
             /\ Shortcuts!IsFolderKey(key)
    BY <2>2 DEF Shortcuts!Action
  <2>3. CASE ~(key = "Shift" \/ Shortcuts!Refused)
             /\ ~(Shortcuts!Pending /\ Shortcuts!IsFolderKey(key))
    BY <2>3 DEF Shortcuts!Action, a0
  <2>. QED BY <2>1, <2>2, <2>3
<1>. QED
  BY <1>1, <1>2

LEMMA KeysInit == ASSUME Shortcuts!Init PROVE Shortcuts!KeysInv
<1> DEFINE none == << >>
<1>1. none \in Seq(ShortcutsMessages) /\ Len(none) = 0
  OBVIOUS
<1>2. /\ v1 = 0 /\ v2 = "inbox" /\ v3 \in ShortcutsFolders /\ v4 = "page" /\ v5 = FALSE
      /\ v6 = None /\ v7 = none /\ v8 = 0 /\ v9 = {} /\ v10 = None
      /\ v11 = Shortcuts!Nothing
  BY DEF Shortcuts!Init
<1> HIDE DEF none
<1>3. 0 \in 0 .. ShortcutsMaxNow /\ 0 \in 0 .. 0
  BY ShortcutsAssumption
<1>. QED
  BY <1>1, <1>2, <1>3
     DEF Shortcuts!KeysInv, Shortcuts!TypeOK, Shortcuts!Views, Shortcuts!Nothing

\* The rows and the ticks after a report, and the cursor in them.
RowsHold == /\ v7 \in Seq(ShortcutsMessages) /\ v8 \in 0 .. Len(v7)
            /\ v9 \subseteq ShortcutsMessages /\ v9 \subseteq Shortcuts!Range(v7)
LEMMA ReportedHolds ==
  ASSUME Shortcuts!KeysInv, NEW l \in Seq(ShortcutsMessages), Shortcuts!Reported(l)
  PROVE  RowsHold'
<1> DEFINE c == Shortcuts!CursorIn(l)
           n == Len(l)
<1>1. v7' = l /\ v8' = c /\ v9' = v9 \intersect Shortcuts!Range(l)
  BY DEF Shortcuts!Reported
<1>2. v9 \subseteq ShortcutsMessages /\ v8 \in 0 .. Len(v7) /\ v7 \in Seq(ShortcutsMessages)
  BY DEF Shortcuts!KeysInv, Shortcuts!TypeOK
<1>3. n \in Nat /\ v8 \in Nat /\ DOMAIN l = 1 .. n /\ (l # << >> => n # 0)
  BY <1>2
<1>4. c \in 0 .. n
  <2>1. CASE l = << >> \/ v8 = 0
    BY <1>3, <2>1 DEF Shortcuts!CursorIn
  <2>2. CASE l # << >> /\ v8 # 0 /\ v7[v8] \in Shortcuts!Range(l)
    <3>1. c = CHOOSE i \in DOMAIN l : l[i] = v7[v8]
      BY <2>2 DEF Shortcuts!CursorIn
    <3>2. \E i \in DOMAIN l : l[i] = v7[v8]
      BY <2>2 DEF Shortcuts!Range
    <3>3. c \in DOMAIN l
      BY <3>1, <3>2
    <3> HIDE DEF c, n
    <3>. QED BY <1>3, <3>3
  <2>3. CASE l # << >> /\ v8 # 0 /\ v7[v8] \notin Shortcuts!Range(l)
    <3>1. c = IF l[1] = v7[1] THEN (IF v8 > n THEN n ELSE v8) ELSE 1
      BY <2>3 DEF Shortcuts!CursorIn
    <3>2. n # 0
      BY <1>3, <2>3
    <3> HIDE DEF c, n
    <3>. QED BY <1>3, <2>3, <3>1, <3>2
  <2>. QED BY <2>1, <2>2, <2>3
<1>. QED
  BY <1>1, <1>2, <1>4 DEF RowsHold

\* A list that is mounted reports nothing at first.
LEMMA MountedHolds ==
  ASSUME Shortcuts!KeysInv, RowsHold, NEW v, Shortcuts!MountedIn(v) PROVE RowsHold'
<1>1. << >> \in Seq(ShortcutsMessages)
  OBVIOUS
<1>2. CASE Shortcuts!Reported(<< >>)
  BY <1>1, <1>2, ReportedHolds
<1>3. CASE UNCHANGED <<v7, v8, v9>>
  BY <1>3 DEF RowsHold
<1>. QED
  BY <1>2, <1>3 DEF Shortcuts!MountedIn

\* What a move takes is among the messages, and in the list on screen.
LEMMA TargetsAreInHand ==
  ASSUME Shortcuts!KeysInv, Shortcuts!InHand
  PROVE  /\ Shortcuts!Targets \subseteq ShortcutsMessages
         /\ v2 = "inbox" => \A m \in Shortcuts!Targets : Shortcuts!OnScreen(m)
<1>1. /\ v7 \in Seq(ShortcutsMessages) /\ v9 \subseteq ShortcutsMessages
      /\ v9 \subseteq Shortcuts!Range(v7) /\ v6 \in ShortcutsMessages \union {None}
  BY DEF Shortcuts!KeysInv, Shortcuts!TypeOK
<1>2. CASE v6 # None
  BY <1>1, <1>2 DEF Shortcuts!Targets, Shortcuts!OnScreen
<1>3. CASE v6 = None /\ v9 # {}
  BY <1>1, <1>3 DEF Shortcuts!Targets, Shortcuts!OnScreen
<1>4. CASE v6 = None /\ v9 = {}
  <2>1. v8 \in 1 .. Len(v7)
    BY <1>4 DEF Shortcuts!InHand, Shortcuts!OnRow
  <2>2. v7[v8] \in ShortcutsMessages /\ v8 \in DOMAIN v7
    BY <1>1, <2>1
  <2>3. v7[v8] \in Shortcuts!Range(v7)
    BY <2>2 DEF Shortcuts!Range
  <2>. QED
    BY <1>4, <2>2, <2>3 DEF Shortcuts!Targets, Shortcuts!OnScreen
<1>. QED
  BY <1>2, <1>3, <1>4

\* A press moves the cursor to a row.
LEMMA MovedToIsARow ==
  ASSUME Shortcuts!KeysInv, v7 # << >>, NEW key \in Shortcuts!Letters
  PROVE  /\ Shortcuts!MovedTo(Shortcuts!Delta(key)) \in 1 .. Len(v7)
         /\ v7[Shortcuts!MovedTo(Shortcuts!Delta(key))] \in ShortcutsMessages
<1> DEFINE n == Len(v7)
           d == Shortcuts!Delta(key)
           m == Shortcuts!MovedTo(d)
<1>1. v7 \in Seq(ShortcutsMessages) /\ v8 \in 0 .. n
  BY DEF Shortcuts!KeysInv, Shortcuts!TypeOK
<1>2. n \in Nat \ {0}
  BY <1>1
<1>3. d = 1 \/ d = -1
  BY DEF Shortcuts!Delta
<1>4. m = IF v8 = 0 THEN 1 ELSE IF v8 + d < 1 THEN 1 ELSE IF v8 + d > n THEN n ELSE v8 + d
  BY DEF Shortcuts!MovedTo, Shortcuts!Clamp
<1>5. m \in 1 .. n
  <2> HIDE DEF n, d, m
  <2>. QED BY <1>1, <1>2, <1>3, <1>4
<1> HIDE DEF m
<1>. QED
  BY <1>1, <1>5 DEF m

\* What else there is, when the rows are all right.
RestHolds ==
  /\ v1 \in 0 .. ShortcutsMaxNow /\ v10 \in 0 .. ShortcutsMaxNow \union {None}
  /\ v2 \in Shortcuts!Views /\ v3 \in ShortcutsFolders /\ v4 \in {"page", "field"}
  /\ v5 \in BOOLEAN /\ v6 \in ShortcutsMessages \union {None}
  /\ v11.unseen \subseteq ShortcutsMessages
LEMMA KeysAreTheseTwo ==
  /\ Shortcuts!KeysInv <=> RowsHold /\ RestHolds
  /\ Shortcuts!KeysInv' <=> RowsHold' /\ RestHolds'
  BY DEF Shortcuts!KeysInv, Shortcuts!TypeOK, RowsHold, RestHolds

\* Whichever key it is, the list or the reader is moved to what there is.
LEMMA KeyMovesToARow ==
  ASSUME Shortcuts!KeysInv, NEW key \in Shortcuts!Letters,
         \/ Shortcuts!Select(key) \/ Shortcuts!Open(key) \/ Shortcuts!CloseReader(key)
         \/ Shortcuts!Help(key) \/ Shortcuts!Tick(key) \/ Shortcuts!MoveInHand(key)
         \/ Shortcuts!GoFolder(key) \/ Shortcuts!Ignore(key)
  PROVE  /\ RowsHold' /\ v6' \in ShortcutsMessages \union {None} /\ v5' \in BOOLEAN
         /\ v2' \in Shortcuts!Views /\ v3' \in ShortcutsFolders /\ v4' = v4
<1>1. RowsHold /\ RestHolds /\ v7 \in Seq(ShortcutsMessages)
  BY KeysAreTheseTwo DEF RowsHold
<1>2. CASE Shortcuts!Select(key)
  <2>1. v8' = Shortcuts!MovedTo(Shortcuts!Delta(key)) /\ v7 # << >>
        /\ UNCHANGED <<v2, v3, v4, v5, v6, v7, v9>>
    BY <1>2, KeyNeeds DEF Shortcuts!Select, Shortcuts!place
  <2>2. v8' \in 1 .. Len(v7) /\ Len(v7) \in Nat
    BY <1>1, <2>1, MovedToIsARow
  <2>3. v8' \in 0 .. Len(v7)
    BY <2>2
  <2>. QED
    BY <1>1, <2>1, <2>3 DEF RowsHold, RestHolds
<1>3. CASE Shortcuts!Open(key)
  <2> DEFINE i == IF Shortcuts!Action(key) = "open" THEN v8
                  ELSE Shortcuts!MovedTo(Shortcuts!Delta(key))
  <2>1. /\ Shortcuts!Action(key) \in {"open", "step"}
        /\ v6' = v7[i] /\ v8' = IF v6 = v7[i] THEN v8 ELSE i
        /\ UNCHANGED <<v2, v3, v4, v5, v7, v9>>
    BY <1>3 DEF Shortcuts!Open, Shortcuts!place
  <2>2. i \in 1 .. Len(v7) /\ v7[i] \in ShortcutsMessages
    <3>1. CASE Shortcuts!Action(key) = "open"
      <4>1. v8 \in 1 .. Len(v7)
        BY <3>1, KeyNeeds DEF Shortcuts!OnRow
      <4>2. v7[v8] \in ShortcutsMessages
        BY <1>1, <4>1
      <4>. QED BY <3>1, <4>1, <4>2
    <3>2. CASE Shortcuts!Action(key) = "step"
      BY <3>2, KeyNeeds, MovedToIsARow
    <3>. QED BY <2>1, <3>1, <3>2
  <2> HIDE DEF i
  <2>3. v8' \in 0 .. Len(v7)
    <3>1. Len(v7) \in Nat /\ v8 \in 0 .. Len(v7)
      BY <1>1 DEF RowsHold
    <3>2. i \in 0 .. Len(v7)
      BY <2>2, <3>1
    <3>. QED BY <2>1, <3>1, <3>2
  <2>. QED
    BY <1>1, <2>1, <2>2, <2>3 DEF RowsHold, RestHolds
<1>4. CASE Shortcuts!CloseReader(key)
  BY <1>1, <1>4 DEF Shortcuts!CloseReader, Shortcuts!place, RowsHold, RestHolds
<1>5. CASE Shortcuts!Help(key)
  <2>1. v5' = (Shortcuts!Action(key) = "open-help")
        /\ UNCHANGED <<v2, v3, v4, v6, v7, v8, v9>>
    BY <1>5 DEF Shortcuts!Help, Shortcuts!place
  <2>2. v5' \in BOOLEAN
    BY <2>1
  <2>. QED
    BY <1>1, <2>1, <2>2 DEF RowsHold, RestHolds
<1>6. CASE Shortcuts!Tick(key)
  <2>1. /\ v8 \in 1 .. Len(v7) /\ UNCHANGED <<v2, v3, v4, v5, v6, v7, v8>>
        /\ v9' \in {v9 \ {v7[v8]}, v9 \union {v7[v8]}}
    BY <1>6, KeyNeeds DEF Shortcuts!Tick, Shortcuts!place, Shortcuts!OnRow
  <2>2. v7[v8] \in ShortcutsMessages /\ v8 \in DOMAIN v7
    BY <1>1, <2>1
  <2>3. v7[v8] \in Shortcuts!Range(v7)
    BY <2>2 DEF Shortcuts!Range
  <2>. QED
    BY <1>1, <2>1, <2>2, <2>3 DEF RowsHold, RestHolds
<1>7. CASE Shortcuts!MoveInHand(key)
  <2>1. /\ v6' = None /\ UNCHANGED <<v2, v3, v4, v5>>
        /\ \/ Shortcuts!Reported(Shortcuts!Without(v7, Shortcuts!Targets))
           \/ v9' \subseteq v9 /\ UNCHANGED <<v7, v8>>
    BY <1>7 DEF Shortcuts!MoveInHand, Shortcuts!place
  <2>2. Shortcuts!Without(v7, Shortcuts!Targets) = Kept(v7, Shortcuts!Targets)
    BY DEF Shortcuts!Without, Kept
  <2>3. Shortcuts!Without(v7, Shortcuts!Targets) \in Seq(ShortcutsMessages)
    BY <1>1, <2>2, KeptAreTheRest
  <2>4. RowsHold'
    BY <1>1, <2>1, <2>3, ReportedHolds DEF RowsHold
  <2>. QED
    BY <1>1, <2>1, <2>4 DEF RestHolds
<1>8. CASE Shortcuts!GoFolder(key)
  <2>1. /\ v2' = "inbox" /\ v3' = Shortcuts!FolderOf(key) /\ v6' = None
        /\ Shortcuts!MountedIn("inbox") /\ UNCHANGED <<v4, v5>>
    BY <1>8 DEF Shortcuts!GoFolder
  <2>2. v3' \in ShortcutsFolders
    BY <2>1, ShortcutsAssumption DEF Shortcuts!FolderOf
  <2>3. RowsHold'
    BY <1>1, <2>1, MountedHolds
  <2>. QED
    BY <1>1, <2>1, <2>2, <2>3 DEF RestHolds, Shortcuts!Views
<1>9. CASE Shortcuts!Ignore(key)
  BY <1>1, <1>9 DEF Shortcuts!Ignore, Shortcuts!place, RowsHold, RestHolds
<1>. QED
  BY <1>2, <1>3, <1>4, <1>5, <1>6, <1>7, <1>8, <1>9

LEMMA PressKeepsKeys ==
  ASSUME Shortcuts!KeysInv, NEW key \in Shortcuts!Letters, Shortcuts!Press(key)
  PROVE  Shortcuts!KeysInv'
<1>1. /\ v10' = Shortcuts!ChordAfter(key) /\ v1' = v1
      /\ v11' = [kind |-> Shortcuts!Action(key),
                 unseen |-> IF Shortcuts!Action(key) = "move"
                            THEN {m \in Shortcuts!Targets : ~Shortcuts!OnScreen(m)} ELSE {}]
  BY DEF Shortcuts!Press
<1>2. /\ RowsHold' /\ v6' \in ShortcutsMessages \union {None} /\ v5' \in BOOLEAN
      /\ v2' \in Shortcuts!Views /\ v3' \in ShortcutsFolders /\ v4' = v4
  BY KeyMovesToARow DEF Shortcuts!Press
<1>3. RestHolds
  BY KeysAreTheseTwo
<1>4. v11'.unseen = IF Shortcuts!Action(key) = "move"
                    THEN {m \in Shortcuts!Targets : ~Shortcuts!OnScreen(m)} ELSE {}
  BY <1>1
<1>5. v11'.unseen \subseteq ShortcutsMessages
  BY <1>4, KeyNeeds, TargetsAreInHand
<1>6. v10' \in {v10, v1, None}
  BY <1>1 DEF Shortcuts!ChordAfter
<1>7. RestHolds'
  BY <1>1, <1>2, <1>3, <1>5, <1>6 DEF RestHolds
<1>. QED
  BY <1>2, <1>7, KeysAreTheseTwo

\* Every step keeps the keyboard's invariant.
LEMMA StepKeepsKeys ==
  ASSUME Shortcuts!KeysInv, [Shortcuts!Next]_(Shortcuts!vars)
  PROVE  Shortcuts!KeysInv'
<1>1. RowsHold /\ RestHolds
  BY KeysAreTheseTwo
<1>2. Shortcuts!Nothing.unseen = {}
  BY DEF Shortcuts!Nothing
<1>3. ASSUME NEW l \in Shortcuts!Lists, Shortcuts!Report(l) PROVE Shortcuts!KeysInv'
  <2>1. Shortcuts!Reported(l) /\ v11' = Shortcuts!Nothing
        /\ UNCHANGED <<v1, v2, v3, v4, v5, v6, v10>>
    BY <1>3 DEF Shortcuts!Report, Shortcuts!place
  <2>2. PICK n \in Nat : l \in [1 .. n -> ShortcutsMessages]
    <3> DEFINE top == Shortcuts!Cardinality(ShortcutsMessages)
    <3>1. PICK n \in 0 .. top : l \in [1 .. n -> ShortcutsMessages]
      BY DEF Shortcuts!Lists
    <3> HIDE DEF top
    <3>2. n \in Nat
      OBVIOUS
    <3>. QED BY <3>1, <3>2
  <2>3. l \in Seq(ShortcutsMessages)
    BY <2>2
  <2>4. RowsHold'
    BY <2>1, <2>3, ReportedHolds
  <2>5. RestHolds'
    BY <1>1, <1>2, <2>1 DEF RestHolds
  <2>. QED
    BY <2>4, <2>5, KeysAreTheseTwo
<1>4. ASSUME NEW key \in Shortcuts!Letters, Shortcuts!Press(key) PROVE Shortcuts!KeysInv'
  BY <1>4, PressKeepsKeys
<1>5. ASSUME NEW v \in Shortcuts!Views, Shortcuts!ChangeView(v) PROVE Shortcuts!KeysInv'
  <2>1. /\ v2' = v /\ v6' = None /\ v4' = "page" /\ Shortcuts!MountedIn(v)
        /\ v11' = Shortcuts!Nothing /\ UNCHANGED <<v1, v3, v5, v10>>
    BY <1>5 DEF Shortcuts!ChangeView
  <2>2. RowsHold'
    BY <1>1, <2>1, MountedHolds
  <2>3. RestHolds'
    BY <1>1, <1>2, <2>1 DEF RestHolds
  <2>. QED
    BY <2>2, <2>3, KeysAreTheseTwo
<1>6. ASSUME NEW f \in {"page", "field"}, Shortcuts!Focus(f) PROVE Shortcuts!KeysInv'
  <2>1. RowsHold' /\ RestHolds'
    BY <1>1, <1>2, <1>6 DEF Shortcuts!Focus, RowsHold, RestHolds
  <2>. QED
    BY <2>1, KeysAreTheseTwo
<1>7. CASE Shortcuts!Clock
  <2>1. /\ v1 < ShortcutsMaxNow /\ v1' = v1 + 1 /\ v11' = Shortcuts!Nothing
        /\ UNCHANGED <<v2, v3, v4, v5, v6, v7, v8, v9, v10>>
    BY <1>7 DEF Shortcuts!Clock, Shortcuts!place
  <2>2. v1' \in 0 .. ShortcutsMaxNow
    BY <1>1, <2>1, ShortcutsAssumption DEF RestHolds
  <2>3. RowsHold' /\ RestHolds'
    BY <1>1, <1>2, <2>1, <2>2 DEF RowsHold, RestHolds
  <2>. QED
    BY <2>3, KeysAreTheseTwo
<1>8. CASE Shortcuts!HintTimer
  <2>1. RowsHold' /\ RestHolds'
    BY <1>1, <1>2, <1>8 DEF Shortcuts!HintTimer, Shortcuts!place, RowsHold, RestHolds
  <2>. QED
    BY <2>1, KeysAreTheseTwo
<1>9. CASE UNCHANGED Shortcuts!vars
  <2>1. RowsHold' /\ RestHolds'
    BY <1>1, <1>9 DEF Shortcuts!vars, Shortcuts!place, RowsHold, RestHolds
  <2>. QED
    BY <2>1, KeysAreTheseTwo
<1>. QED
  BY <1>3, <1>4, <1>5, <1>6, <1>7, <1>8, <1>9 DEF Shortcuts!Next

\* A letter opens a folder as the answer to a "g" that is not too old,
LEMMA GoAnswers ==
  ASSUME Shortcuts!KeysInv, Shortcuts!Next PROVE Shortcuts!GoIsAnsweredStep
<1>1. ASSUME NEW key \in Shortcuts!Letters, Shortcuts!Press(key),
             v11'.kind = "go-folder"
      PROVE  v10 # None /\ v1 - v10 <= ShortcutsTimeout
  <2>1. Shortcuts!Action(key) = "go-folder"
    BY <1>1 DEF Shortcuts!Press
  <2>2. v10 # None /\ ~(v1 - v10 > ShortcutsTimeout)
    BY <2>1, KeyNeeds DEF Shortcuts!Pending, Shortcuts!Expired
  <2>3. v1 \in Nat /\ v10 \in Nat
    BY <2>2, ShortcutsAssumption DEF Shortcuts!KeysInv, Shortcuts!TypeOK
  <2>. QED
    BY <2>2, <2>3, ShortcutsAssumption
<1>2. Shortcuts!Nothing.kind # "go-folder"
  BY DEF Shortcuts!Nothing
<1>. QED
  BY <1>1, <1>2
     DEF Shortcuts!Next, Shortcuts!GoIsAnsweredStep, Shortcuts!Report, Shortcuts!ChangeView,
         Shortcuts!Focus, Shortcuts!Clock, Shortcuts!HintTimer

\* and what a key moves out of the list is on screen.
LEMMA MovedIsShown ==
  ASSUME Shortcuts!KeysInv, Shortcuts!Next PROVE Shortcuts!ListShowsWhatIsMovedStep
<1>1. ASSUME NEW key \in Shortcuts!Letters, Shortcuts!Press(key), v2 = "inbox"
      PROVE  v11'.unseen = {}
  <2>1. v11'.unseen = IF Shortcuts!Action(key) = "move"
                      THEN {m \in Shortcuts!Targets : ~Shortcuts!OnScreen(m)} ELSE {}
    BY <1>1 DEF Shortcuts!Press
  <2>. QED
    BY <1>1, <2>1, KeyNeeds, TargetsAreInHand
<1>2. Shortcuts!Nothing.unseen = {}
  BY DEF Shortcuts!Nothing
<1>. QED
  BY <1>1, <1>2
     DEF Shortcuts!Next, Shortcuts!ListShowsWhatIsMovedStep, Shortcuts!Report,
         Shortcuts!ChangeView, Shortcuts!Focus, Shortcuts!Clock, Shortcuts!HintTimer

-----------------------------------------------------------------------------
(* From an open to its message.                                             *)
LEMMA TargetsInit == ASSUME Targets!Init PROVE Targets!TypeOK
  BY DEF Targets!Init, Targets!TypeOK

\* Of a Message-ID the copy of the account and the folder is taken first.
LEMMA TargetsAreRight ==
  ASSUME NEW event
  PROVE  /\ Targets!Targets(event) \subseteq v2
         /\ \A m \in Targets!Targets(event) : m.id = event.id
         /\ (\E m \in v2 : /\ m.id = event.id /\ m.account = event.account
                           /\ Targets!LooksLikeSent(m.folder))
            => \A m \in Targets!Targets(event) :
                 m.account = event.account /\ Targets!LooksLikeSent(m.folder)
<1> DEFINE found == {m \in v2 : m.id = event.id}
           same == {m \in found : m.account = event.account}
           pool == Targets!Pool(event, found)
           sent == {m \in pool : Targets!LooksLikeSent(m.folder)}
<1>1. Targets!Targets(event) = IF sent # {} THEN sent ELSE pool
  BY DEF Targets!Targets
<1>2. pool = IF same # {} THEN same ELSE found
  BY DEF Targets!Pool
<1> HIDE DEF pool
<1>3. Targets!Targets(event) \subseteq pool /\ pool \subseteq found
  BY <1>1, <1>2
<1>4. ASSUME NEW m \in v2, m.id = event.id, m.account = event.account,
             Targets!LooksLikeSent(m.folder)
      PROVE  pool = same /\ Targets!Targets(event) = sent
  BY <1>1, <1>2, <1>4
<1>. QED
  BY <1>3, <1>4

LEMMA StepKeepsTargets ==
  ASSUME Targets!TypeOK, [Targets!Next]_(Targets!vars) PROVE Targets!TypeOK'
<1>1. ASSUME NEW account \in TargetsAccounts, NEW folder \in TargetsFolders,
             Targets!LoadPage(account, folder)
      PROVE  Targets!TypeOK'
  <2> DEFINE page == {Targets!At(p) : p \in {account} \X {folder} \X TargetsUids}
  <2>1. v2' = Targets!Fold(v2, page) /\ v3' = v3 \union page /\ UNCHANGED <<v1, v4, v5>>
    BY <1>1 DEF Targets!LoadPage
  <2>2. ASSUME NEW p \in {account} \X {folder} \X TargetsUids
        PROVE  Targets!At(p) \in Targets!Message
    <3>1. p \in Targets!Place /\ p[1] \in TargetsAccounts /\ p[2] \in TargetsFolders
          /\ p[3] \in TargetsUids
      BY DEF Targets!Place
    <3>2. v1[p] \in TargetsIds
      BY <3>1 DEF Targets!TypeOK
    <3>. QED
      BY <3>1, <3>2 DEF Targets!At, Targets!Message
  <2>3. page \subseteq Targets!Message
    BY <2>2
  <2>. QED
    BY <2>1, <2>3 DEF Targets!TypeOK, Targets!Fold
<1>2. ASSUME NEW event \in [account: TargetsAccounts, id: TargetsIds],
             Targets!OpenEvent(event)
      PROVE  Targets!TypeOK'
  BY <1>2, TargetsAreRight DEF Targets!OpenEvent, Targets!TypeOK
<1>3. CASE UNCHANGED Targets!vars
  BY <1>3 DEF Targets!vars, Targets!TypeOK
<1>. QED
  BY <1>1, <1>2, <1>3 DEF Targets!Next

\* A click on an open shows the copy that was sent, when it is remembered.
LEMMA SentCopyOpens ==
  ASSUME Targets!Next PROVE Targets!OpensTheSentCopyStep
<1>1. ASSUME NEW event, Targets!OpenEvent(event) PROVE Targets!OpensTheSentCopyStep
  <2>1. v5' = event /\ (v4' # None => v4' \in Targets!Targets(event))
    BY <1>1 DEF Targets!OpenEvent
  <2>. QED
    BY <2>1, TargetsAreRight DEF Targets!OpensTheSentCopyStep
<1>2. ASSUME NEW account, NEW folder, Targets!LoadPage(account, folder)
      PROVE  Targets!OpensTheSentCopyStep
  BY <1>2 DEF Targets!LoadPage, Targets!OpensTheSentCopyStep
<1>. QED
  BY <1>1, <1>2 DEF Targets!Next

-----------------------------------------------------------------------------
(* Pages of conversations.                                                  *)

\* What every list has whose prefixes have it.
LEMMA SeqInduct ==
  ASSUME NEW E, NEW P, << >> \in P, \A s \in Seq(E) : s \in P => \A x \in E : Append(s, x) \in P
  PROVE  \A s \in Seq(E) : s \in P
<1> DEFINE M == {n \in Nat : \A s \in Seq(E) : Len(s) = n => s \in P}
<1>1. 0 \in M
  <2>1. \A s \in Seq(E) : Len(s) = 0 => s = << >>
    OBVIOUS
  <2>. QED BY <2>1
<1>2. ASSUME NEW n \in Nat, n \in M PROVE n + 1 \in M
  <2>. SUFFICES ASSUME NEW s \in Seq(E), Len(s) = n + 1 PROVE s \in P
    OBVIOUS
  <2> DEFINE r == SubSeq(s, 1, n)
             x == s[n + 1]
  <2>1. r \in Seq(E) /\ Len(r) = n /\ x \in E
    OBVIOUS
  <2>2. s = Append(r, x)
    OBVIOUS
  <2>3. r \in P
    BY <1>2, <2>1
  <2> HIDE DEF r, x
  <2>. QED BY <2>1, <2>2, <2>3
<1> HIDE DEF M
<1>3. \A n \in Nat : n \in M
  BY <1>1, <1>2, InductNat
<1>. QED
  <2>. SUFFICES ASSUME NEW s \in Seq(E) PROVE s \in P
    OBVIOUS
  <2>1. Len(s) \in Nat /\ Len(s) \in M
    BY <1>3
  <2>. QED BY <2>1 DEF M

\* The entries of a set in order: the recursion exists.
Counted(S, t) ==
  /\ t[0] = << >>
  /\ \A i \in 1 .. MailingN :
       t[i] = IF Mailing!At(S, MailingN + 1 - i) = {} THEN t[i - 1]
              ELSE Append(t[i - 1], CHOOSE e \in Mailing!At(S, MailingN + 1 - i) : TRUE)
LEMMA OrderUnfolds ==
  ASSUME NEW S PROVE \E t : Counted(S, t) /\ Mailing!InOrder(S) = t[MailingN]
<1> DEFINE L == MailingN
           A == Seq(S)
           at(i) == Mailing!At(S, L + 1 - i)
           pick(i) == CHOOSE e \in at(i) : TRUE
           g == [i \in 1 .. L |-> [s \in A |-> IF at(i) = {} THEN s ELSE Append(s, pick(i))]]
           Rec(f) == f = [i \in 0 .. L |-> IF i = 0 THEN << >>
                            ELSE IF at(i) = {} THEN f[i - 1] ELSE Append(f[i - 1], pick(i))]
           t == CHOOSE f : Rec(f)
<1>1. L \in Nat /\ \A i \in 1 .. L : at(i) # {} => pick(i) \in S
  BY MailingAssumption DEF Mailing!At
<1>2. g \in StepsTo(L, A)
  <2> HIDE DEF at, pick
  <2>. QED BY <1>1 DEF StepsTo
<1>3. << >> \in A
  OBVIOUS
<1> HIDE DEF A
<1>4. PICK f \in [0 .. L -> A] : \A i \in 0 .. L : f[i] = IF i = 0 THEN << >> ELSE g[i][f[i - 1]]
  <2> DEFINE none == << >>
  <2>1. none \in A /\ L \in Nat
    BY <1>1, <1>3
  <2> HIDE DEF g, L, none
  <2>2. \E f \in [0 .. L -> A] :
          \A i \in 0 .. L : f[i] = IF i = 0 THEN none ELSE g[i][f[i - 1]]
    BY ONLY <1>2, <2>1, RecursionExists
  <2>. QED BY <2>2 DEF none
<1> HIDE DEF at, pick
<1>5. ASSUME NEW i \in 0 .. L
      PROVE  f[i] = IF i = 0 THEN << >>
                    ELSE IF at(i) = {} THEN f[i - 1] ELSE Append(f[i - 1], pick(i))
  <2>1. CASE i = 0
    BY <1>4, <2>1
  <2>2. CASE i # 0
    <3>1. i \in 1 .. L /\ i - 1 \in 0 .. L
      BY <1>1, <2>2
    <3>2. f[i - 1] \in A
      BY <1>4, <3>1
    <3>. QED BY <1>4, <2>2, <3>1, <3>2
  <2>. QED BY <2>1, <2>2
<1>6. Rec(f)
  <2>1. f = [i \in 0 .. L |-> f[i]]
    BY <1>4
  <2>. QED BY <1>5, <2>1
<1>7. Rec(t)
  BY <1>6
<1>8. Mailing!InOrder(S) = t[L]
  BY DEF Mailing!InOrder, at, pick
<1> HIDE DEF t
<1>9. /\ t[0] = << >>
      /\ \A i \in 1 .. L : t[i] = IF at(i) = {} THEN t[i - 1] ELSE Append(t[i - 1], pick(i))
  <2>1. \A i \in 0 .. L : t[i] = IF i = 0 THEN << >>
                                 ELSE IF at(i) = {} THEN t[i - 1] ELSE Append(t[i - 1], pick(i))
    BY <1>7
  <2>2. \A i \in 1 .. L : i \in 0 .. L /\ i # 0
    BY <1>1
  <2>3. 0 \in 0 .. L
    BY <1>1
  <2>. QED BY <2>1, <2>2, <2>3
<1>10. Counted(S, t)
  BY <1>9 DEF Counted, at, pick
<1>. QED BY <1>8, <1>10

\* An entry below all others keeps a list descending.
Descends(s) == \A i, j \in 1 .. Len(s) : i < j => s[i].id > s[j].id
LEMMA AppendDescends ==
  ASSUME NEW E, NEW s \in Seq(E), NEW x \in E, Descends(s),
         \A e \in Elements(s) : e.id > x.id
  PROVE  Descends(Append(s, x))
<1> DEFINE L == Len(s)
           t == Append(s, x)
<1>1. /\ L \in Nat /\ Len(t) = L + 1
      /\ \A i \in 1 .. L : t[i] = s[i]
      /\ t[L + 1] = x
  OBVIOUS
<1>2. /\ \A i, j \in 1 .. L : i < j => s[i].id > s[j].id
      /\ \A i \in 1 .. L : s[i].id > x.id
  BY DEF Descends, Elements
<1> HIDE DEF L, t
<1>3. ASSUME NEW i \in 1 .. L + 1, NEW j \in 1 .. L + 1, i < j PROVE t[i].id > t[j].id
  <2>1. i \in 1 .. L
    BY <1>1, <1>3
  <2>2. CASE j \in 1 .. L
    BY <1>1, <1>2, <1>3, <2>1, <2>2
  <2>3. CASE j = L + 1
    BY <1>1, <1>2, <2>1, <2>3
  <2>. QED BY <1>1, <2>2, <2>3
<1>4. Descends(t)
  BY <1>1, <1>3 DEF Descends
<1>. QED BY <1>4 DEF t

\* A set of entries in order is a list of each of them, the highest number first.
OneEach(S) == \A d, e \in S : d.id = e.id => d = e
LEMMA OrderIsSorted ==
  ASSUME NEW S \in SUBSET Mailing!Entry, OneEach(S)
  PROVE  /\ Mailing!InOrder(S) \in Seq(S) /\ Elements(Mailing!InOrder(S)) = S
         /\ Descends(Mailing!InOrder(S))
<1> DEFINE L == MailingN
<1>1. L \in Nat /\ \A e \in S : e.id \in 1 .. L
  BY MailingAssumption DEF Mailing!Entry, Mailing!Ids
<1>2. PICK t : Counted(S, t) /\ Mailing!InOrder(S) = t[L]
  BY OrderUnfolds
<1> DEFINE From(n) == {e \in S : e.id >= L + 1 - n}
           Fits(n) == t[n] \in Seq(S) /\ Elements(t[n]) = From(n) /\ Descends(t[n])
           M == {n \in Nat : n <= L => Fits(n)}
<1>3. 0 \in M
  <2> DEFINE none == << >>
  <2>1. none \in Seq(S) /\ Len(none) = 0
    OBVIOUS
  <2> HIDE DEF none
  <2>2. Elements(none) = {} /\ Descends(none)
    BY <2>1 DEF Elements, Descends
  <2>3. From(0) = {} /\ t[0] = none
    BY <1>1, <1>2 DEF none, Counted
  <2>. QED BY <2>1, <2>2, <2>3
<1>4. ASSUME NEW n \in Nat, n \in M PROVE n + 1 \in M
  <2>. SUFFICES ASSUME n + 1 <= L PROVE Fits(n + 1)
    OBVIOUS
  <2>1. n + 1 \in 1 .. L /\ n <= L /\ (n + 1) - 1 = n /\ L + 1 - (n + 1) = L - n
    BY <1>1
  <2>2. Fits(n)
    BY <1>4, <2>1
  <2> DEFINE s == t[n]
             at == Mailing!At(S, L - n)
             x == CHOOSE e \in at : TRUE
  <2>3. t[n + 1] = IF at = {} THEN s ELSE Append(s, x)
    BY <1>2, <2>1 DEF Counted
  <2>4. at = {e \in S : e.id = L - n}
    BY DEF Mailing!At
  <2>5. From(n + 1) = From(n) \union at
    <3>1. ASSUME NEW e \in S
          PROVE  e.id >= L + 1 - (n + 1) <=> (e.id >= L + 1 - n \/ e.id = L - n)
      BY <1>1
    <3>. QED BY <2>4, <3>1
  <2>6. CASE at = {}
    BY <2>2, <2>3, <2>5, <2>6
  <2>7. CASE at # {}
    <3>1. x \in at
      BY <2>7
    <3>2. x \in S /\ x.id = L - n
      BY <2>4, <3>1
    <3>3. at = {x}
      BY <2>4, <3>1, <3>2 DEF OneEach
    <3>4. \A e \in From(n) : e.id > x.id
      BY <1>1, <3>2
    <3>5. t[n + 1] = Append(s, x)
      BY <2>3, <2>7
    <3>6. s \in Seq(S) /\ Elements(s) = From(n) /\ Descends(s)
      BY <2>2
    <3>7. From(n + 1) = From(n) \union {x}
      BY <2>5, <3>3
    <3> HIDE DEF s, x, at, From
    <3>8. Descends(Append(s, x))
      BY <3>2, <3>4, <3>6, AppendDescends
    <3>9. Append(s, x) \in Seq(S) /\ Elements(Append(s, x)) = Elements(s) \union {x}
      BY <3>2, <3>6, AppendedElements
    <3>. QED BY <3>5, <3>6, <3>7, <3>8, <3>9
  <2>. QED BY <2>6, <2>7
<1> HIDE DEF M
<1>5. L \in M
  BY <1>1, <1>3, <1>4, InductNat
<1>6. Fits(L)
  BY <1>1, <1>5 DEF M
<1>7. From(L) = S
  BY <1>1
<1>. QED BY <1>2, <1>6, <1>7

\* The messages of a conversation: the recursion exists,
Bucketed(rows, key, t) ==
  /\ t[0] = << >>
  /\ \A i \in 1 .. Len(rows) :
       t[i] = IF Mailing!Key(rows[i]) = key THEN Append(t[i - 1], rows[i]) ELSE t[i - 1]
LEMMA MembersUnfold ==
  ASSUME NEW E, NEW rows \in Seq(E), NEW key
  PROVE  \E t : Bucketed(rows, key, t) /\ Mailing!MembersOf(rows, key) = t[Len(rows)]
<1> DEFINE L == Len(rows)
           A == Seq(E)
           is(i) == Mailing!Key(rows[i]) = key
           g == [i \in 1 .. L |-> [s \in A |-> IF is(i) THEN Append(s, rows[i]) ELSE s]]
           Rec(f) == f = [i \in 0 .. L |-> IF i = 0 THEN << >>
                            ELSE IF is(i) THEN Append(f[i - 1], rows[i]) ELSE f[i - 1]]
           t == CHOOSE f : Rec(f)
<1>1. L \in Nat /\ \A i \in 1 .. L : rows[i] \in E
  OBVIOUS
<1>2. g \in StepsTo(L, A)
  <2> HIDE DEF is
  <2>. QED BY <1>1 DEF StepsTo
<1>3. << >> \in A
  OBVIOUS
<1> HIDE DEF A
<1>4. PICK f \in [0 .. L -> A] : \A i \in 0 .. L : f[i] = IF i = 0 THEN << >> ELSE g[i][f[i - 1]]
  <2> DEFINE none == << >>
  <2>1. none \in A /\ L \in Nat
    BY <1>1, <1>3
  <2> HIDE DEF g, L, none
  <2>2. \E f \in [0 .. L -> A] :
          \A i \in 0 .. L : f[i] = IF i = 0 THEN none ELSE g[i][f[i - 1]]
    BY ONLY <1>2, <2>1, RecursionExists
  <2>. QED BY <2>2 DEF none
<1> HIDE DEF is
<1>5. ASSUME NEW i \in 0 .. L
      PROVE  f[i] = IF i = 0 THEN << >>
                    ELSE IF is(i) THEN Append(f[i - 1], rows[i]) ELSE f[i - 1]
  <2>1. CASE i = 0
    BY <1>4, <2>1
  <2>2. CASE i # 0
    <3>1. i \in 1 .. L /\ i - 1 \in 0 .. L
      BY <1>1, <2>2
    <3>2. f[i - 1] \in A
      BY <1>4, <3>1
    <3>. QED BY <1>4, <2>2, <3>1, <3>2
  <2>. QED BY <2>1, <2>2
<1>6. Rec(f)
  <2>1. f = [i \in 0 .. L |-> f[i]]
    BY <1>4
  <2>. QED BY <1>5, <2>1
<1>7. Rec(t)
  BY <1>6
<1>8. Mailing!MembersOf(rows, key) = t[L]
  BY DEF Mailing!MembersOf, is
<1> HIDE DEF t
<1>9. /\ t[0] = << >>
      /\ \A i \in 1 .. L : t[i] = IF is(i) THEN Append(t[i - 1], rows[i]) ELSE t[i - 1]
  <2>1. \A i \in 0 .. L : t[i] = IF i = 0 THEN << >>
                                 ELSE IF is(i) THEN Append(t[i - 1], rows[i]) ELSE t[i - 1]
    BY <1>7
  <2>2. \A i \in 1 .. L : i \in 0 .. L /\ i # 0
    BY <1>1
  <2>3. 0 \in 0 .. L
    BY <1>1
  <2>. QED BY <2>1, <2>2, <2>3
<1>10. Bucketed(rows, key, t)
  BY <1>9 DEF Bucketed, is
<1>. QED BY <1>8, <1>10

\* so a message more is a member more, or none.
LEMMA MembersOfNone == ASSUME NEW key PROVE Mailing!MembersOf(<< >>, key) = << >>
<1> DEFINE rows == << >>
<1>1. rows \in Seq({}) /\ Len(rows) = 0
  OBVIOUS
<1> HIDE DEF rows
<1>2. \E t : Bucketed(rows, key, t) /\ Mailing!MembersOf(rows, key) = t[0]
  BY <1>1, MembersUnfold
<1>3. Mailing!MembersOf(rows, key) = << >>
  BY <1>2 DEF Bucketed
<1>. QED BY <1>3 DEF rows
LEMMA MembersOfAppend ==
  ASSUME NEW E, NEW rows \in Seq(E), NEW x \in E, NEW key
  PROVE  Mailing!MembersOf(Append(rows, x), key) =
           IF Mailing!Key(x) = key THEN Append(Mailing!MembersOf(rows, key), x)
                                   ELSE Mailing!MembersOf(rows, key)
<1> DEFINE L == Len(rows)
           more == Append(rows, x)
<1>1. /\ L \in Nat /\ more \in Seq(E) /\ Len(more) = L + 1 /\ more[L + 1] = x
      /\ \A i \in 1 .. L : more[i] = rows[i]
  OBVIOUS
<1>2. PICK t : Bucketed(rows, key, t) /\ Mailing!MembersOf(rows, key) = t[L]
  BY MembersUnfold
<1> HIDE DEF more
<1>3. PICK u : Bucketed(more, key, u) /\ Mailing!MembersOf(more, key) = u[L + 1]
  BY <1>1, MembersUnfold
<1>4. L = Len(rows)
  OBVIOUS
<1> HIDE DEF L
<1> DEFINE M == {n \in Nat : n <= L => u[n] = t[n]}
<1>5. 0 \in M
  BY <1>2, <1>3 DEF Bucketed
<1>6. ASSUME NEW n \in Nat, n \in M PROVE n + 1 \in M
  <2>. SUFFICES ASSUME n + 1 <= L PROVE u[n + 1] = t[n + 1]
    OBVIOUS
  <2>1. n + 1 \in 1 .. L /\ n + 1 \in 1 .. L + 1 /\ n <= L /\ (n + 1) - 1 = n
    BY <1>1
  <2>2. u[n] = t[n] /\ more[n + 1] = rows[n + 1]
    BY <1>1, <1>6, <2>1
  <2> DEFINE m == n + 1
  <2>3. /\ m \in 1 .. L /\ m \in 1 .. Len(more) /\ u[m - 1] = t[m - 1] /\ more[m] = rows[m]
    BY <1>1, <2>1, <2>2
  <2> HIDE DEF m
  <2>4. /\ t[m] = IF Mailing!Key(rows[m]) = key THEN Append(t[m - 1], rows[m]) ELSE t[m - 1]
        /\ u[m] = IF Mailing!Key(more[m]) = key THEN Append(u[m - 1], more[m]) ELSE u[m - 1]
    BY <1>2, <1>3, <1>4, <2>3 DEF Bucketed
  <2>5. u[m] = t[m]
    BY <2>3, <2>4
  <2>. QED BY <2>5 DEF m
<1> HIDE DEF M
<1>7. L \in M
  BY <1>1, <1>5, <1>6, InductNat
<1>8. u[L] = t[L]
  BY <1>1, <1>7 DEF M
<1> DEFINE m == L + 1
<1>9. m \in 1 .. Len(more) /\ m - 1 = L /\ more[m] = x
  BY <1>1
<1> HIDE DEF m
<1>10. u[m] = IF Mailing!Key(x) = key THEN Append(u[m - 1], x) ELSE u[m - 1]
  BY <1>3, <1>9 DEF Bucketed
<1>11. Mailing!MembersOf(more, key) = u[m]
  BY <1>3 DEF m
<1>12. Mailing!MembersOf(more, key) =
         IF Mailing!Key(x) = key THEN Append(Mailing!MembersOf(rows, key), x)
                                 ELSE Mailing!MembersOf(rows, key)
  BY <1>2, <1>8, <1>9, <1>10, <1>11
<1>. QED BY <1>12 DEF more

\* They are the messages of that conversation,
LEMMA MembersAre ==
  ASSUME NEW E, NEW key
  PROVE  \A s \in Seq(E) :
           /\ Mailing!MembersOf(s, key) \in Seq(E)
           /\ Elements(Mailing!MembersOf(s, key)) = {e \in Elements(s) : Mailing!Key(e) = key}
<1> DEFINE Of(s) == Mailing!MembersOf(s, key)
           Are(s) == Of(s) \in Seq(E) /\ Elements(Of(s)) = {e \in Elements(s) : Mailing!Key(e) = key}
           P == {s \in Seq(E) : Are(s)}
<1>1. << >> \in P
  <2> DEFINE none == << >>
  <2>1. none \in Seq(E) /\ Len(none) = 0 /\ Of(none) = none
    BY MembersOfNone
  <2> HIDE DEF none, Of
  <2>2. Elements(none) = {}
    BY <2>1 DEF Elements
  <2>3. none \in P
    BY <2>1, <2>2
  <2>. QED BY <2>3 DEF none
<1>2. ASSUME NEW s \in Seq(E), s \in P, NEW x \in E PROVE Append(s, x) \in P
  <2> DEFINE more == Append(s, x)
  <2>1. Of(more) = IF Mailing!Key(x) = key THEN Append(Of(s), x) ELSE Of(s)
    BY MembersOfAppend
  <2>2. more \in Seq(E) /\ Elements(more) = Elements(s) \union {x}
    BY AppendedElements
  <2>3. Of(s) \in Seq(E) /\ Elements(Of(s)) = {e \in Elements(s) : Mailing!Key(e) = key}
    BY <1>2
  <2> HIDE DEF more, Of
  <2>4. Append(Of(s), x) \in Seq(E) /\ Elements(Append(Of(s), x)) = Elements(Of(s)) \union {x}
    BY <2>3, AppendedElements
  <2>5. CASE Mailing!Key(x) = key
    <3>1. Of(more) = Append(Of(s), x)
      BY <2>1, <2>5
    <3>2. Elements(Of(more)) = {e \in Elements(more) : Mailing!Key(e) = key}
      BY <2>2, <2>3, <2>4, <2>5, <3>1
    <3>3. more \in P
      BY <2>2, <2>4, <3>1, <3>2
    <3>. QED BY <3>3 DEF more
  <2>6. CASE Mailing!Key(x) # key
    <3>1. Of(more) = Of(s)
      BY <2>1, <2>6
    <3>2. Elements(Of(more)) = {e \in Elements(more) : Mailing!Key(e) = key}
      BY <2>2, <2>3, <2>6, <3>1
    <3>3. more \in P
      BY <2>2, <2>3, <3>1, <3>2
    <3>. QED BY <3>3 DEF more
  <2>. QED BY <2>5, <2>6
<1> HIDE DEF P
<1>3. \A s \in Seq(E) : s \in P
  BY <1>1, <1>2, SeqInduct
<1>. QED BY <1>3 DEF P

EndsWith(u, w, x) == Append(u \o w, x) = u \o Append(w, x)
LEMMA AppendToBoth ==
  ASSUME NEW E, NEW u \in Seq(E), NEW w \in Seq(E), NEW x \in E PROVE EndsWith(u, w, x)
BY DEF EndsWith

\* of two lists those of the first before those of the second,
LEMMA MembersOfBoth ==
  ASSUME NEW E, NEW r \in Seq(E), NEW key
  PROVE  \A s \in Seq(E) :
           Mailing!MembersOf(r \o s, key) = Mailing!MembersOf(r, key) \o Mailing!MembersOf(s, key)
<1> DEFINE Of(s) == Mailing!MembersOf(s, key)
           P == {s \in Seq(E) : Of(r \o s) = Of(r) \o Of(s)}
<1>0. \A s \in Seq(E) : Of(s) \in Seq(E)
  BY MembersAre
<1>1. << >> \in P
  <2>1. r \o << >> = r
    OBVIOUS
  <2>2. Of(<< >>) = << >> /\ Of(r) \in Seq(E)
    BY <1>0, MembersOfNone
  <2> HIDE DEF Of
  <2>3. Of(r) \o << >> = Of(r)
    BY <2>2
  <2>. QED BY <2>1, <2>2, <2>3
<1>2. ASSUME NEW s \in Seq(E), s \in P, NEW x \in E PROVE Append(s, x) \in P
  <2>1. r \o Append(s, x) = Append(r \o s, x) /\ r \o s \in Seq(E) /\ Append(s, x) \in Seq(E)
    OBVIOUS
  <2>2. Of(Append(s, x)) = IF Mailing!Key(x) = key THEN Append(Of(s), x) ELSE Of(s)
    BY MembersOfAppend
  <2>3. Of(Append(r \o s, x)) = IF Mailing!Key(x) = key THEN Append(Of(r \o s), x) ELSE Of(r \o s)
    BY <2>1, MembersOfAppend
  <2>4. Of(r \o s) = Of(r) \o Of(s) /\ Of(r) \in Seq(E) /\ Of(s) \in Seq(E)
    BY <1>0, <1>2
  <2> DEFINE u == Of(r)
             w == Of(s)
  <2>5. Append(u \o w, x) = u \o Append(w, x)
    <3>1. u \in Seq(E) /\ w \in Seq(E)
      BY <2>4
    <3> HIDE DEF u, w
    <3>2. EndsWith(u, w, x)
      BY <3>1, AppendToBoth
    <3>. QED BY <3>2 DEF EndsWith
  <2> HIDE DEF Of
  <2>6. Of(r \o Append(s, x)) = Of(r) \o Of(Append(s, x))
    BY <2>1, <2>2, <2>3, <2>4, <2>5
  <2>. QED BY <2>1, <2>6
<1> HIDE DEF P
<1>3. \A s \in Seq(E) : s \in P
  BY <1>1, <1>2, SeqInduct
<1>. QED BY <1>3 DEF P

\* and those of a set in order are in order.
OfKey(S, key) == {e \in S : Mailing!Key(e) = key}
LEMMA MembersInOrder ==
  ASSUME NEW S \in SUBSET Mailing!Entry, OneEach(S), NEW key
  PROVE  Mailing!MembersOf(Mailing!InOrder(S), key) = Mailing!InOrder(OfKey(S, key))
<1> DEFINE L == MailingN
           T == OfKey(S, key)
           Of(s) == Mailing!MembersOf(s, key)
<1>1. L \in Nat /\ T \in SUBSET S
  BY MailingAssumption DEF OfKey
<1>2. PICK u : Counted(S, u) /\ Mailing!InOrder(S) = u[L]
  BY OrderUnfolds
<1>3. PICK v : Counted(T, v) /\ Mailing!InOrder(T) = v[L]
  BY OrderUnfolds
<1> DEFINE M == {n \in Nat : n <= L => u[n] \in Seq(S) /\ Of(u[n]) = v[n]}
<1>4. 0 \in M
  <2> DEFINE none == << >>
  <2>1. none \in Seq(S) /\ Of(none) = none
    BY MembersOfNone
  <2>2. u[0] = none /\ v[0] = none
    BY <1>2, <1>3 DEF Counted
  <2> HIDE DEF none, Of
  <2>. QED BY <2>1, <2>2
<1>5. ASSUME NEW n \in Nat, n \in M PROVE n + 1 \in M
  <2>. SUFFICES ASSUME n + 1 <= L PROVE u[n + 1] \in Seq(S) /\ Of(u[n + 1]) = v[n + 1]
    OBVIOUS
  <2>1. n + 1 \in 1 .. L /\ n <= L /\ (n + 1) - 1 = n
    BY <1>1
  <2> DEFINE s == u[n]
             k == L + 1 - (n + 1)
             at == Mailing!At(S, k)
             x == CHOOSE e \in at : TRUE
             has == Mailing!At(T, k)
             y == CHOOSE e \in has : TRUE
  <2>2. s \in Seq(S) /\ Of(s) = v[n]
    BY <1>5, <2>1
  <2>3. /\ u[n + 1] = IF at = {} THEN s ELSE Append(s, x)
        /\ v[n + 1] = IF has = {} THEN v[n] ELSE Append(v[n], y)
    BY <1>2, <1>3, <2>1 DEF Counted
  <2>4. at = {e \in S : e.id = k} /\ has = {e \in at : Mailing!Key(e) = key}
    BY DEF Mailing!At, OfKey
  <2>5. CASE at = {}
    BY <2>2, <2>3, <2>4, <2>5
  <2>6. CASE at # {}
    <3>1. x \in at
      BY <2>6
    <3>2. at = {x} /\ x \in S
      BY <2>4, <3>1 DEF OneEach
    <3>3. u[n + 1] = Append(s, x)
      BY <2>3, <2>6
    <3>4. Of(Append(s, x)) = IF Mailing!Key(x) = key THEN Append(Of(s), x) ELSE Of(s)
      <4>1. s \in Seq(S) /\ x \in S
        BY <2>2, <3>2
      <4> HIDE DEF s, x
      <4>. QED BY <4>1, MembersOfAppend
    <3>5. Append(s, x) \in Seq(S)
      BY <2>2, <3>2
    <3>6. Mailing!Key(x) = key => y = x
      BY <2>4, <3>2
    <3> HIDE DEF s, at, x, has, y, Of
    <3>7. CASE Mailing!Key(x) = key
      <4>1. has # {} /\ y = x
        BY <2>4, <3>2, <3>6, <3>7
      <4>. QED BY <2>2, <2>3, <3>3, <3>4, <3>5, <3>7, <4>1
    <3>8. CASE Mailing!Key(x) # key
      <4>1. has = {}
        BY <2>4, <3>2, <3>8
      <4>. QED BY <2>2, <2>3, <3>3, <3>4, <3>5, <3>8, <4>1
    <3>. QED BY <3>7, <3>8
  <2>. QED BY <2>5, <2>6
<1> HIDE DEF M
<1>6. L \in M
  BY <1>1, <1>4, <1>5, InductNat
<1>7. Of(u[L]) = v[L]
  BY <1>1, <1>6 DEF M
<1>. QED BY <1>2, <1>3, <1>7

\* The first representatives: those down to the cursor, if there is one.
LEMMA FirstAre ==
  ASSUME NEW S \in SUBSET Mailing!Entry, OneEach(S)
  PROVE  LET reps == Mailing!FirstOf(S)
             next == Mailing!NextCursor(reps)
         IN /\ reps \in Seq(S)
            /\ \A e \in S : (\E i \in DOMAIN reps : reps[i] = e) <=> (next = None \/ e.id >= next)
            /\ next # None => \E e \in S : next = e.id
<1> DEFINE found == Mailing!InOrder(S)
           L == Len(found)
           K == IF L > MailingLimit THEN MailingLimit ELSE L
           reps == Mailing!FirstOf(S)
           next == Mailing!NextCursor(reps)
<1>1. found \in Seq(S) /\ Elements(found) = S /\ Descends(found)
  BY OrderIsSorted
<1>2. MailingLimit \in Nat \ {0} /\ \A e \in S : e.id \in Nat /\ e.id # None
  BY MailingAssumption DEF Mailing!Entry, Mailing!Ids
<1>3. reps = SubSeq(found, 1, K)
  BY DEF Mailing!FirstOf
<1>4. L \in Nat /\ \A i \in 1 .. L : found[i] \in S
  BY <1>1
<1>5. K \in Nat /\ K <= L /\ K <= MailingLimit /\ (K < MailingLimit => K = L)
  BY <1>2, <1>4
<1> HIDE DEF reps
<1>6. /\ reps \in Seq(S) /\ Len(reps) = K /\ DOMAIN reps = 1 .. K
      /\ \A i \in 1 .. K : reps[i] = found[i]
  <2> HIDE DEF K
  <2>1. 1 .. K \subseteq 1 .. L
    BY <1>4, <1>5
  <2> HIDE DEF found
  <2>. QED BY <1>1, <1>3, <1>5, <2>1
<1>7. \A e \in S : \E i \in 1 .. L : found[i] = e
  BY <1>1 DEF Elements
<1>8. \A i, j \in 1 .. L : i < j => found[i].id > found[j].id
  BY <1>1 DEF Descends
<1> HIDE DEF found, L, K
<1>9. CASE K < MailingLimit
  <2>1. next = None
    BY <1>6, <1>9 DEF Mailing!NextCursor
  <2>2. \A e \in S : \E i \in DOMAIN reps : reps[i] = e
    BY <1>5, <1>6, <1>7, <1>9
  <2>. QED BY <1>6, <2>1, <2>2 DEF reps
<1>10. CASE ~(K < MailingLimit)
  <2>1. K = MailingLimit /\ K \in 1 .. L
    BY <1>2, <1>4, <1>5, <1>10
  <2>2. next = found[K].id /\ found[K] \in S
    BY <1>4, <1>6, <1>10, <2>1 DEF Mailing!NextCursor
  <2>3. next # None /\ \E e \in S : next = e.id
    BY <1>2, <2>2
  <2>4. ASSUME NEW e \in S PROVE (\E i \in DOMAIN reps : reps[i] = e) <=> e.id >= next
    <3>1. PICK j \in 1 .. L : found[j] = e
      BY <1>7
    <3>2. j <= K => \E i \in DOMAIN reps : reps[i] = e
      BY <1>4, <1>5, <1>6, <3>1
    <3>3. j <= K => e.id >= next
      BY <1>2, <1>4, <1>8, <2>1, <2>2, <3>1
    <3>4. j > K => next > e.id
      BY <1>2, <1>4, <1>8, <2>1, <2>2, <3>1
    <3>5. ASSUME NEW i \in DOMAIN reps, reps[i] = e PROVE e.id >= next
      <4>1. i \in 1 .. L /\ i <= K /\ found[i] = e
        BY <1>4, <1>5, <1>6, <3>5
      <4>. QED BY <1>2, <1>4, <1>8, <2>1, <2>2, <4>1
    <3>6. e.id \in Nat /\ next \in Nat /\ j \in Nat /\ K \in Nat
      BY <1>2, <1>4, <2>1, <2>2
    <3>. QED BY <3>2, <3>4, <3>5, <3>6
  <2>5. \A e \in S : (\E i \in DOMAIN reps : reps[i] = e) <=> (next = None \/ e.id >= next)
    BY <2>3, <2>4
  <2> HIDE DEF next
  <2>6. /\ reps \in Seq(S)
        /\ \A e \in S : (\E i \in DOMAIN reps : reps[i] = e) <=> (next = None \/ e.id >= next)
        /\ next # None => \E e \in S : next = e.id
    BY <1>6, <2>3, <2>5
  <2>. QED BY <2>6 DEF reps, next
<1>. QED BY <1>9, <1>10, <1>5

\* The order drawn: the recursion exists.
RangeOf(s) == Mailing!Range(s)
Sighted(placed, rows, seen, t) ==
  /\ t[0] = placed
  /\ \A i \in 1 .. Len(rows) :
       t[i] = IF rows[i] \in seen /\ Mailing!Key(rows[i]) \notin RangeOf(t[i - 1])
              THEN Append(t[i - 1], Mailing!Key(rows[i])) ELSE t[i - 1]
Runs(A, start, L, g) ==
  \E f \in [0 .. L -> A] : \A i \in 0 .. L : f[i] = IF i = 0 THEN start ELSE g[i][f[i - 1]]
LEMMA RecursionRuns ==
  ASSUME NEW A, NEW start \in A, NEW L \in Nat, NEW g \in StepsTo(L, A)
  PROVE  Runs(A, start, L, g)
BY RecursionExists DEF Runs
LEMMA SightingsUnfold ==
  ASSUME NEW E, NEW Q, \A e \in E : Mailing!Key(e) \in Q, NEW placed \in Seq(Q),
         NEW rows \in Seq(E), NEW seen
  PROVE  \E t : /\ Sighted(placed, rows, seen, t)
                /\ Mailing!Sightings(placed, rows, seen) = t[Len(rows)]
<1> DEFINE L == Len(rows)
           A == Seq(Q)
           at(i) == Mailing!Key(rows[i])
           new(i, s) == rows[i] \in seen /\ at(i) \notin RangeOf(s)
           g == [i \in 1 .. L |-> [s \in A |-> IF new(i, s) THEN Append(s, at(i)) ELSE s]]
           Rec(f) == f = [i \in 0 .. L |-> IF i = 0 THEN placed
                            ELSE IF new(i, f[i - 1]) THEN Append(f[i - 1], at(i)) ELSE f[i - 1]]
           t == CHOOSE f : Rec(f)
<1>1. L \in Nat /\ \A i \in 1 .. L : at(i) \in Q
  OBVIOUS
<1>2. g \in StepsTo(L, A)
  <2> HIDE DEF at, new
  <2>. QED BY <1>1 DEF StepsTo
<1>3. placed \in A
  OBVIOUS
<1> HIDE DEF A
<1>4. PICK f \in [0 .. L -> A] : \A i \in 0 .. L : f[i] = IF i = 0 THEN placed ELSE g[i][f[i - 1]]
  <2> DEFINE start == placed
  <2>1. start \in A /\ L \in Nat
    BY <1>1, <1>3
  <2> HIDE DEF g, L, start
  <2>2. \E f \in [0 .. L -> A] :
          \A i \in 0 .. L : f[i] = IF i = 0 THEN start ELSE g[i][f[i - 1]]
    <3>1. Runs(A, start, L, g)
      BY ONLY <1>2, <2>1, RecursionRuns
    <3>. QED BY <3>1 DEF Runs
  <2>. QED BY <2>2 DEF start
<1> HIDE DEF at, new
<1>5. ASSUME NEW i \in 0 .. L
      PROVE  f[i] = IF i = 0 THEN placed
                    ELSE IF new(i, f[i - 1]) THEN Append(f[i - 1], at(i)) ELSE f[i - 1]
  <2>1. CASE i = 0
    BY <1>4, <2>1
  <2>2. CASE i # 0
    <3>1. i \in 1 .. L /\ i - 1 \in 0 .. L
      BY <1>1, <2>2
    <3>2. f[i - 1] \in A
      BY <1>4, <3>1
    <3>. QED BY <1>4, <2>2, <3>1, <3>2
  <2>. QED BY <2>1, <2>2
<1>6. Rec(f)
  <2>1. f = [i \in 0 .. L |-> f[i]]
    BY <1>4
  <2>. QED BY <1>5, <2>1
<1>7. Rec(t)
  BY <1>6
<1>8. Mailing!Sightings(placed, rows, seen) = t[L]
  BY DEF Mailing!Sightings, at, new, RangeOf
<1> HIDE DEF t
<1>9. /\ t[0] = placed
      /\ \A i \in 1 .. L :
           t[i] = IF new(i, t[i - 1]) THEN Append(t[i - 1], at(i)) ELSE t[i - 1]
  <2>1. \A i \in 0 .. L : t[i] = IF i = 0 THEN placed
                                 ELSE IF new(i, t[i - 1]) THEN Append(t[i - 1], at(i)) ELSE t[i - 1]
    BY <1>7
  <2>2. \A i \in 1 .. L : i \in 0 .. L /\ i # 0
    BY <1>1
  <2>3. 0 \in 0 .. L
    BY <1>1
  <2>. QED BY <2>1, <2>2, <2>3
<1>10. Sighted(placed, rows, seen, t)
  BY <1>9 DEF Sighted, at, new
<1>. QED BY <1>8, <1>10

LEMMA RangeIsElements == ASSUME NEW S, NEW s \in Seq(S) PROVE RangeOf(s) = Elements(s)
<1>1. DOMAIN s = 1 .. Len(s)
  OBVIOUS
<1>. QED BY <1>1 DEF RangeOf, Mailing!Range, Elements

\* What one more sighting does: the conversations placed keep their places,
\* none is placed twice, each has a message seen, and of two that are new the
\* one before was seen before the other.
SeenAt(rows, seen, key, p) == rows[p] \in seen /\ Mailing!Key(rows[p]) = key
Before(rows, seen, c, d, p) == SeenAt(rows, seen, c, p) /\ \A q \in 1 .. p : ~SeenAt(rows, seen, d, q)
Prefix(s, t) == Len(s) <= Len(t) /\ \A i \in 1 .. Len(s) : t[i] = s[i]
SeenKeys(rows, seen, n) == {Mailing!Key(rows[p]) : p \in {p \in 1 .. n : rows[p] \in seen}}
InTurn(placed, rows, seen, t, n) ==
  \A i, j \in 1 .. Len(t) :
    Len(placed) < i /\ i < j => \E p \in 1 .. n : Before(rows, seen, t[i], t[j], p)
Drawn(placed, rows, seen, t, n) ==
  /\ Prefix(placed, t) /\ Distinct(t)
  /\ Elements(t) = Elements(placed) \union SeenKeys(rows, seen, n)
  /\ InTurn(placed, rows, seen, t, n)
LEMMA OneSighting ==
  ASSUME NEW E, NEW Q, \A e \in E : Mailing!Key(e) \in Q, NEW placed \in Seq(Q),
         NEW rows \in Seq(E), NEW seen, NEW n \in Nat, n + 1 <= Len(rows),
         NEW t \in Seq(Q), Drawn(placed, rows, seen, t, n), rows[n + 1] \in seen,
         Mailing!Key(rows[n + 1]) \notin Elements(t)
  PROVE  Drawn(placed, rows, seen, Append(t, Mailing!Key(rows[n + 1])), n + 1)
<1> DEFINE L == Len(t)
           m == n + 1
           x == Mailing!Key(rows[m])
           u == Append(t, x)
           K == Len(placed)
<1>1. m \in 1 .. Len(rows) /\ rows[m] \in E /\ x \in Q
  OBVIOUS
<1>2. /\ L \in Nat /\ K \in Nat /\ u \in Seq(Q) /\ Len(u) = L + 1
      /\ \A i \in 1 .. L : u[i] = t[i]
      /\ u[L + 1] = x
  <2> HIDE DEF x
  <2>. QED BY <1>1
<1>3. Elements(u) = Elements(t) \union {x} /\ Distinct(u)
  <2>1. Distinct(t) /\ x \notin Elements(t)
    BY DEF Drawn
  <2> HIDE DEF x
  <2>. QED BY <1>1, <2>1, AppendedElements
<1>4. Prefix(placed, u)
  <2>1. K <= L /\ \A i \in 1 .. K : t[i] = placed[i]
    BY DEF Drawn, Prefix
  <2> HIDE DEF u, L, x
  <2>2. K <= L + 1 /\ \A i \in 1 .. K : u[i] = placed[i]
    BY <1>2, <2>1
  <2>. QED BY <1>2, <2>2 DEF Prefix
<1>5. SeenKeys(rows, seen, m) = SeenKeys(rows, seen, n) \union {x}
  <2>1. \A p : p \in 1 .. m <=> p \in 1 .. n \/ p = m
    OBVIOUS
  <2>2. rows[m] \in seen
    OBVIOUS
  <2>. QED BY <2>1, <2>2 DEF SeenKeys
<1>6. Elements(u) = Elements(placed) \union SeenKeys(rows, seen, m)
  BY <1>3, <1>5 DEF Drawn
<1>7. ASSUME NEW i \in 1 .. L + 1, NEW j \in 1 .. L + 1, K < i, i < j
      PROVE  \E p \in 1 .. m : Before(rows, seen, u[i], u[j], p)
  <2>1. i \in 1 .. L /\ u[i] = t[i]
    BY <1>2, <1>7
  <2>2. \A p \in 1 .. n : p \in 1 .. m
    OBVIOUS
  <2> HIDE DEF u, x, m
  <2>3. CASE j \in 1 .. L
    <3>1. \E p \in 1 .. n : Before(rows, seen, t[i], t[j], p)
      BY <1>7, <2>1, <2>3 DEF Drawn, InTurn
    <3>. QED BY <1>2, <2>1, <2>2, <2>3, <3>1
  <2>4. CASE j = L + 1
    <3>1. t[i] \in Elements(t)
      BY <2>1 DEF Elements
    <3>2. t[i] \notin Elements(placed)
      <4>1. K <= L /\ (\A k \in 1 .. K : t[k] = placed[k]) /\ Distinct(t)
        BY DEF Drawn, Prefix
      <4>2. ASSUME NEW k \in 1 .. K, t[i] = placed[k] PROVE FALSE
        <5>1. k \in 1 .. L /\ k # i /\ t[k] = t[i]
          BY <1>2, <1>7, <4>1, <4>2
        <5>. QED BY <2>1, <4>1, <5>1 DEF Distinct
      <4>. QED BY <4>2 DEF Elements
    <3>3. t[i] \in SeenKeys(rows, seen, n)
      BY <3>1, <3>2 DEF Drawn
    <3>4. PICK p \in 1 .. n : SeenAt(rows, seen, t[i], p)
      BY <3>3 DEF SeenKeys, SeenAt
    <3>5. ASSUME NEW q \in 1 .. p, SeenAt(rows, seen, x, q) PROVE FALSE
      <4>1. q \in 1 .. n
        BY <3>4
      <4>2. x \in SeenKeys(rows, seen, n)
        BY <3>5, <4>1 DEF SeenKeys, SeenAt
      <4>. QED BY <4>2 DEF Drawn, x, m
    <3>6. Before(rows, seen, u[i], u[j], p)
      BY <1>2, <2>1, <2>4, <3>4, <3>5 DEF Before
    <3>. QED BY <2>2, <3>4, <3>6
  <2>. QED BY <1>2, <2>3, <2>4
<1>8. InTurn(placed, rows, seen, u, m)
  <2> HIDE DEF u, m
  <2>. QED BY <1>2, <1>7 DEF InTurn
<1>9. Drawn(placed, rows, seen, u, m)
  <2> HIDE DEF u, m
  <2>. QED BY <1>3, <1>4, <1>6, <1>8 DEF Drawn
<1>. QED BY <1>9

\* and then all of them.
LEMMA SightingsAre ==
  ASSUME NEW E, NEW Q, \A e \in E : Mailing!Key(e) \in Q, NEW placed \in Seq(Q),
         Distinct(placed), NEW rows \in Seq(E), NEW seen
  PROVE  /\ Mailing!Sightings(placed, rows, seen) \in Seq(Q)
         /\ Drawn(placed, rows, seen, Mailing!Sightings(placed, rows, seen), Len(rows))
<1> DEFINE L == Len(rows)
<1>1. L \in Nat
  OBVIOUS
<1>2. PICK t : /\ Sighted(placed, rows, seen, t)
               /\ Mailing!Sightings(placed, rows, seen) = t[L]
  BY SightingsUnfold
<1> DEFINE Fits(n) == t[n] \in Seq(Q) /\ Drawn(placed, rows, seen, t[n], n)
           M == {n \in Nat : n <= L => Fits(n)}
<1>3. 0 \in M
  <2>1. t[0] = placed
    BY <1>2 DEF Sighted
  <2>2. Prefix(placed, placed)
    <3>1. Len(placed) \in Nat
      OBVIOUS
    <3>. QED BY <3>1 DEF Prefix
  <2>3. SeenKeys(rows, seen, 0) = {}
    BY DEF SeenKeys
  <2>4. InTurn(placed, rows, seen, placed, 0)
    <3> DEFINE K == Len(placed)
    <3>1. K \in Nat
      OBVIOUS
    <3>2. K = Len(placed)
      OBVIOUS
    <3> HIDE DEF K
    <3>3. \A i \in 1 .. K : ~(K < i)
      BY <3>1
    <3>. QED BY <3>2, <3>3 DEF InTurn
  <2>5. Drawn(placed, rows, seen, placed, 0)
    BY <2>2, <2>3, <2>4 DEF Drawn
  <2>. QED BY <2>1, <2>5
<1>4. ASSUME NEW n \in Nat, n \in M PROVE n + 1 \in M
  <2>. SUFFICES ASSUME n + 1 <= L PROVE Fits(n + 1)
    OBVIOUS
  <2>1. n + 1 \in 1 .. L /\ n <= L /\ (n + 1) - 1 = n
    BY <1>1
  <2> DEFINE s == t[n]
             x == Mailing!Key(rows[n + 1])
  <2>2. s \in Seq(Q) /\ Drawn(placed, rows, seen, s, n)
    BY <1>4, <2>1
  <2>3. rows[n + 1] \in E /\ x \in Q
    BY <2>1
  <2>4. RangeOf(s) = Elements(s)
    <3> HIDE DEF s
    <3>. QED BY <2>2, RangeIsElements
  <2>5. t[n + 1] = IF rows[n + 1] \in seen /\ x \notin RangeOf(s) THEN Append(s, x) ELSE s
    BY <1>2, <2>1 DEF Sighted
  <2>6. CASE rows[n + 1] \in seen /\ x \notin Elements(s)
    <3>1. t[n + 1] = Append(s, x)
      BY <2>4, <2>5, <2>6
    <3>2. Drawn(placed, rows, seen, Append(s, x), n + 1)
      <4> HIDE DEF s
      <4>. QED BY <2>2, <2>6, OneSighting
    <3>3. Append(s, x) \in Seq(Q)
      <4> HIDE DEF s, x
      <4>. QED BY <2>2, <2>3
    <3>. QED BY <3>1, <3>2, <3>3
  <2>7. CASE ~(rows[n + 1] \in seen /\ x \notin Elements(s))
    <3>1. t[n + 1] = s
      BY <2>4, <2>5, <2>7
    <3>2. \A p : p \in 1 .. n + 1 <=> p \in 1 .. n \/ p = n + 1
      OBVIOUS
    <3>3. Elements(s) = Elements(placed) \union SeenKeys(rows, seen, n + 1)
      <4>1. Elements(s) = Elements(placed) \union SeenKeys(rows, seen, n)
        BY <2>2 DEF Drawn
      <4>2. SeenKeys(rows, seen, n) \subseteq SeenKeys(rows, seen, n + 1)
        BY <3>2 DEF SeenKeys
      <4>3. ASSUME NEW c \in SeenKeys(rows, seen, n + 1) PROVE c \in Elements(s)
        <5>1. PICK p \in 1 .. n + 1 : rows[p] \in seen /\ c = Mailing!Key(rows[p])
          BY DEF SeenKeys
        <5>2. CASE p \in 1 .. n
          BY <4>1, <5>1, <5>2 DEF SeenKeys
        <5>3. CASE p = n + 1
          BY <2>7, <5>1, <5>3
        <5>. QED BY <3>2, <5>2, <5>3
      <4>. QED BY <4>1, <4>2, <4>3
    <3>4. InTurn(placed, rows, seen, s, n + 1)
      <4>1. \A i, j \in 1 .. Len(s) : Len(placed) < i /\ i < j =>
              \E p \in 1 .. n : Before(rows, seen, s[i], s[j], p)
        BY <2>2 DEF Drawn, InTurn
      <4> HIDE DEF s
      <4>. QED BY <3>2, <4>1 DEF InTurn
    <3>5. Drawn(placed, rows, seen, s, n + 1)
      BY <2>2, <3>3, <3>4 DEF Drawn
    <3>. QED BY <2>2, <3>1, <3>5
  <2>. QED BY <2>6, <2>7
<1> HIDE DEF M
<1>5. L \in M
  BY <1>1, <1>3, <1>4, InductNat
<1>6. Fits(L)
  BY <1>1, <1>5 DEF M
<1>. QED BY <1>2, <1>6

\* The order drawn has each conversation there is a message of, once; and those
\* that have messages of the folder stand as the first of these do.
Shown(rows, key, p) == Mailing!Key(rows[p]) = key /\ Mailing!IsFolderMember(rows[p])
Ahead(rows, c, d) ==
  \E p \in 1 .. Len(rows) : Shown(rows, c, p) /\ \A q \in 1 .. p : ~Shown(rows, d, q)
HasShown(rows, key) == \E p \in 1 .. Len(rows) : Shown(rows, key, p)
OrderFits(rows, o) ==
  /\ DOMAIN o = 1 .. Len(o) /\ Len(o) \in Nat /\ Distinct(o)
  /\ Elements(o) = {Mailing!Key(rows[p]) : p \in 1 .. Len(rows)}
  /\ \A i, j \in 1 .. Len(o) :
       i < j /\ HasShown(rows, o[i]) /\ HasShown(rows, o[j]) => Ahead(rows, o[i], o[j])
LEMMA OrderKeeps ==
  ASSUME NEW rows \in Seq(Mailing!Entry)
  PROVE  OrderFits(rows, Mailing!Order(rows))
<1> DEFINE E == Mailing!Entry
           Q == {Mailing!Key(e) : e \in E}
           F == {e \in Mailing!Range(rows) : Mailing!IsFolderMember(e)}
           placed == Mailing!Placed(rows)
           o == Mailing!Order(rows)
           L == Len(rows)
           none == << >>
<1>1. /\ L \in Nat /\ DOMAIN rows = 1 .. L /\ \A e \in E : Mailing!Key(e) \in Q
      /\ none \in Seq(Q) /\ Len(none) = 0 /\ L = Len(rows)
  OBVIOUS
<1>2. /\ placed = Mailing!Sightings(none, rows, F)
      /\ o = Mailing!Sightings(placed, rows, Mailing!Range(rows))
  BY DEF Mailing!Placed, Mailing!Order
<1>3. \A p \in 1 .. L : /\ rows[p] \in Mailing!Range(rows)
                        /\ rows[p] \in F <=> Mailing!IsFolderMember(rows[p])
  BY <1>1 DEF Mailing!Range
<1> HIDE DEF none, F, placed, o, L, Q, E
<1>4. Elements(none) = {} /\ Distinct(none)
  BY <1>1 DEF Elements, Distinct
<1>5. rows \in Seq(E)
  BY DEF E
<1>6. placed \in Seq(Q) /\ Drawn(none, rows, F, placed, L)
  BY <1>1, <1>2, <1>4, <1>5, SightingsAre
<1>7. Distinct(placed)
  BY <1>6 DEF Drawn
<1>8. o \in Seq(Q) /\ Drawn(placed, rows, Mailing!Range(rows), o, L)
  BY <1>1, <1>2, <1>5, <1>6, <1>7, SightingsAre
<1>9. Distinct(o) /\ Prefix(placed, o)
  BY <1>8 DEF Drawn
<1>10. \A p \in 1 .. L : \A key : SeenAt(rows, F, key, p) <=> Shown(rows, key, p)
  BY <1>3 DEF SeenAt, Shown
<1>11. Elements(placed) = SeenKeys(rows, F, L)
  BY <1>4, <1>6 DEF Drawn
<1>12. Elements(o) = {Mailing!Key(rows[p]) : p \in 1 .. L}
  <2>1. SeenKeys(rows, Mailing!Range(rows), L) = {Mailing!Key(rows[p]) : p \in 1 .. L}
    BY <1>3 DEF SeenKeys
  <2>2. SeenKeys(rows, F, L) \subseteq {Mailing!Key(rows[p]) : p \in 1 .. L}
    BY DEF SeenKeys
  <2>. QED BY <1>8, <1>11, <2>1, <2>2 DEF Drawn
<1>13. Len(o) \in Nat /\ DOMAIN o = 1 .. Len(o) /\ Len(placed) \in Nat
  BY <1>6, <1>8
<1>14. ASSUME NEW i \in 1 .. Len(o), HasShown(rows, o[i]) PROVE i <= Len(placed) /\ placed[i] = o[i]
  <2>1. PICK p \in 1 .. L : SeenAt(rows, F, o[i], p)
    BY <1>1, <1>10, <1>14 DEF HasShown
  <2>2. o[i] \in SeenKeys(rows, F, L)
    BY <2>1 DEF SeenKeys, SeenAt
  <2>3. PICK k \in 1 .. Len(placed) : placed[k] = o[i]
    BY <1>11, <2>2 DEF Elements
  <2>4. k \in 1 .. Len(o) /\ o[k] = placed[k]
    BY <1>9, <1>13, <2>3 DEF Prefix
  <2>5. k = i
    BY <1>9, <2>3, <2>4 DEF Distinct
  <2>. QED BY <1>13, <2>3, <2>5
<1>15. ASSUME NEW i \in 1 .. Len(o), NEW j \in 1 .. Len(o), i < j,
              HasShown(rows, o[i]), HasShown(rows, o[j])
       PROVE  Ahead(rows, o[i], o[j])
  <2>1. /\ i <= Len(placed) /\ placed[i] = o[i]
        /\ j <= Len(placed) /\ placed[j] = o[j]
    BY <1>14, <1>15
  <2>2. i \in 1 .. Len(placed) /\ j \in 1 .. Len(placed) /\ Len(none) < i
    BY <1>1, <1>13, <2>1
  <2>3. PICK p \in 1 .. L : Before(rows, F, placed[i], placed[j], p)
    BY <1>6, <1>15, <2>2 DEF Drawn, InTurn
  <2>4. SeenAt(rows, F, o[i], p) /\ \A q \in 1 .. p : ~SeenAt(rows, F, o[j], q)
    BY <2>1, <2>3 DEF Before
  <2>5. \A q \in 1 .. p : q \in 1 .. L
    BY <1>1
  <2>6. Shown(rows, o[i], p) /\ \A q \in 1 .. p : ~Shown(rows, o[j], q)
    BY <1>10, <2>4, <2>5
  <2>. QED BY <1>1, <2>6 DEF Ahead
<1>16. OrderFits(rows, o)
  BY <1>1, <1>9, <1>12, <1>13, <1>15 DEF OrderFits
<1>. QED BY <1>16 DEF o

\* The mail there is: one entry for a number.
EntriesOf(T) == {[id |-> i, row |-> T[i]] : i \in {i \in Mailing!Ids : T[i] # None}}
LEMMA EntriesOfTable ==
  ASSUME NEW T \in [Mailing!Ids -> Mailing!Row \union {None}]
  PROVE  /\ EntriesOf(T) \in SUBSET Mailing!Entry /\ OneEach(EntriesOf(T))
         /\ \A e \in Mailing!Entry : e \in EntriesOf(T) <=> T[e.id] = e.row
<1> DEFINE I == Mailing!Ids
           R == Mailing!Row
           at(i) == [id |-> i, row |-> T[i]]
<1>1. T \in [I -> R \union {None}] /\ None \notin R
  BY MailingAssumption
<1>2. Mailing!Entry = [id: I, row: R]
  BY DEF Mailing!Entry
<1>3. EntriesOf(T) = {at(i) : i \in {i \in I : T[i] # None}}
  BY DEF EntriesOf
<1> HIDE DEF I, R
<1>4. EntriesOf(T) \in SUBSET Mailing!Entry /\ OneEach(EntriesOf(T))
  BY <1>1, <1>2, <1>3 DEF OneEach
<1>5. ASSUME NEW e \in Mailing!Entry PROVE e \in EntriesOf(T) <=> T[e.id] = e.row
  <2>1. e.id \in I /\ e.row \in R /\ e = [id |-> e.id, row |-> e.row]
    BY <1>2
  <2>2. T[e.id] = e.row => T[e.id] # None /\ e = at(e.id)
    BY <1>1, <2>1
  <2>3. e \in EntriesOf(T) => T[e.id] = e.row
    BY <1>3
  <2>. QED BY <1>3, <2>1, <2>2, <2>3
<1>. QED BY <1>4, <1>5
LEMMA EntriesAre ==
  ASSUME Mailing!TypeOK
  PROVE  /\ Mailing!Entries \in SUBSET Mailing!Entry /\ OneEach(Mailing!Entries)
         /\ \A e \in Mailing!Entry : e \in Mailing!Entries <=> v1[e.id] = e.row
<1>1. v1 \in [Mailing!Ids -> Mailing!Row \union {None}]
  BY DEF Mailing!TypeOK
<1>2. Mailing!Entries = EntriesOf(v1)
  BY DEF EntriesOf, Mailing!Entries
<1>. QED BY <1>1, <1>2, EntriesOfTable

\* One representative of a conversation, where a message of it is listed.
Represents(e, key) ==
  e \in Mailing!Entries /\ Mailing!IsRepresentative(e) /\ Mailing!Key(e) = key
LEMMA OneRepresentative ==
  ASSUME Mailing!TypeOK, Mailing!OnePerUid(v1), NEW key, ~Mailing!Doubled(key),
         NEW d, NEW e, Represents(d, key), Represents(e, key)
  PROVE  d = e
<1>1. d \in Mailing!Entry /\ e \in Mailing!Entry /\ OneEach(Mailing!Entries)
  BY EntriesAre DEF Represents
<1>2. d.id \in Nat /\ e.id \in Nat
  BY <1>1, MailingAssumption DEF Mailing!Entry, Mailing!Ids
<1>3. CASE ~Mailing!Unthreaded(d) /\ ~Mailing!Unthreaded(e)
  <2>1. ~(d.id > e.id) /\ ~(e.id > d.id)
    BY <1>3 DEF Represents, Mailing!IsRepresentative, Mailing!Rival
  <2>2. d.id = e.id
    BY <1>2, <2>1
  <2>. QED BY <1>1, <2>2 DEF OneEach, Represents
<1>4. CASE Mailing!Unthreaded(d) \/ Mailing!Unthreaded(e)
  <2>1. Mailing!Key(d) = Mailing!Key(e) /\ Mailing!Listed(d) /\ Mailing!Listed(e)
    BY DEF Represents, Mailing!IsRepresentative
  <2>2. Mailing!Unthreaded(d)
    BY <1>4, <2>1 DEF Mailing!Key, Mailing!Unthreaded
  <2>3. CASE v2 = "search"
    BY <2>1, <2>2, <2>3 DEF Mailing!Doubled, Represents
  <2>4. CASE v2 # "search"
    <3>1. d.row = e.row
      <4>1. d.row.folder = MailingInbox /\ e.row.folder = MailingInbox
        BY <2>1, <2>4 DEF Mailing!Listed
      <4>2. d.row.account = e.row.account /\ d.row.thread = e.row.thread
        BY <2>1 DEF Mailing!Key
      <4>3. d.row \in Mailing!Row /\ e.row \in Mailing!Row
        BY <1>1 DEF Mailing!Entry
      <4>. QED BY <4>1, <4>2, <4>3 DEF Mailing!Row
    <3>2. v1[d.id] = d.row /\ v1[e.id] = e.row
      BY <1>1, EntriesAre DEF Represents
    <3>3. d.id \in Mailing!Ids /\ e.id \in Mailing!Ids /\ d.row \in Mailing!Row
      BY <1>1 DEF Mailing!Entry
    <3>4. d.id = e.id
      BY <2>2, <3>1, <3>2, <3>3, MailingAssumption DEF Mailing!OnePerUid, Mailing!Unthreaded
    <3>. QED BY <1>1, <3>4 DEF OneEach, Represents
  <2>. QED BY <2>3, <2>4
<1>. QED BY <1>3, <1>4
LEMMA RepresentativeExists ==
  ASSUME Mailing!TypeOK, NEW d \in Mailing!Entries, Mailing!Listed(d)
  PROVE  \E e : Represents(e, Mailing!Key(d))
<1> DEFINE L == MailingN
           S == {e \in Mailing!Entries : Mailing!Key(e) = Mailing!Key(d) /\ Mailing!Listed(e)}
           T == {L - e.id : e \in S}
<1>1. L \in Nat /\ \A e \in Mailing!Entries : e.id \in 1 .. L
  BY EntriesAre, MailingAssumption DEF Mailing!Entry, Mailing!Ids
<1>2. d \in S
  OBVIOUS
<1> HIDE DEF L
<1>3. T \in SUBSET Nat /\ T # {}
  <2>1. \A e \in S : e.id \in 1 .. L
    BY <1>1
  <2> HIDE DEF S
  <2>2. \A e \in S : L - e.id \in Nat
    BY <1>1, <2>1
  <2>. QED BY <1>2, <2>2
<1> HIDE DEF T
<1>4. PICK x \in T : \A y \in T : x <= y
  BY <1>3, LeastNat
<1>5. PICK e \in S : x = L - e.id
  BY DEF T
<1>6. ASSUME NEW s \in S, s.id > e.id PROVE FALSE
  <2>1. L - s.id \in T
    BY DEF T
  <2>2. L - e.id <= L - s.id
    BY <1>4, <1>5, <2>1
  <2>3. e.id \in Nat /\ s.id \in Nat
    BY <1>1
  <2>. QED BY <1>1, <1>6, <2>2, <2>3
<1>7. \A s \in Mailing!Entries : ~Mailing!Rival(e, s)
  BY <1>6 DEF Mailing!Rival
<1>8. Represents(e, Mailing!Key(d))
  BY <1>5, <1>7 DEF Represents, Mailing!IsRepresentative
<1>. QED BY <1>8

\* A cursor is a number, or none.
LEMMA CursorIs ==
  ASSUME NEW reps \in Seq(Mailing!Entry)
  PROVE  Mailing!NextCursor(reps) \in Mailing!Ids \union {None}
<1> DEFINE E == Mailing!Entry
           L == Len(reps)
<1>1. L \in Nat /\ \A i \in 1 .. L : reps[i] \in E
  <2>1. reps \in Seq(E)
    OBVIOUS
  <2> HIDE DEF E
  <2>. QED BY <2>1
<1>2. \A e \in E : e.id \in Mailing!Ids
  BY DEF Mailing!Entry
<1>3. MailingLimit \in Nat \ {0}
  BY MailingAssumption
<1> HIDE DEF E
<1>4. ~(L < MailingLimit) => L \in 1 .. L
  BY <1>1, <1>3
<1>. QED BY <1>1, <1>2, <1>4 DEF Mailing!NextCursor

LEMMA MailInit == Mailing!Init => Mailing!ConversationsInv
<1>. SUFFICES ASSUME Mailing!Init PROVE Mailing!ConversationsInv
  OBVIOUS
<1>1. v5 = [load |-> "loading", rows |-> << >>, next |-> None] /\ v4 = None
  BY DEF Mailing!Init
<1>2. Mailing!TypeOK
  <2>1. << >> \in Seq(Mailing!Entry) /\ v7 \in 0 .. MailingMaxChanges
    BY MailingAssumption DEF Mailing!Init
  <2>. QED BY <1>1, <2>1 DEF Mailing!TypeOK, Mailing!Init
<1>3. Mailing!LoadedToCursor
  BY <1>1 DEF Mailing!LoadedToCursor
<1>4. Mailing!NewerStandBefore
  <2>1. DOMAIN v5.rows = {}
    BY <1>1
  <2>. QED BY <2>1 DEF Mailing!NewerStandBefore
<1>5. Mailing!PageIsNext
  BY <1>1 DEF Mailing!PageIsNext
<1>6. Mailing!OnePerUid(v1)
  BY DEF Mailing!Init
<1>. QED BY <1>2, <1>3, <1>4, <1>5, <1>6 DEF Mailing!ConversationsInv

\* The page asked for.
LEMMA AskKeepsMail ==
  ASSUME Mailing!ConversationsInv, Mailing!AskPage PROVE Mailing!ConversationsInv'
<1> DEFINE S == {e \in Mailing!Entries : Mailing!IsRepresentative(e) /\ Mailing!Below(e, v5.next)}
           reps == Mailing!FirstOf(S)
           next == Mailing!NextCursor(reps)
<1>1. /\ v4' = [reps |-> reps] /\ (v5.load = "ready" => v5.next # None)
      /\ UNCHANGED <<v1, v2, v3, v5, v6, v7>>
  BY DEF Mailing!AskPage, Mailing!Representatives
<1>2. /\ Mailing!Entries \in SUBSET Mailing!Entry /\ OneEach(Mailing!Entries)
      /\ Mailing!TypeOK /\ Mailing!OnePerUid(v1)
  BY EntriesAre DEF Mailing!ConversationsInv
<1>3. S \in SUBSET Mailing!Entry /\ OneEach(S)
  BY <1>2 DEF OneEach
<1> HIDE DEF S
<1>4. /\ reps \in Seq(S)
      /\ \A e \in S : (\E i \in DOMAIN reps : reps[i] = e) <=> (next = None \/ e.id >= next)
      /\ next # None => \E e \in S : next = e.id
  BY <1>3, FirstAre
<1> HIDE DEF reps, next
<1>5. reps \in Seq(Mailing!Entry) /\ \A i \in DOMAIN reps : reps[i] \in S
  BY <1>3, <1>4
<1>6. Mailing!TypeOK'
  BY <1>1, <1>2, <1>5 DEF Mailing!TypeOK
<1>7. Mailing!Steady' = Mailing!Steady
  BY <1>1 DEF Mailing!Steady, Mailing!Entries, Mailing!IsRepresentative, Mailing!Rival,
             Mailing!Listed, Mailing!Doubled
<1>8. Mailing!LoadedToCursor'
  <2>1. \A key : Mailing!Whole(key)' = Mailing!Whole(key)
    BY <1>1 DEF Mailing!Whole, Mailing!Entries, Mailing!IsMember, Mailing!Listed
  <2>. QED BY <1>1, <1>7, <2>1 DEF Mailing!LoadedToCursor, Mailing!ConversationsInv
<1>9. Mailing!NewerStandBefore'
  <2>1. \A e : Mailing!IsFolderMember(e)' = Mailing!IsFolderMember(e)
    BY <1>1 DEF Mailing!IsFolderMember
  <2>. QED BY <1>1, <1>7, <2>1 DEF Mailing!NewerStandBefore, Mailing!ConversationsInv
<1>10. next # None /\ v5.next # None => next < v5.next
  BY <1>4 DEF S, Mailing!Below
<1>11. ASSUME NEW e \in Mailing!Steady
       PROVE  (\E i \in DOMAIN reps : Mailing!Key(reps[i]) = Mailing!Key(e))
              <=> Mailing!Below(e, v5.next) /\ (next = None \/ e.id >= next)
  <2>1. /\ e \in Mailing!Entries /\ Mailing!IsRepresentative(e)
        /\ ~Mailing!Doubled(Mailing!Key(e))
    BY DEF Mailing!Steady
  <2>2. Mailing!Below(e, v5.next) => e \in S
    BY <2>1 DEF S
  <2>3. ASSUME NEW i \in DOMAIN reps, Mailing!Key(reps[i]) = Mailing!Key(e)
        PROVE  e \in S /\ reps[i] = e
    <3>1. reps[i] \in S
      BY <1>5
    <3>2. Represents(reps[i], Mailing!Key(e)) /\ Represents(e, Mailing!Key(e))
      BY <2>1, <2>3, <3>1 DEF Represents, S
    <3>3. reps[i] = e
      BY <1>2, <2>1, <3>2, OneRepresentative
    <3>. QED BY <3>1, <3>3
  <2>4. e \in S => Mailing!Below(e, v5.next)
    BY DEF S
  <2>. QED BY <1>4, <2>2, <2>3, <2>4
<1>12. Mailing!PageIsNext'
  <2>1. v4'.reps = reps /\ v5' = v5
    BY <1>1
  <2>2. \A e : Mailing!Below(e, v5.next)' = Mailing!Below(e, v5.next)
    BY <2>1 DEF Mailing!Below
  <2>3. Mailing!NextCursor(v4.reps)' = next
    BY <2>1 DEF next, Mailing!NextCursor
  <2>. QED BY <1>1, <1>7, <1>10, <1>11, <2>1, <2>2, <2>3 DEF Mailing!PageIsNext
<1>13. Mailing!OnePerUid(v1)'
  <2>1. Mailing!OnePerUid(v1')
    BY <1>1, <1>2
  <2>. QED BY <2>1 DEF Mailing!OnePerUid
<1>. QED BY <1>6, <1>8, <1>9, <1>12, <1>13 DEF Mailing!ConversationsInv

\* What a change leaves alone.
LEMMA ChangeLeaves ==
  ASSUME Mailing!TypeOK, Mailing!TypeOK',
         NEW i \in Mailing!Ids, NEW row \in Mailing!Row \union {None}, Mailing!Change(i, row)
  PROVE  /\ Mailing!Steady' \subseteq Mailing!Steady
         /\ \A e \in Mailing!Steady' :
              Mailing!Whole(Mailing!Key(e))' = Mailing!Whole(Mailing!Key(e))
<1> DEFINE of == IF row = None THEN v1[i] ELSE row
           entry == [id |-> i, row |-> of]
           hit == Mailing!Key(entry)
<1>1. /\ (v1[i] = None) # (row = None)
      /\ v6' = v6 \union {hit}
      /\ v1' = [v1 EXCEPT ![i] = row] /\ UNCHANGED <<v2, v3, v4, v5>>
  BY DEF Mailing!Change
<1>2. v1 \in [Mailing!Ids -> Mailing!Row \union {None}] /\ None \notin Mailing!Row
  BY MailingAssumption DEF Mailing!TypeOK
<1>3. ASSUME NEW e \in Mailing!Entry, Mailing!Key(e) # hit
      PROVE  v1'[e.id] = e.row <=> v1[e.id] = e.row
  <2>1. e.id \in Mailing!Ids /\ e.row \in Mailing!Row /\ e = [id |-> e.id, row |-> e.row]
    BY DEF Mailing!Entry
  <2>2. CASE e.id # i
    BY <1>1, <1>2, <2>1, <2>2
  <2>3. CASE e.id = i
    <3>1. v1'[i] = row
      BY <1>1, <1>2
    <3>2. e # entry
      BY <1>3
    <3>3. e.row # of
      BY <2>1, <2>3, <3>2
    <3>. QED BY <1>1, <1>2, <2>1, <2>3, <3>1, <3>3
  <2>. QED BY <2>2, <2>3
<1>4. /\ \A e \in Mailing!Entry : e \in Mailing!Entries <=> v1[e.id] = e.row
      /\ Mailing!Entries \subseteq Mailing!Entry
  BY EntriesAre
<1>5. /\ \A e \in Mailing!Entry : e \in Mailing!Entries' <=> v1'[e.id] = e.row
      /\ Mailing!Entries' \subseteq Mailing!Entry
  <2>1. v1' \in [Mailing!Ids -> Mailing!Row \union {None}]
    BY DEF Mailing!TypeOK
  <2>2. Mailing!Entries' = EntriesOf(v1')
    BY DEF EntriesOf, Mailing!Entries
  <2>. QED BY <2>1, <2>2, EntriesOfTable
<1> HIDE DEF hit
<1>6. \A e : Mailing!Key(e) # hit => (e \in Mailing!Entries' <=> e \in Mailing!Entries)
  BY <1>3, <1>4, <1>5
<1>7. \A e : /\ Mailing!Listed(e)' = Mailing!Listed(e)
             /\ Mailing!IsMember(e)' = Mailing!IsMember(e)
  BY <1>1 DEF Mailing!Listed, Mailing!IsMember
<1>8. ASSUME NEW e, Mailing!Key(e) # hit
      PROVE  Mailing!IsRepresentative(e)' = Mailing!IsRepresentative(e)
  BY <1>6, <1>7, <1>8 DEF Mailing!IsRepresentative, Mailing!Rival
<1>9. ASSUME NEW e \in Mailing!Steady' PROVE e \in Mailing!Steady /\ Mailing!Key(e) # hit
  <2>1. /\ e \in Mailing!Entries' /\ Mailing!IsRepresentative(e)' /\ Mailing!Key(e) \notin v6'
        /\ ~Mailing!Doubled(Mailing!Key(e))'
    BY DEF Mailing!Steady
  <2>2. Mailing!Key(e) # hit /\ Mailing!Key(e) \notin v6
    BY <1>1, <2>1
  <2>3. Mailing!Doubled(Mailing!Key(e))' <=> Mailing!Doubled(Mailing!Key(e))
    <3> DEFINE key == Mailing!Key(e)
    <3>1. \A x : Mailing!Key(x) = key => (x \in Mailing!Entries' <=> x \in Mailing!Entries)
      BY <1>6, <2>2
    <3> HIDE DEF key
    <3>2. Mailing!Doubled(key)' <=> Mailing!Doubled(key)
      BY <1>1, <1>7, <3>1 DEF Mailing!Doubled
    <3>. QED BY <3>2 DEF key
  <2>. QED BY <1>6, <1>8, <2>1, <2>2, <2>3 DEF Mailing!Steady
<1>10. ASSUME NEW key, key # hit PROVE Mailing!Whole(key)' = Mailing!Whole(key)
  <2> DEFINE W == {e \in Mailing!Entries : Mailing!Key(e) = key /\ Mailing!IsMember(e)}
  <2>1. W' = W
    BY <1>6, <1>7, <1>10
  <2>2. Mailing!Whole(key) = Mailing!InOrder(W) /\ Mailing!Whole(key)' = Mailing!InOrder(W')
    BY DEF Mailing!Whole
  <2> HIDE DEF W
  <2>. QED BY <2>1, <2>2
<1>. QED BY <1>9, <1>10
LEMMA ChangeKeepsMail ==
  ASSUME Mailing!ConversationsInv, NEW i \in Mailing!Ids, NEW row \in Mailing!Row \union {None},
         Mailing!Change(i, row)
  PROVE  Mailing!ConversationsInv'
<1>1. /\ v7 < MailingMaxChanges /\ v7' = v7 + 1
      /\ v1' = [v1 EXCEPT ![i] = row] /\ UNCHANGED <<v2, v3, v4, v5>>
  BY DEF Mailing!Change
<1>2. Mailing!TypeOK
  BY DEF Mailing!ConversationsInv
<1>3. Mailing!TypeOK'
  <2>1. v7' \in 0 .. MailingMaxChanges
    BY <1>1, <1>2, MailingAssumption DEF Mailing!TypeOK
  <2>2. v1' \in [Mailing!Ids -> Mailing!Row \union {None}]
    BY <1>1, <1>2 DEF Mailing!TypeOK
  <2>. QED BY <1>1, <1>2, <2>1, <2>2 DEF Mailing!TypeOK
<1>4. /\ Mailing!Steady' \subseteq Mailing!Steady
      /\ \A e \in Mailing!Steady' :
           Mailing!Whole(Mailing!Key(e))' = Mailing!Whole(Mailing!Key(e))
  BY <1>2, <1>3, ChangeLeaves
<1>5. Mailing!LoadedToCursor'
  BY <1>1, <1>4 DEF Mailing!LoadedToCursor, Mailing!ConversationsInv
<1>6. Mailing!NewerStandBefore'
  <2>1. \A e : Mailing!IsFolderMember(e)' = Mailing!IsFolderMember(e)
    BY <1>1 DEF Mailing!IsFolderMember
  <2>. QED BY <1>1, <1>4, <2>1 DEF Mailing!NewerStandBefore, Mailing!ConversationsInv
<1>7. Mailing!PageIsNext'
  <2>1. \A e : Mailing!Below(e, v5.next)' = Mailing!Below(e, v5.next)
    BY <1>1 DEF Mailing!Below
  <2>2. Mailing!NextCursor(v4.reps)' = Mailing!NextCursor(v4.reps)
    BY <1>1 DEF Mailing!NextCursor
  <2>. QED BY <1>1, <1>4, <2>1, <2>2 DEF Mailing!PageIsNext, Mailing!ConversationsInv
<1>8. Mailing!OnePerUid(v1)'
  BY DEF Mailing!Change, Mailing!OnePerUid
<1>. QED BY <1>3, <1>5, <1>6, <1>7, <1>8 DEF Mailing!ConversationsInv

\* The page answered: its messages are those of the conversations asked for.
Asked(e) == \E i \in DOMAIN v4.reps : Mailing!Key(v4.reps[i]) = Mailing!Key(e)
Answered == {e \in Mailing!Entries : Mailing!IsMember(e) /\ Asked(e)}
LEMMA AnswerIs ==
  ASSUME Mailing!TypeOK
  PROVE  /\ Mailing!InOrder(Answered) \in Seq(Mailing!Entry)
         /\ Elements(Mailing!InOrder(Answered)) = Answered
         /\ Descends(Mailing!InOrder(Answered))
         /\ \A e : Mailing!MembersOf(Mailing!InOrder(Answered), Mailing!Key(e)) =
                     IF Asked(e) THEN Mailing!Whole(Mailing!Key(e)) ELSE << >>
<1> DEFINE S == Answered
           m == Mailing!InOrder(S)
<1>1. S \in SUBSET Mailing!Entry /\ OneEach(S)
  BY EntriesAre DEF Answered, OneEach
<1>2. S = {e \in Mailing!Entries : Mailing!IsMember(e) /\ Asked(e)}
  BY DEF Answered
<1> HIDE DEF S
<1>3. m \in Seq(S) /\ Elements(m) = S /\ Descends(m)
  BY <1>1, OrderIsSorted
<1>4. ASSUME NEW e
      PROVE  Mailing!MembersOf(m, Mailing!Key(e)) =
               IF Asked(e) THEN Mailing!Whole(Mailing!Key(e)) ELSE << >>
  <2> DEFINE key == Mailing!Key(e)
             T == OfKey(S, key)
  <2>1. Mailing!MembersOf(m, key) = Mailing!InOrder(T)
    BY <1>1, MembersInOrder
  <2>2. CASE Asked(e)
    <3>1. T = {d \in Mailing!Entries : Mailing!Key(d) = key /\ Mailing!IsMember(d)}
      BY <1>2, <2>2 DEF OfKey, Asked
    <3>. QED BY <2>1, <2>2, <3>1 DEF Mailing!Whole
  <2>3. CASE ~Asked(e)
    <3>1. T = {}
      BY <1>2, <2>3 DEF OfKey, Asked
    <3> DEFINE none == << >>
               t == Mailing!InOrder(T)
    <3>2. t \in Seq({})
      <4>1. T \in SUBSET Mailing!Entry /\ OneEach(T)
        BY <3>1 DEF OneEach
      <4>. QED BY <3>1, <4>1, OrderIsSorted
    <3> HIDE DEF t
    <3>3. t = none
      BY <3>2
    <3>4. Mailing!MembersOf(m, key) = none
      BY <2>1, <3>3 DEF t
    <3>. QED BY <2>3, <3>4
  <2>. QED BY <2>2, <2>3
<1> HIDE DEF m
<1>5. m \in Seq(Mailing!Entry)
  BY <1>1, <1>3
<1>6. /\ m \in Seq(Mailing!Entry) /\ Elements(m) = S /\ Descends(m)
      /\ \A e : Mailing!MembersOf(m, Mailing!Key(e)) =
                  IF Asked(e) THEN Mailing!Whole(Mailing!Key(e)) ELSE << >>
  BY <1>3, <1>4, <1>5
<1>. QED BY <1>6 DEF m, S

\* A page more leaves no gap,
LEMMA AnswerLoads ==
  ASSUME Mailing!ConversationsInv, Mailing!AnswerPage PROVE Mailing!LoadedToCursor'
<1> DEFINE E == Mailing!Entry
           m == Mailing!InOrder(Answered)
           rows == v5.rows
           next == Mailing!NextCursor(v4.reps)
           Whole(e) == Mailing!Whole(Mailing!Key(e))
           Of(s, e) == Mailing!MembersOf(s, Mailing!Key(e))
<1>1. /\ v4 # None /\ UNCHANGED <<v1, v2, v3, v6, v7>>
      /\ v5' = [load |-> "ready", rows |-> rows \o m, next |-> next]
  BY DEF Mailing!AnswerPage, Mailing!Members, Answered, Asked
<1>2. Mailing!TypeOK
  BY DEF Mailing!ConversationsInv
<1>3. /\ m \in Seq(E)
      /\ \A e : Of(m, e) = IF Asked(e) THEN Whole(e) ELSE << >>
  BY <1>2, AnswerIs
<1>4. /\ rows \in Seq(E) /\ v5.load \in {"loading", "ready"}
      /\ v5.next \in Mailing!Ids \union {None} /\ v4.reps \in Seq(E)
  BY <1>1, <1>2 DEF Mailing!TypeOK
<1>5. next \in Mailing!Ids \union {None}
  BY <1>4, CursorIs
<1>6. \A e \in Mailing!Steady : e.id \in Mailing!Ids
  BY <1>2, EntriesAre DEF Mailing!Steady, Mailing!Entry
<1>7. Mailing!Ids \subseteq Int /\ None \notin Mailing!Ids
  BY MailingAssumption DEF Mailing!Ids
<1>8. /\ v5.load = "ready" => v5.next # None
      /\ next # None /\ v5.next # None => next < v5.next
      /\ \A e \in Mailing!Steady :
           Asked(e) <=> Mailing!Below(e, v5.next) /\ (next = None \/ e.id >= next)
  BY <1>1 DEF Mailing!ConversationsInv, Mailing!PageIsNext, Asked
<1> HIDE DEF m, rows, next
<1>9. ASSUME NEW e \in Mailing!Steady
      PROVE  Of(rows \o m, e) = IF next # None /\ e.id < next THEN << >> ELSE Whole(e)
  <2> DEFINE had == Of(rows, e)
             new == Of(m, e)
             whole == Whole(e)
             none == << >>
             i == e.id
             old == v5.next
  <2>1. Of(rows \o m, e) = had \o new
    BY <1>3, <1>4, MembersOfBoth
  <2>2. had \in Seq(E) /\ new \in Seq(E)
    BY <1>3, <1>4, MembersAre
  <2>3. new = IF Asked(e) THEN whole ELSE none
    BY <1>3
  <2>4. i \in Mailing!Ids
    BY <1>6
  <2>5. /\ Asked(e) <=> (old = None \/ i < old) /\ (next = None \/ i >= next)
        /\ next # None /\ old # None => next < old
    BY <1>8 DEF Mailing!Below
  <2>6. none \in Seq(E) /\ had \o none = had /\ none \o new = new
    BY <2>2
  <2>7. CASE v5.load = "loading"
    <3>1. had = none
      BY <2>7, MembersOfNone DEF Mailing!ConversationsInv, Mailing!LoadedToCursor, rows
    <3>2. old = None
      BY <2>7 DEF Mailing!ConversationsInv, Mailing!LoadedToCursor
    <3>3. Of(rows \o m, e) = new
      BY <2>1, <2>6, <3>1
    <3> HIDE DEF had, new, whole, i, old, none, Of
    <3>4. new = IF next # None /\ i < next THEN none ELSE whole
      BY <1>5, <1>7, <2>3, <2>4, <2>5, <3>2
    <3>. QED BY <3>3, <3>4 DEF whole, none, i
  <2>8. CASE v5.load = "ready"
    <3>1. had = IF old # None /\ i < old THEN none ELSE whole
      BY <2>8 DEF Mailing!ConversationsInv, Mailing!LoadedToCursor, rows
    <3>2. old # None
      BY <1>8, <2>8
    <3> HIDE DEF had, new, whole, i, old, none, Of
    <3>3. CASE i < old
      <4>1. Of(rows \o m, e) = new
        BY <2>1, <2>6, <3>1, <3>2, <3>3
      <4>2. new = IF next # None /\ i < next THEN none ELSE whole
        BY <1>5, <1>7, <2>3, <2>4, <2>5, <3>3
      <4>. QED BY <4>1, <4>2 DEF whole, none, i
    <3>4. CASE ~(i < old)
      <4>1. old \in Mailing!Ids
        BY <1>4, <3>2 DEF old
      <4>2. new = none /\ ~(next # None /\ i < next)
        BY <1>5, <1>7, <2>3, <2>4, <2>5, <3>2, <3>4, <4>1
      <4>3. Of(rows \o m, e) = whole
        BY <2>1, <2>6, <3>1, <3>4, <4>2
      <4>. QED BY <4>2, <4>3 DEF whole, i
    <3>. QED BY <3>3, <3>4
  <2>. QED BY <1>4, <2>7, <2>8
<1>10. Mailing!Steady' = Mailing!Steady
  BY <1>1 DEF Mailing!Steady, Mailing!Entries, Mailing!IsRepresentative, Mailing!Rival,
             Mailing!Listed, Mailing!Doubled
<1>11. \A key : Mailing!Whole(key)' = Mailing!Whole(key)
  BY <1>1 DEF Mailing!Whole, Mailing!Entries, Mailing!IsMember, Mailing!Listed
<1>12. v5'.load = "ready" /\ v5'.rows = rows \o m /\ v5'.next = next
  BY <1>1
<1>13. \A s, key : Mailing!MembersOf(s, key)' = Mailing!MembersOf(s, key)
  OBVIOUS
<1>. QED BY <1>9, <1>10, <1>11, <1>12, <1>13 DEF Mailing!LoadedToCursor

\* and keeps the newer before the older,
LEMMA MembersAreListed ==
  ASSUME NEW e PROVE /\ Mailing!Listed(e) => Mailing!IsFolderMember(e) /\ Mailing!IsMember(e)
                     /\ Mailing!IsFolderMember(e) /\ Mailing!IsMember(e) => Mailing!Listed(e)
BY DEF Mailing!Listed, Mailing!IsFolderMember, Mailing!IsMember
LEMMA AnswerOrders ==
  ASSUME Mailing!ConversationsInv, Mailing!AnswerPage PROVE Mailing!NewerStandBefore'
<1> DEFINE E == Mailing!Entry
           m == Mailing!InOrder(Answered)
           rows == v5.rows
           all2 == rows \o m
           K == Len(rows)
           J == Len(m)
<1>1. /\ v4 # None /\ UNCHANGED <<v1, v2, v3, v6, v7>> /\ v5'.rows = all2
  BY DEF Mailing!AnswerPage, Mailing!Members, Answered, Asked
<1>2. Mailing!TypeOK
  BY DEF Mailing!ConversationsInv
<1>3. m \in Seq(E) /\ Elements(m) = Answered /\ Descends(m)
  BY <1>2, AnswerIs
<1>4. rows \in Seq(E)
  BY <1>2 DEF Mailing!TypeOK
<1> HIDE DEF m, rows, E
<1>5. /\ K \in Nat /\ J \in Nat /\ DOMAIN rows = 1 .. K /\ DOMAIN all2 = 1 .. K + J
      /\ \A i \in 1 .. K : all2[i] = rows[i]
      /\ \A i \in K + 1 .. K + J : all2[i] = m[i - K]
  BY <1>3, <1>4
<1>6. \A i \in 1 .. J : m[i] \in Answered
  BY <1>3 DEF Elements
<1>7. \A i, j \in 1 .. J : i < j => m[i].id > m[j].id
  BY <1>3 DEF Descends
<1> HIDE DEF all2, K, J
<1>8. \A e \in Mailing!Entries : e.id \in Nat
  BY <1>2, EntriesAre, MailingAssumption DEF Mailing!Entry, Mailing!Ids
<1>9. ASSUME NEW p \in 1 .. K + J, NEW q \in 1 .. K + J,
             NEW d \in Mailing!Steady, NEW e \in Mailing!Steady,
             Mailing!Key(all2[p]) = Mailing!Key(d), Mailing!IsFolderMember(all2[p]),
             all2[q] = e, d.id < e.id
      PROVE  q < p
  <2>1. d \in Mailing!Entries /\ e \in Mailing!Entries /\ Mailing!IsRepresentative(d)
    BY DEF Mailing!Steady
  <2>2. d.id \in Nat /\ e.id \in Nat
    BY <1>8, <2>1
  <2>3. CASE p \in 1 .. K /\ q \in 1 .. K
    <3>1. all2[p] = rows[p] /\ all2[q] = rows[q]
      BY <1>5, <2>3
    <3>. QED BY <1>5, <1>9, <2>3, <3>1
             DEF Mailing!ConversationsInv, Mailing!NewerStandBefore, rows
  <2>4. CASE p \in K + 1 .. K + J /\ q \in 1 .. K
    BY <1>5, <2>4
  <2>5. CASE p \in 1 .. K /\ q \in K + 1 .. K + J
    <3> DEFINE old == v5.next
               dk == Mailing!Key(d)
    <3>1. rows[p] = all2[p]
      BY <1>5, <2>5
    <3>2. Mailing!MembersOf(rows, dk) # << >>
      <4> DEFINE u == Mailing!MembersOf(rows, dk)
      <4>1. Elements(u) = {x \in Elements(rows) : Mailing!Key(x) = dk}
        BY <1>4, MembersAre
      <4>2. rows[p] \in Elements(rows)
        BY <2>5 DEF Elements, K
      <4>3. rows[p] \in Elements(u)
        BY <1>9, <3>1, <4>1, <4>2
      <4>4. Elements(<< >>) = {}
        BY DEF Elements
      <4>. QED BY <4>3, <4>4
    <3>3. rows # << >>
      BY <2>5, <1>5
    <3>4. v5.load = "ready"
      BY <1>2, <3>3 DEF Mailing!ConversationsInv, Mailing!LoadedToCursor, rows, Mailing!TypeOK
    <3>5. old # None /\ old \in Mailing!Ids
      BY <1>1, <1>2, <3>4 DEF Mailing!ConversationsInv, Mailing!PageIsNext, Mailing!TypeOK
    <3>6. ~(d.id < old)
      BY <3>2, <3>4, <3>5 DEF Mailing!ConversationsInv, Mailing!LoadedToCursor, rows
    <3>7. Asked(e)
      <4>1. q - K \in 1 .. J /\ all2[q] = m[q - K]
        BY <1>5, <2>5
      <4>. QED BY <1>6, <1>9, <4>1 DEF Answered
    <3>8. e.id < old
      BY <1>1, <3>5, <3>7
         DEF Mailing!ConversationsInv, Mailing!PageIsNext, Mailing!Below, Asked
    <3>9. old \in Int
      BY <3>5, MailingAssumption DEF Mailing!Ids
    <3> HIDE DEF old
    <3>. QED BY <1>9, <2>2, <3>6, <3>8, <3>9
  <2>6. CASE p \in K + 1 .. K + J /\ q \in K + 1 .. K + J
    <3> DEFINE i == p - K
               j == q - K
               s == m[i]
    <3>1. i \in 1 .. J /\ j \in 1 .. J /\ all2[p] = m[i] /\ all2[q] = m[j]
      BY <1>5, <2>6
    <3>2. s \in Mailing!Entries /\ Mailing!IsMember(s)
      BY <1>6, <3>1 DEF Answered
    <3>3. Mailing!Listed(s) /\ Mailing!Key(s) = Mailing!Key(d)
      BY <1>9, <3>1, <3>2, MembersAreListed
    <3>4. ~(s.id > d.id) /\ s.id \in Nat
      <4>1. CASE ~Mailing!Unthreaded(d)
        BY <1>8, <2>1, <3>2, <3>3, <4>1 DEF Mailing!IsRepresentative, Mailing!Rival
      <4>2. CASE Mailing!Unthreaded(d)
        <5>1. Mailing!Unthreaded(s)
          BY <3>3, <4>2 DEF Mailing!Key, Mailing!Unthreaded
        <5>2. Represents(s, Mailing!Key(d)) /\ Represents(d, Mailing!Key(d))
          BY <2>1, <3>2, <3>3, <5>1
             DEF Represents, Mailing!IsRepresentative, Mailing!Rival
        <5>3. ~Mailing!Doubled(Mailing!Key(d)) /\ Mailing!OnePerUid(v1)
          BY DEF Mailing!Steady, Mailing!ConversationsInv
        <5>4. s = d
          BY <1>2, <5>2, <5>3, OneRepresentative
        <5>. QED BY <2>2, <5>4
      <4>. QED BY <4>1, <4>2
    <3>5. m[j] = e
      BY <1>9, <3>1
    <3> HIDE DEF s
    <3>6. s.id < e.id
      BY <1>9, <2>2, <3>4
    <3>7. i < j => s.id > e.id
      BY <1>7, <3>1, <3>5 DEF s
    <3>8. i = j => s.id = e.id
      BY <3>5 DEF s
    <3>9. ~(i < j) /\ i # j /\ i \in Int /\ j \in Int
      BY <2>2, <3>1, <3>4, <3>6, <3>7, <3>8
    <3>. QED BY <1>5, <3>9
  <2>. QED BY <1>5, <2>3, <2>4, <2>5, <2>6
<1>10. Mailing!Steady' = Mailing!Steady
  BY <1>1 DEF Mailing!Steady, Mailing!Entries, Mailing!IsRepresentative, Mailing!Rival,
             Mailing!Listed, Mailing!Doubled
<1>11. \A e : Mailing!IsFolderMember(e)' = Mailing!IsFolderMember(e)
  BY <1>1 DEF Mailing!IsFolderMember
<1>. QED BY <1>1, <1>5, <1>9, <1>10, <1>11 DEF Mailing!NewerStandBefore

LEMMA StepKeepsMail ==
  ASSUME Mailing!ConversationsInv, [Mailing!Next]_(Mailing!vars) PROVE Mailing!ConversationsInv'
<1>1. CASE Mailing!AskPage
  BY <1>1, AskKeepsMail
<1>2. CASE Mailing!AnswerPage
  <2> DEFINE E == Mailing!Entry
             m == Mailing!InOrder(Answered)
             rows == v5.rows
             next == Mailing!NextCursor(v4.reps)
  <2>1. /\ v4 # None /\ UNCHANGED <<v1, v2, v3, v6, v7>> /\ v4' = None
        /\ v5' = [load |-> "ready", rows |-> rows \o m, next |-> next]
    BY <1>2 DEF Mailing!AnswerPage, Mailing!Members, Answered, Asked
  <2>2. Mailing!TypeOK
    BY DEF Mailing!ConversationsInv
  <2>3. m \in Seq(E) /\ rows \in Seq(E) /\ v4.reps \in Seq(E)
    BY <2>1, <2>2, AnswerIs DEF Mailing!TypeOK
  <2>4. next \in Mailing!Ids \union {None}
    BY <2>3, CursorIs
  <2>5. rows \o m \in Seq(E)
    <3> HIDE DEF E, m, rows
    <3>. QED BY <2>3
  <2> HIDE DEF m, rows, next
  <2>6. Mailing!TypeOK' /\ Mailing!OnePerUid(v1)'
    <3>1. Mailing!TypeOK'
      BY <2>1, <2>2, <2>4, <2>5 DEF Mailing!TypeOK
    <3>2. Mailing!OnePerUid(v1)'
      BY <2>1 DEF Mailing!OnePerUid, Mailing!ConversationsInv
    <3>. QED BY <3>1, <3>2
  <2>7. Mailing!PageIsNext'
    BY <2>1 DEF Mailing!PageIsNext
  <2>8. Mailing!LoadedToCursor' /\ Mailing!NewerStandBefore'
    BY <1>2, AnswerLoads, AnswerOrders
  <2>. QED BY <2>6, <2>7, <2>8 DEF Mailing!ConversationsInv
<1>3. CASE \E i \in Mailing!Ids, row \in Mailing!Row \union {None} : Mailing!Change(i, row)
  BY <1>3, ChangeKeepsMail
<1>4. CASE UNCHANGED Mailing!vars
  <2>1. UNCHANGED <<v1, v2, v3, v4, v5, v6, v7>>
    BY <1>4 DEF Mailing!vars
  <2>2. Mailing!Steady' = Mailing!Steady
    BY <2>1 DEF Mailing!Steady, Mailing!Entries, Mailing!IsRepresentative, Mailing!Rival,
               Mailing!Listed, Mailing!Doubled
  <2>3. \A key : Mailing!Whole(key)' = Mailing!Whole(key)
    BY <2>1 DEF Mailing!Whole, Mailing!Entries, Mailing!IsMember, Mailing!Listed
  <2>4. \A e : /\ Mailing!IsFolderMember(e)' = Mailing!IsFolderMember(e)
               /\ Mailing!Below(e, v5.next)' = Mailing!Below(e, v5.next)
    BY <2>1 DEF Mailing!IsFolderMember, Mailing!Below
  <2>5. Mailing!NextCursor(v4.reps)' = Mailing!NextCursor(v4.reps)
    BY <2>1 DEF Mailing!NextCursor
  <2>6. Mailing!TypeOK' /\ Mailing!OnePerUid(v1)'
    <3>1. Mailing!TypeOK'
      BY <2>1 DEF Mailing!ConversationsInv, Mailing!TypeOK
    <3>2. Mailing!OnePerUid(v1)'
      BY <2>1 DEF Mailing!OnePerUid, Mailing!ConversationsInv
    <3>. QED BY <3>1, <3>2
  <2>7. Mailing!LoadedToCursor'
    BY <2>1, <2>2, <2>3 DEF Mailing!ConversationsInv, Mailing!LoadedToCursor
  <2>8. Mailing!NewerStandBefore'
    BY <2>1, <2>2, <2>4 DEF Mailing!ConversationsInv, Mailing!NewerStandBefore
  <2>9. Mailing!PageIsNext'
    BY <2>1, <2>2, <2>4, <2>5 DEF Mailing!ConversationsInv, Mailing!PageIsNext
  <2>. QED BY <2>6, <2>7, <2>8, <2>9 DEF Mailing!ConversationsInv
<1>. QED BY <1>1, <1>2, <1>3, <1>4 DEF Mailing!Next

\* A conversation nothing happened to has a representative,
SteadyOne(e, key) == e \in Mailing!Steady /\ Represents(e, key) /\ Mailing!Listed(e)
LEMMA UntouchedHasOne ==
  ASSUME Mailing!TypeOK, NEW key \in Mailing!Untouched PROVE \E e : SteadyOne(e, key)
<1>1. PICK d \in Mailing!Entries : /\ Mailing!Listed(d) /\ Mailing!Key(d) = key /\ key \notin v6
                                  /\ ~Mailing!Doubled(key)
  BY DEF Mailing!Untouched
<1>2. PICK e : Represents(e, key)
  BY <1>1, RepresentativeExists
<1>3. SteadyOne(e, key)
  BY <1>1, <1>2 DEF SteadyOne, Represents, Mailing!Steady, Mailing!IsRepresentative
<1>. QED BY <1>3

\* so it is loaded whole and once, or not yet;
LEMMA MailIsWhole == Mailing!ConversationsInv => Mailing!WholeAndOnce
<1>. SUFFICES ASSUME Mailing!ConversationsInv, v5.load = "ready", NEW key \in Mailing!Untouched
              PROVE  \/ Mailing!MembersOf(v5.rows, key) = Mailing!Whole(key)
                     \/ Mailing!MembersOf(v5.rows, key) = << >> /\ v5.next # None
  BY DEF Mailing!WholeAndOnce
<1>1. PICK e : SteadyOne(e, key)
  BY UntouchedHasOne DEF Mailing!ConversationsInv
<1>2. e \in Mailing!Steady /\ Mailing!Key(e) = key
  BY <1>1 DEF SteadyOne, Represents
<1>. QED BY <1>2 DEF Mailing!ConversationsInv, Mailing!LoadedToCursor

\* and when a message of it is there its representative is.
LEMMA DrawnHasRepresentative ==
  ASSUME Mailing!ConversationsInv, NEW key \in Mailing!Untouched, NEW e, SteadyOne(e, key),
         NEW p \in 1 .. Len(v5.rows), Mailing!Key(v5.rows[p]) = key
  PROVE  \E q \in 1 .. Len(v5.rows) : v5.rows[q] = e /\ Shown(v5.rows, key, q)
<1> DEFINE E == Mailing!Entry
           rows == v5.rows
           u == Mailing!MembersOf(rows, key)
           W == {d \in Mailing!Entries : Mailing!Key(d) = key /\ Mailing!IsMember(d)}
           w == Mailing!InOrder(W)
<1>1. Mailing!TypeOK /\ rows \in Seq(E)
  BY DEF Mailing!ConversationsInv, Mailing!TypeOK
<1>2. rows[p] \in Elements(rows)
  BY DEF Elements
<1> HIDE DEF rows
<1>3. u \in Seq(E) /\ Elements(u) = {x \in Elements(rows) : Mailing!Key(x) = key}
  BY <1>1, MembersAre
<1>4. Mailing!Key(rows[p]) = key
  BY DEF rows
<1>5. u # << >>
  <2>1. rows[p] \in Elements(u)
    BY <1>2, <1>3, <1>4
  <2>2. Elements(<< >>) = {}
    BY DEF Elements
  <2>. QED BY <2>1, <2>2
<1>6. v5.load = "ready"
  <2>1. rows # << >>
    BY <1>5, MembersOfNone
  <2>. QED BY <1>1, <2>1
       DEF Mailing!ConversationsInv, Mailing!LoadedToCursor, rows, Mailing!TypeOK
<1>7. u = w
  BY <1>5, <1>6, MailIsWhole DEF Mailing!WholeAndOnce, Mailing!Whole, rows
<1>8. W \in SUBSET E /\ OneEach(W)
  BY <1>1, EntriesAre DEF OneEach
<1>9. e \in W /\ Mailing!IsFolderMember(e)
  BY MembersAreListed DEF SteadyOne, Represents
<1>10. Elements(w) = W
  BY <1>8, OrderIsSorted
<1>11. e \in Elements(rows)
  BY <1>3, <1>7, <1>9, <1>10
<1>12. PICK q \in 1 .. Len(rows) : rows[q] = e
  BY <1>11 DEF Elements
<1>13. Shown(rows, key, q)
  BY <1>9, <1>12 DEF Shown
<1>. QED BY <1>12, <1>13 DEF rows

LEMMA MailIsInOrder == Mailing!ConversationsInv => Mailing!DrawnInOrder
<1> DEFINE rows == v5.rows
           o == Mailing!Order(rows)
<1>. SUFFICES ASSUME Mailing!ConversationsInv, NEW i \in DOMAIN o, NEW j \in DOMAIN o, i < j,
                     o[i] \in Mailing!Untouched, o[j] \in Mailing!Untouched
              PROVE  Mailing!Newest(o[i]).id > Mailing!Newest(o[j]).id
  BY DEF Mailing!DrawnInOrder
<1> DEFINE c == o[i]
           d == o[j]
<1>1. Mailing!TypeOK /\ rows \in Seq(Mailing!Entry) /\ Mailing!OnePerUid(v1)
  BY DEF Mailing!ConversationsInv, Mailing!TypeOK
<1>2. OrderFits(rows, o)
  BY <1>1, OrderKeeps
<1> HIDE DEF o
<1>3. /\ i \in 1 .. Len(o) /\ j \in 1 .. Len(o) /\ Distinct(o)
      /\ Elements(o) = {Mailing!Key(rows[p]) : p \in 1 .. Len(rows)}
  BY <1>2 DEF OrderFits
<1>4. c # d
  BY <1>3 DEF Distinct
<1>5. /\ \E p \in 1 .. Len(rows) : Mailing!Key(rows[p]) = c
      /\ \E p \in 1 .. Len(rows) : Mailing!Key(rows[p]) = d
  <2>1. c \in Elements(o) /\ d \in Elements(o)
    BY <1>3 DEF Elements
  <2>. QED BY <1>3, <2>1
<1> HIDE DEF c, d
<1>6. c \in Mailing!Untouched /\ d \in Mailing!Untouched
  BY DEF c, d
<1>7. PICK x : SteadyOne(x, c)
  BY <1>1, <1>6, UntouchedHasOne
<1>8. PICK y : SteadyOne(y, d)
  BY <1>1, <1>6, UntouchedHasOne
<1>9. PICK P \in 1 .. Len(rows) : rows[P] = x /\ Shown(rows, c, P)
  BY <1>5, <1>6, <1>7, DrawnHasRepresentative
<1>10. PICK Q \in 1 .. Len(rows) : rows[Q] = y /\ Shown(rows, d, Q)
  BY <1>5, <1>6, <1>8, DrawnHasRepresentative
<1>11. PICK p \in 1 .. Len(rows) : Shown(rows, c, p) /\ \A q \in 1 .. p : ~Shown(rows, d, q)
  <2>1. HasShown(rows, o[i]) /\ HasShown(rows, o[j])
    BY <1>9, <1>10 DEF HasShown, c, d
  <2>2. Ahead(rows, c, d)
    BY <1>2, <1>3, <2>1 DEF OrderFits, c, d
  <2>. QED BY <2>2 DEF Ahead
<1>12. Mailing!Newest(c) = x /\ Mailing!Newest(d) = y
  <2>1. ASSUME NEW key, NEW z, SteadyOne(z, key) PROVE Mailing!Newest(key) = z
    <3>1. \A e : Represents(e, key) => e = z
      <4>1. ~Mailing!Doubled(key)
        BY <2>1 DEF SteadyOne, Represents, Mailing!Steady
      <4>. QED BY <1>1, <2>1, <4>1, OneRepresentative DEF SteadyOne
    <3>2. z \in Mailing!Entries /\ Mailing!Key(z) = key /\ Mailing!IsRepresentative(z)
      BY <2>1 DEF SteadyOne, Represents
    <3>. QED BY <3>1, <3>2 DEF Mailing!Newest, Represents
  <2>. QED BY <1>7, <1>8, <2>1
<1>13. /\ x \in Mailing!Steady /\ Mailing!Key(x) = c /\ x \in Mailing!Entries
       /\ y \in Mailing!Steady /\ Mailing!Key(y) = d /\ y \in Mailing!Entries
  BY <1>7, <1>8 DEF SteadyOne, Represents
<1>14. x.id \in Nat /\ y.id \in Nat
  BY <1>1, <1>13, EntriesAre, MailingAssumption DEF Mailing!Entry, Mailing!Ids
<1>15. x.id # y.id
  BY <1>1, <1>4, <1>13, EntriesAre DEF OneEach
<1>16. ~(x.id < y.id)
  <2>. SUFFICES ASSUME x.id < y.id PROVE FALSE
    OBVIOUS
  <2>1. p \in DOMAIN rows /\ Q \in DOMAIN rows
    BY <1>1
  <2>2. Mailing!Key(rows[p]) = Mailing!Key(x) /\ Mailing!IsFolderMember(rows[p])
    BY <1>11, <1>13 DEF Shown
  <2>3. Q < p
    BY <1>10, <1>13, <2>1, <2>2 DEF Mailing!ConversationsInv, Mailing!NewerStandBefore
  <2>4. Q \in 1 .. p
    BY <1>11, <2>3
  <2>. QED BY <1>10, <1>11, <2>4
<1>17. x.id > y.id
  BY <1>14, <1>15, <1>16
<1>. QED BY <1>12, <1>17 DEF c, d

LEMMA MailKeepsPromises ==
  Mailing!ConversationsInv => Mailing!WholeAndOnce /\ Mailing!DrawnInOrder
BY MailIsWhole, MailIsInOrder

-----------------------------------------------------------------------------
(* The parts together: a behaviour stays a behaviour of its part, so what   *)
(* each part keeps is an invariant of the whole.                            *)
PartsInv ==
  /\ TypeOK /\ CountIsExact
  /\ part = "moves" => Moves!MovesInv
  /\ part = "flags" => Overrides!OverridesInv
  /\ part = "gate" => Gate!GateInv
  /\ part = "bodies" => Bodies!FetchInv
  /\ part = "compose" => Composer!ComposeInv
  /\ part = "contract" => Contract!ContractInv
  /\ part = "feed" => Feed!FeedInv
  /\ part = "push" => Devices!PushInv
  /\ part = "notices" => Notices!NoticesInv
  /\ part = "desktop" => Shell!ShellInv
  /\ part = "tracking" => Beacon!BeaconInv
  /\ part = "pixel" => Pixel!PixelInv
  /\ part = "followup" => Reminders!FollowupInv
  /\ part = "list" => Mailing!ConversationsInv
  /\ part = "pages" => Pages!PagesInv
  /\ part = "waiting" => Waiting!ViewInv
  /\ part = "search" => Terms!SearchInv
  /\ part = "keys" => Shortcuts!KeysInv
  /\ part = "targets" => Targets!TypeOK
  /\ part = "send" => Copies!SendInv
  /\ part = "server" => Service!ServerInv
  /\ part = "session" => Session!SessionInv
  /\ part = "static" => Files!FilesInv
  /\ part = "folders" => Names!NamesInv

\* A behaviour starts as one of its part,
LEMMA OnePartStarts ==
  ASSUME PartsInit
  PROVE  /\ Init
         /\ part = "moves" => Moves!Init
         /\ part = "flags" => Overrides!Init
         /\ part = "gate" => Gate!Init
         /\ part = "bodies" => Bodies!Init
         /\ part = "compose" => Composer!Init
         /\ part = "contract" => Contract!Init
         /\ part = "feed" => Feed!Init
         /\ part = "push" => Devices!Init
         /\ part = "notices" => Notices!Init
         /\ part = "desktop" => Shell!Init
         /\ part = "tracking" => Beacon!Init
         /\ part = "pixel" => Pixel!Init
         /\ part = "followup" => Reminders!Init
         /\ part = "list" => Mailing!Init
         /\ part = "pages" => Pages!Init
         /\ part = "waiting" => Waiting!Init
         /\ part = "search" => Terms!Init
         /\ part = "keys" => Shortcuts!Init
         /\ part = "targets" => Targets!Init
         /\ part = "send" => Copies!Init
         /\ part = "server" => Service!Init
         /\ part = "session" => Session!Init
         /\ part = "static" => Files!Init
         /\ part = "folders" => Names!Init
  BY DEF PartsInit

\* and goes on as one.
LEMMA OnePartSteps ==
  ASSUME [PartsNext]_all
  PROVE  /\ part' = part
         /\ [Next]_vars
         /\ part = "moves" => [Moves!Next]_(Moves!vars)
         /\ part = "flags" => [Overrides!Next]_(Overrides!vars)
         /\ part = "gate" => [Gate!Next]_(Gate!vars)
         /\ part = "bodies" => [Bodies!Next]_(Bodies!vars)
         /\ part = "compose" => [Composer!Next]_(Composer!vars)
         /\ part = "contract" => [Contract!Next]_(Contract!vars)
         /\ part = "feed" => [Feed!Next]_(Feed!vars)
         /\ part = "push" => [Devices!Next]_(Devices!vars)
         /\ part = "notices" => [Notices!Next]_(Notices!vars)
         /\ part = "desktop" => [Shell!Next]_(Shell!vars)
         /\ part = "tracking" => [Beacon!Next]_(Beacon!vars)
         /\ part = "pixel" => [Pixel!Next]_(Pixel!vars)
         /\ part = "followup" => [Reminders!Next]_(Reminders!vars)
         /\ part = "list" => [Mailing!Next]_(Mailing!vars)
         /\ part = "pages" => [Pages!Next]_(Pages!vars)
         /\ part = "waiting" => [Waiting!Next]_(Waiting!vars)
         /\ part = "search" => [Terms!Next]_(Terms!vars)
         /\ part = "keys" => [Shortcuts!Next]_(Shortcuts!vars)
         /\ part = "targets" => [Targets!Next]_(Targets!vars)
         /\ part = "send" => [Copies!Next]_(Copies!vars)
         /\ part = "server" => [Service!Next]_(Service!vars)
         /\ part = "session" => [Session!Next]_(Session!vars)
         /\ part = "static" => [Files!Next]_(Files!vars)
         /\ part = "folders" => [Names!Next]_(Names!vars)
<1>1. CASE PartsNext
  BY <1>1
     DEF PartsNext, after0, after2, after3, after4, after5, after6, after7, after8,
         after10, after11, after12, after15
<1>2. CASE UNCHANGED all
  BY <1>2
     DEF all, Moves!vars, Moves!server, Moves!screen, Gate!vars, Bodies!vars, Composer!vars,
         Feed!vars, Devices!vars, Copies!vars, Service!vars, Session!vars, Files!vars,
         Overrides!vars, Contract!vars, Names!vars, Names!message, Names!server,
         Notices!vars, Notices!device, Shell!vars, Shell!mail, Shell!watch,
         Beacon!vars, Pixel!vars, Reminders!vars, Mailing!vars,
         Pages!vars, Pages!where, Pages!app, Waiting!vars, Terms!vars, Shortcuts!vars,
         Shortcuts!place, Targets!vars
<1>. QED
  BY <1>1, <1>2

\* Every step keeps the invariant, and does no more than its part may.
LEMMA StepKeepsParts ==
  ASSUME PartsInv, [PartsNext]_all
  PROVE  /\ PartsInv'
         /\ part = "moves" => Moves!AnswerKeepsReaderStep /\ Moves!SilentAfterUnmountStep
         /\ part = "gate" => Gate!AskedOnceStep
         /\ part = "bodies" => Bodies!GuessesDieStep
         /\ part = "compose" => Composer!LatestReplyStep
         /\ part = "push" => Devices!RowsOutliveNothingAliveStep
         /\ part = "session" => Session!FailuresKeptStep /\ Session!DataNeedsASignInStep
         /\ part = "static" => Files!ReloadIsCurrentStep
<1>1. part = "moves" => /\ Moves!MovesInv'
                        /\ Moves!AnswerKeepsReaderStep /\ Moves!SilentAfterUnmountStep
  BY OnePartSteps, StepKeepsMoves, LateMovesLeaveReader, NothingIsSentAfterwards DEF PartsInv
<1>2. part = "gate" => Gate!GateInv' /\ Gate!AskedOnceStep
  BY OnePartSteps, StepKeepsGate, GateAsksOnce DEF PartsInv
<1>3. part = "bodies" => Bodies!FetchInv' /\ Bodies!GuessesDieStep
  BY OnePartSteps, StepKeepsFetch, AbortedGuessesDie DEF PartsInv
<1>4. part = "compose" => Composer!ComposeInv' /\ Composer!LatestReplyStep
  BY OnePartSteps, StepKeepsCompose, LateRepliesDie DEF PartsInv
<1>5. part = "feed" => Feed!FeedInv'
  BY OnePartSteps, StepKeepsFeed DEF PartsInv
<1>6. part = "push" => Devices!PushInv' /\ Devices!RowsOutliveNothingAliveStep
  BY OnePartSteps, StepKeepsPush DEF PartsInv
<1>7. part = "send" => Copies!SendInv'
  BY OnePartSteps, StepKeepsSend DEF PartsInv
<1>8. part = "server" => Service!ServerInv'
  BY OnePartSteps, StepKeepsServer DEF PartsInv
<1>9. part = "session" => /\ Session!SessionInv'
                          /\ Session!FailuresKeptStep /\ Session!DataNeedsASignInStep
  BY OnePartSteps, StepKeepsSession DEF PartsInv
<1>10. part = "static" => Files!FilesInv' /\ Files!ReloadIsCurrentStep
  BY OnePartSteps, StepKeepsFiles DEF PartsInv
<1>13. part = "flags" => Overrides!OverridesInv'
  BY OnePartSteps, StepKeepsOverrides DEF PartsInv
<1>14. part = "contract" => Contract!ContractInv'
  BY OnePartSteps, StepKeepsContract DEF PartsInv
<1>15. part = "folders" => Names!NamesInv'
  BY OnePartSteps, StepKeepsNames DEF PartsInv
<1>16. part = "notices" => Notices!NoticesInv'
  BY OnePartSteps, StepKeepsNotices DEF PartsInv
<1>17. part = "desktop" => Shell!ShellInv'
  BY OnePartSteps, StepKeepsShell DEF PartsInv
<1>18. part = "tracking" => Beacon!BeaconInv'
  BY OnePartSteps, StepKeepsBeacon DEF PartsInv
<1>19. part = "pixel" => Pixel!PixelInv'
  BY OnePartSteps, StepKeepsPixel DEF PartsInv
<1>20. part = "followup" => Reminders!FollowupInv'
  BY OnePartSteps, StepKeepsFollowup DEF PartsInv
<1>21. part = "pages" => Pages!PagesInv'
  BY OnePartSteps, StepKeepsPages DEF PartsInv
<1>22. part = "waiting" => Waiting!ViewInv'
  BY OnePartSteps, StepKeepsView DEF PartsInv
<1>23. part = "search" => Terms!SearchInv'
  BY OnePartSteps, StepKeepsSearch DEF PartsInv
<1>24. part = "keys" => Shortcuts!KeysInv'
  BY OnePartSteps, StepKeepsKeys DEF PartsInv
<1>25. part = "targets" => Targets!TypeOK'
  BY OnePartSteps, StepKeepsTargets DEF PartsInv
<1>26. TypeOK' /\ CountIsExact'
  BY OnePartSteps, StepKeepsCache DEF PartsInv
<1>27. part = "list" => Mailing!ConversationsInv'
  BY OnePartSteps, StepKeepsMail DEF PartsInv
<1>11. part' = part
  BY OnePartSteps
<1>12. PartsInv'
  BY <1>1, <1>2, <1>3, <1>4, <1>5, <1>6, <1>7, <1>8, <1>9, <1>10, <1>11, <1>13,
     <1>14, <1>15, <1>16, <1>17, <1>18, <1>19,
     <1>20, <1>21, <1>22, <1>23, <1>24, <1>25, <1>26, <1>27 DEF PartsInv
<1>. QED
  BY <1>1, <1>2, <1>3, <1>4, <1>6, <1>9, <1>10, <1>12

(* Every part keeps its inductive invariant, for every size of the part     *)
(* that its assumption allows: of the client the moves and their undo, the  *)
(* flags, the sign-in, the guesses and the reader's body, the composer, what*)
(* it sends and the feed of opens; the push subscriptions, the notices and  *)
(* the desktop shell; of the service the names of the folders, the tracked  *)
(* sends and their limiter, the start and stop, the session route and the   *)
(* static files; the tracking service, the pixel of a mail that is sent, and*)
(* the answer of the follow-ups; the cache of bodies, the pages of the list *)
(* and of its conversations, the follow-ups shown, the search terms, the    *)
(* keys and what an open opens.                                             *)
THEOREM PartsInvariant == PartsSpec => []PartsInv
<1>1. ASSUME PartsInit PROVE PartsInv
  BY <1>1, OnePartStarts, MovesInit, GateInit, FetchInit, ComposeInit, FeedInit, PushInit,
     SendInit, ServerInit, SessionInit, FilesInit, OverridesInit, ContractInit, NamesInit,
     NoticesInit, ShellInit, BeaconInit, PixelInit, FollowupInit, CacheInit, PagesInit,
     ViewInit, SearchInit, KeysInit, TargetsInit, MailInit DEF PartsInv
<1>2. PartsInv /\ [PartsNext]_all => PartsInv'
  BY StepKeepsParts
<1>. QED
  BY <1>1, <1>2, PTL DEF PartsSpec

(* Whoever waits has something coming: a login its attempt, a guess a slot  *)
(* that will be freed, a reader its request, a mounted feed its one poll or *)
(* timer.  (useSessionGate, messagePrefetch, useOpensFeed)                  *)
THEOREM WaitersAreServed == PartsSpec => []NobodyWaitsInVain
<1>1. PartsInv => NobodyWaitsInVain
  BY DEF PartsInv, NobodyWaitsInVain, Gate!GateInv, Bodies!FetchInv, Feed!FeedInv
<1>. QED
  BY <1>1, PartsInvariant, PTL

(* A listening service has the primary account of its file, its database is *)
(* closed after everything that uses it, and a page gets its own script or  *)
(* a plain 404.  (index.ts, createShutdown, serveStatic)                    *)
THEOREM ServiceHolds == PartsSpec => []ServiceIsWhole
<1>1. PartsInv => ServiceIsWhole
  BY ServerKeepsPromises DEF PartsInv, ServiceIsWhole, Files!FilesInv
<1>. QED
  BY <1>1, PartsInvariant, PTL

(* Every copy carries its recipient's token, every recipient is in the      *)
(* answer, and a request answered as refused sent nothing.  (sendTracked)   *)
THEOREM SendsHold == PartsSpec => []SendsAreAccounted
<1>1. PartsInv => SendsAreAccounted
  BY AccountHolds DEF PartsInv, SendsAreAccounted, Copies!SendInv
<1>. QED
  BY <1>1, PartsInvariant, PTL

(* Over any window at most twice the budget of sends is admitted, who waits *)
(* as long as told is admitted, and sign-ins fail little more often than    *)
(* the limit.  (createRateLimiter, the session route)                       *)
THEOREM LimitersHold == PartsSpec => []LimitsHold
<1>1. PartsInv => LimitsHold
  BY LimiterHolds, SessionIsBounded DEF PartsInv, LimitsHold
<1>. QED
  BY <1>1, PartsInvariant, PTL

(* Nothing is given up or kept against its time: a subscription goes only   *)
(* when its endpoint has, failures only with their window; data needs a     *)
(* cookie of this token and in time, and a reload shows the last deploy.    *)
THEOREM NothingIsHasty == PartsSpec => NothingGoesTooSoon
<1>1. PartsInv /\ [PartsNext]_all =>
        [ /\ part = "push" => Devices!RowsOutliveNothingAliveStep
          /\ part = "session" =>
               /\ Session!FailuresKeptStep
               /\ Session!DataNeedsASignInStep
          /\ part = "static" => Files!ReloadIsCurrentStep ]_all
  BY StepKeepsParts
<1>. QED
  BY <1>1, PartsInvariant, PTL DEF PartsSpec, NothingGoesTooSoon

(* An answer that comes late disturbs nothing: it closes no other reader,   *)
(* sends nothing after the unmount, stores no cancelled guess, opens no     *)
(* older reply and asks for no second sign-in.  (App.tsx, bulkRunner,       *)
(* messagePrefetch, startReply, useSessionGate)                             *)
THEOREM LateAnswersDie == PartsSpec => LateAnswersAreDropped
<1>1. PartsInv /\ [PartsNext]_all =>
        [ /\ part = "moves" =>
               /\ Moves!AnswerKeepsReaderStep
               /\ Moves!SilentAfterUnmountStep
          /\ part = "bodies" => Bodies!GuessesDieStep
          /\ part = "compose" => Composer!LatestReplyStep
          /\ part = "gate" => Gate!AskedOnceStep ]_all
  BY StepKeepsParts
<1>. QED
  BY <1>1, PartsInvariant, PTL DEF PartsSpec, LateAnswersAreDropped

(* What the client shows before the server has agreed is paid back: no      *)
(* failure leaves a message hidden, an undo names only what was moved and   *)
(* ticketed, the bar speaks of the last batch, a flag shown over the list   *)
(* is one the server took, and an undo puts a message back where it was or  *)
(* is refused.  (useBulkSelection, mailboxActions, useFlagOverrides,        *)
(* folders.ts)                                                              *)
THEOREM OptimismHolds == PartsSpec => []OptimismIsPaidBack
<1>1. PartsInv => OptimismIsPaidBack
  BY MovesKeepPromises, OverridesKeepPromises, NamesKeepPromises
     DEF PartsInv, OptimismIsPaidBack
<1>. QED
  BY <1>1, PartsInvariant, PTL

(* A composer that says it is sending has one send under way, "not sent" is *)
(* said only when no copy went out, and what was written in answer to one   *)
(* message is sent in answer to it; what it lets through the route takes    *)
(* but for an over-long id, its chain keeps its ends, and its warning of    *)
(* lost tracking is true.  (Compose.tsx, describeSendFailure, replyDraft.ts,*)
(* parseSendBody)                                                           *)
THEOREM DraftsHold == PartsSpec => []DraftsAreSafe
<1>1. PartsInv => DraftsAreSafe
  BY ContractKeepsPromises DEF PartsInv, DraftsAreSafe, Composer!ComposeInv
<1>. QED
  BY <1>1, PartsInvariant, PTL

(* No row is of All Mail, which holds each message a second time, and what  *)
(* a folder lists is what the cycles of the present connection sync,        *)
(* whatever the mailbox's language is changed to.  (folders.ts, boot.ts)    *)
THEOREM FoldersKeepTheirNames ==
  PartsSpec => [](part = "folders" => Names!NothingTwice /\ Names!ViewsAreSynced)
<1>1. PartsInv => (part = "folders" => Names!NothingTwice /\ Names!ViewsAreSynced)
  BY NamesKeepPromises DEF PartsInv
<1>. QED
  BY <1>1, PartsInvariant, PTL

(* A device with a row shows its switch as on and a pass tries every device;*)
(* no notice is hidden by unrelated news, the newest of a conversation      *)
(* stays unless two dispatches of the account overlapped, and a click shows *)
(* the view it spoke of; on the desktop a message is announced at first     *)
(* sight or never, by no more waiting threads than permits.                 *)
(* (usePushSubscription, dispatch.ts, service-worker.ts, watch.rs)          *)
THEOREM DevicesHold == PartsSpec => []DevicesAreTold
<1>1. PartsInv => DevicesAreTold
  BY PushKeepsPromises, NoticesKeepPromises, ShellKeepsPromises DEF PartsInv, DevicesAreTold
<1>. QED
  BY <1>1, PartsInvariant, PTL

(* What is recorded as an open is one: of one client at one token no two    *)
(* within the window, none judged a reading that came at the moment of      *)
(* sending, a token handed out has its row; reading one's own sent mail     *)
(* fetches no pixel, a copy carries its recipient's one pixel, and a picture*)
(* of the mail is not taken for one.  (server.ts, classify.ts,              *)
(* stripTrackingPixels, embedTrackingPixel)                                 *)
THEOREM OpensAreReal == PartsSpec => []OpensAreReadings
<1>1. PartsInv => OpensAreReadings
  BY BeaconKeepsPromises, PixelKeepsPromises DEF PartsInv, OpensAreReadings
<1>. QED
  BY <1>1, PartsInvariant, PTL

(* What is said of opens is true of the hits: a confirmed open is drawn as  *)
(* one, episodes are apart, the live region agrees with the view, a message *)
(* called silent has no open the service knew, and one called opened was    *)
(* opened.  (groupOpens, countEpisodes, useOpensFeed, classifyWithEvidence, *)
(* tallyOpens)                                                              *)
THEOREM OpensAreToldAsTheyWere == PartsSpec => []OpensAreToldTruly
<1>1. PartsInv => OpensAreToldTruly
  BY FeedKeepsPromises
     DEF PartsInv, OpensAreToldTruly, Reminders!FollowupInv
<1>. QED
  BY <1>1, PartsInvariant, PTL

(* A list of pages is one unbroken run of the scope selected, its cursor is *)
(* on its row and a spinner turns only while a request will end it; a       *)
(* conversation nothing happened to is loaded whole and once, and drawn     *)
(* where its newest listed message stands; the follow-ups are the account's;*)
(* a folder is known by its present name; and a negated term finds exactly  *)
(* the rest.  (useInboxPages, listConversations, groupIntoConversations,    *)
(* useFollowup, folders.ts, termClause)                                     *)
THEOREM ListsHold == PartsSpec => []ListsAreTrue
<1>1. PartsInv => ListsAreTrue
  BY ViewKeepsPromises, SearchKeepsPromises, NamesKeepPromises, MailKeepsPromises
     DEF PartsInv, ListsAreTrue, Pages!PagesInv
<1>. QED
  BY <1>1, PartsInvariant, PTL

(* Of many messages the right one is picked: the cursor follows its message *)
(* through a new list, a "go" is answered while its hint is up, only rows   *)
(* that are drawn are moved, an open shows the copy that was sent, and a    *)
(* full cache gives up the body used longest ago.  (InboxList.tsx,          *)
(* useKeyboardShortcuts, openEvent, messageCache.ts)                        *)
THEOREM RightOneIsPicked == PartsSpec => RightMessageIsPicked
<1> DEFINE Picked ==
      /\ part = "pages" => Pages!CursorStep
      /\ part = "keys" =>
           /\ Shortcuts!GoIsAnsweredStep
           /\ Shortcuts!ListShowsWhatIsMovedStep
      /\ part = "targets" => Targets!OpensTheSentCopyStep
      /\ part = "cache" => LeastRecentStep
<1>1. ASSUME PartsInv, PartsNext PROVE Picked
  <2>1. part = "pages" => Pages!CursorStep
    BY <1>1, OnePartSteps, CursorFollows
  <2>2. part = "keys" => Shortcuts!Next
    BY <1>1 DEF PartsNext
  <2>3. part = "targets" => Targets!Next
    BY <1>1 DEF PartsNext
  <2>4. part = "cache" => Next
    BY <1>1 DEF PartsNext
  <2>5. part = "keys" => Shortcuts!GoIsAnsweredStep /\ Shortcuts!ListShowsWhatIsMovedStep
    BY <1>1, <2>2, GoAnswers, MovedIsShown DEF PartsInv
  <2>6. part = "targets" => Targets!OpensTheSentCopyStep
    BY <2>3, SentCopyOpens
  <2>7. part = "cache" => LeastRecentStep
    BY <1>1, <2>4, OldestGoFirst DEF PartsInv
  <2>. QED
    BY <2>1, <2>5, <2>6, <2>7
<1>2. PartsInv /\ [PartsNext]_all =>
        [ /\ part = "pages" => Pages!CursorStep
          /\ part = "keys" =>
               /\ Shortcuts!GoIsAnsweredStep
               /\ Shortcuts!ListShowsWhatIsMovedStep
          /\ part = "targets" => Targets!OpensTheSentCopyStep
          /\ part = "cache" => LeastRecentStep ]_all
  BY <1>1
<1>. QED
  BY <1>2, PartsInvariant, PTL DEF PartsSpec, RightMessageIsPicked

(* Every part keeps its types and the invariant its proofs rest on.        *)
THEOREM PartsKeepTheirTypes == PartsSpec => []PartsTypeOK
<1>1. PartsInv => PartsTypeOK
  BY DEF PartsInv, PartsTypeOK
<1>. QED
  BY <1>1, PartsInvariant, PTL
=============================================================================
