----------------------------- MODULE SearchTerms -----------------------------
(***************************************************************************)
(* What a search text means: the service parses it into terms and tests    *)
(* them in SQL, where a missing value makes a test neither true nor false; *)
(* the client parses it again to show how it was understood.               *)
(*                                                                         *)
(* A text is a sequence of tokens, [negated, operator, value], and a value *)
(* stands for its kind: a day, a size, a size too large to be an integer,  *)
(* the name of a flag, or a word.  Left out: an operator or a value named  *)
(* like a property every JavaScript object inherits (`constructor`), which *)
(* the lookup tables answer and the building of the SQL then fails on.     *)
(***************************************************************************)
EXTENDS Integers, Sequences, Functions, FiniteSets

CONSTANTS MaxTokens, None

VARIABLES query,   \* the tokens typed
          found    \* the rows the service answers with
vars == <<query, found>>

Fields == {"from", "to", "cc", "subject"}
Operators == Fields \union {"is", "has", "before", "after", "larger", "smaller"}
NoOperator == "none"
Values == {"empty", "word", "unread", "read", "starred", "attachment", "day", "size", "huge"}
Token == [negated: BOOLEAN, operator: Operators \union {"other", NoOperator}, value: Values]

(* A column may be missing; numbers below, at and above the given bound.   *)
Text == {"word", "other", None}
Bound == 2
Number == 1 .. 3 \union {None}
Row == [subject: Text, from: Text, to: {None, {}, {"word"}},
        flags: {None, {}, {"Seen"}, {"Flagged"}}, attach: BOOLEAN,
        date: Number, size: Number]

TypeOK == query \in Seq(Token) /\ found \subseteq Row

(*------------------------------- the terms -------------------------------*)
FlagOf(operator, value) ==
  IF <<operator, value>> \in ({"is"} \X {"unread", "read", "starred"})
                            \union {<<"has", "attachment">>}
  THEN value ELSE None

(* literalText: a token that is not understood is searched as it is.       *)
Literal(token) == IF token.operator = NoOperator THEN token.value ELSE "literal"
TextTerm(token) == [kind |-> "match", what |-> "any", value |-> Literal(token),
                    negated |-> token.negated]
Of(kind, token) == [kind |-> kind, what |-> token.operator, value |-> token.value,
                    negated |-> token.negated]

Classify(token) ==
  CASE token.value = "empty" -> TextTerm(token)
    [] token.operator \in Fields /\ token.value # "empty" -> Of("match", token)
    [] FlagOf(token.operator, token.value) # None -> Of("flag", token)
    [] token.operator \in {"before", "after"} /\ token.value = "day" -> Of("date", token)
    [] token.operator \in {"larger", "smaller"} /\ token.value = "size" -> Of("size", token)
    [] OTHER -> TextTerm(token)

(* parseSearchQuery: nothing but an empty quotation is itself the text; of *)
(* the terms only which there are matters, as all of them must hold.       *)
IsEmpty(token) == token.operator = NoOperator /\ token.value = "empty"
AnyLiteral == [kind |-> "match", what |-> "any", value |-> "literal", negated |-> FALSE]
Parse(tokens) ==
  LET kept == {t \in Range(tokens) : ~IsEmpty(t)}
  IN IF tokens = <<>> THEN {}
     ELSE IF kept = {} THEN {AnyLiteral} ELSE {Classify(t) : t \in kept}

(*---------------------------------- SQL ----------------------------------*)
Sql(condition) == IF condition THEN "true" ELSE "false"
SqlOr(answers) == IF "true" \in answers THEN "true"
                  ELSE IF "null" \in answers THEN "null" ELSE "false"
SqlNot(answer) == IF answer = "null" THEN "null" ELSE Sql(answer = "false")
Coalesce(answer) == IF answer = "null" THEN "false" ELSE answer

(* Mutant: a test of a missing value stays unknown when it is negated.     *)
NegatePlainly(answer) == SqlNot(answer)
Negate(answer) == SqlNot(Coalesce(answer))

Like(column, value) == IF column = None THEN "null" ELSE Sql(column = value)
MatchClause(term, row) ==
  CASE term.what = "any" -> SqlOr({Like(row.subject, term.value), Like(row.from, term.value)})
    [] term.what = "from" -> Like(row.from, term.value)
    [] term.what = "subject" -> Like(row.subject, term.value)
    [] OTHER -> Sql(row.to # None /\ term.value \in row.to)

Present(flag, row) == IF row.flags = None THEN "null" ELSE Sql(flag \in row.flags)
FlagClause(flag, row) ==
  CASE flag = "attachment" -> Sql(row.attach)
    [] flag = "unread" -> Negate(Present("Seen", row))
    [] flag = "read" -> Present("Seen", row)
    [] OTHER -> Present("Flagged", row)

DateClause(bound, row) ==
  LET date == IF row.date = None THEN 0 ELSE row.date
  IN Sql(IF bound = "before" THEN date < Bound ELSE date >= Bound)
SizeClause(bound, row) ==
  IF row.size = None THEN "null"
  ELSE Sql(IF bound = "larger" THEN row.size > Bound ELSE row.size < Bound)

BaseClause(term, row) ==
  CASE term.kind = "match" -> MatchClause(term, row)
    [] term.kind = "flag" -> FlagClause(term.value, row)
    [] term.kind = "date" -> DateClause(term.what, row)
    [] OTHER -> SizeClause(term.what, row)
TermClause(term, row) ==
  IF term.negated THEN Negate(BaseClause(term, row)) ELSE BaseClause(term, row)

Matching(tokens) ==
  {row \in Row : \A term \in Parse(tokens) : TermClause(term, row) = "true"}

(*--------------------------------- client --------------------------------*)
(* Mutant: a bound is shown as understood whatever its value is.           *)
UnderstandsAny(token) == token.value # "empty" /\ token.operator \in Operators
(* chipFor: the chip says an operator was understood, or it is plain text. *)
Understands(token) ==
  /\ token.value # "empty"
  /\ \/ token.operator \in Fields
     \/ FlagOf(token.operator, token.value) # None
     \/ token.operator \in {"before", "after"} /\ token.value = "day"
     \/ token.operator \in {"larger", "smaller"} /\ token.value \in {"size", "huge"}

Init == query = <<>> /\ found = Row

Search(token) ==
  /\ Len(query) < MaxTokens
  /\ query' = Append(query, token)
  /\ found' = Matching(query')

Next == \E token \in Token : Search(token)
Spec == Init /\ [][Next]_vars

(*------------------------------ properties -------------------------------*)
Opposite(token) == [token EXCEPT !.negated = ~@]

(* A search and its negation part the mailbox: no message is missed by     *)
(* both because a value of it is missing, and none is found by both.       *)
NegationIsComplement ==
  Len(query) = 1 /\ ~IsEmpty(query[1]) =>
    found = Row \ Matching(<<Opposite(query[1])>>)

(* What the client says an operator means is what the service searched     *)
(* for, except for a size no integer holds.                                *)
ChipsAreTrue ==
  \A i \in DOMAIN query :
    query[i].value # "huge" =>
      (Understands(query[i]) <=> Classify(query[i]) # TextTerm(query[i]))

(* The inductive invariant: the rows are those of the text that is typed.  *)
SearchInv == TypeOK /\ found = Matching(query)
==============================================================================
