------------------------------ MODULE Markers -------------------------------
(***************************************************************************)
(* The list markers of internal/docmodel/marker.go: how a written symbol   *)
(* is read ("(1)", "a.", "iv)", "2.1"), how an ordinal is written back in  *)
(* the symbols of a list, and how a list of ambiguous symbols is settled.  *)
(*                                                                         *)
(* A token is the bare symbol: its script and its components.  Letters are *)
(* the numbers 1..26 and a decimal is its segments, so "ii" is             *)
(* [script |-> "lower", value |-> <<9, 9>>] and "2.1" is                   *)
(* [script |-> "decimal", value |-> <<2, 1>>].                             *)
(***************************************************************************)
EXTENDS Integers, Sequences, FiniteSets, SequencesExt

\* A token by its script.
Token == [script : {"digit", "decimal", "lower", "upper"}, value : Seq(Nat) \ {<<>>}]
Digit(n)    == [script |-> "digit", value |-> <<n>>]
Decimal(s)  == [script |-> "decimal", value |-> s]
Lower(s)    == [script |-> "lower", value |-> s]
Upper(s)    == [script |-> "upper", value |-> s]

-----------------------------------------------------------------------------
\* What an ordinal is, where there is one.
Positive == Nat \ {0}

\* parseAlpha(): a..z are 1..26, aa is 27 (spreadsheet columns).
parseAlpha[s \in Seq(Nat)] == IF s = <<>> THEN 0 ELSE 26 * parseAlpha[Front(s)] + Last(s)

\* formatAlpha(), its inverse.
formatAlpha[n \in Nat] ==
    IF n = 0 THEN <<>> ELSE Append(formatAlpha[(n - 1) \div 26], ((n - 1) % 26) + 1)

\* The letters i, v, x, l, c, d, m and what they are worth.
romanVals == [l \in {9, 22, 24, 12, 3, 4, 13} |->
    CASE l = 9 -> 1 [] l = 22 -> 5 [] l = 24 -> 10 [] l = 12 -> 50
      [] l = 3 -> 100 [] l = 4 -> 500 [] l = 13 -> 1000]

romanSteps ==
    << [val |-> 1000, sym |-> <<13>>], [val |-> 900, sym |-> <<3, 13>>],
       [val |-> 500, sym |-> <<4>>],   [val |-> 400, sym |-> <<3, 4>>],
       [val |-> 100, sym |-> <<3>>],   [val |-> 90, sym |-> <<24, 3>>],
       [val |-> 50, sym |-> <<12>>],   [val |-> 40, sym |-> <<24, 12>>],
       [val |-> 10, sym |-> <<24>>],   [val |-> 9, sym |-> <<9, 24>>],
       [val |-> 5, sym |-> <<22>>],    [val |-> 4, sym |-> <<9, 22>>],
       [val |-> 1, sym |-> <<9>>] >>

\* formatRoman(): the greedy rendering over romanSteps.
formatRoman[n \in Nat] ==
    IF n = 0 THEN <<>>
    ELSE LET step == romanSteps[Min({i \in DOMAIN romanSteps : romanSteps[i].val <= n})]
         IN  step.sym \o formatRoman[n - step.val]

\* The loop of parseRoman(), right to left: a smaller letter before a larger one
\* subtracts.
romanTotal[s \in Seq(DOMAIN romanVals)] ==
    IF s = <<>> THEN [total |-> 0, prev |-> 0]
    ELSE LET v    == romanVals[Head(s)]
             rest == romanTotal[Tail(s)]
         IN  IF v < rest.prev THEN [rest EXCEPT !.total = @ - v]
             ELSE [total |-> rest.total + v, prev |-> v]

\* parseRoman(): accepted only when rendering the total gives the same letters.  0
\* when it is no numeral.
parseRoman(s) ==
    LET total == romanTotal[s].total
    IN  IF s \in Seq(DOMAIN romanVals) \ {<<>>} /\ total \in Positive /\ formatRoman[total] = s
        THEN total ELSE 0

\* ParseArticleNumber() on the number of a heading: digits, the last segment of a
\* decimal, or a roman numeral; 0 when it is none of them.
ParseArticleNumber(tok) ==
    IF tok.script \in {"digit", "decimal"} THEN Last(tok.value) ELSE parseRoman(tok.value)

-----------------------------------------------------------------------------
\* A marker that could not be read.
NoMarker == [token |-> Digit(0), kind |-> "unknown", form |-> "none", ordinal |-> 0,
             ambiguous |-> FALSE, altKind |-> "unknown", altOrdinal |-> 0]

Alpha(script) == IF script = "upper" THEN "upperAlpha" ELSE "lowerAlpha"
Roman(script) == IF script = "upper" THEN "upperRoman" ELSE "lowerRoman"
IsAlpha(kind) == kind \in {"lowerAlpha", "upperAlpha"}
IsRoman(kind) == kind \in {"lowerRoman", "upperRoman"}

\* classifyToken(): the family of a token, with both readings when letters are a
\* numeral and also an alphabetic ordinal; only one or two letters are alphabetic.
classifyToken(tok, form) ==
    LET base  == [NoMarker EXCEPT !.token = tok, !.form = form]
        roman == parseRoman(tok.value)
        alpha == IF Len(tok.value) > 2 THEN 0 ELSE parseAlpha[tok.value]
    IN  CASE tok.script = "digit" /\ tok.value[1] > 0 ->
               [base EXCEPT !.kind = "digit", !.ordinal = tok.value[1]]
          [] tok.script = "digit" /\ tok.value[1] = 0 -> NoMarker
          [] tok.script = "decimal" ->
               [base EXCEPT !.kind = "decimal", !.ordinal = Last(tok.value)]
          [] OTHER ->
               CASE roman # 0 /\ alpha \in Positive ->
                      [base EXCEPT !.kind = Roman(tok.script), !.ordinal = roman,
                                   !.ambiguous = TRUE, !.altKind = Alpha(tok.script),
                                   !.altOrdinal = alpha]
                 [] roman # 0 /\ alpha \notin Positive ->
                      [base EXCEPT !.kind = Roman(tok.script), !.ordinal = roman]
                 [] roman = 0 /\ alpha \in Positive ->
                      [base EXCEPT !.kind = Alpha(tok.script), !.ordinal = alpha]
                 [] OTHER -> NoMarker

\* ParseMarker(): the patterns take three digits or four letters, and a symbol
\* without a delimiter only when it is a decimal.
ParseMarker(tok, form) ==
    LET fits == CASE tok.script = "digit" -> tok.value[1] < 1000 /\ form # "bare"
                  [] tok.script = "decimal" -> form \in {"bare", "dot"}
                  [] OTHER -> Len(tok.value) <= 4 /\ form # "bare"
    IN  IF fits THEN classifyToken(tok, form) ELSE NoMarker

\* FormatOrdinal() and Render(): an ordinal in the symbols of a list.  A decimal is
\* written as its last segment only.
FormatOrdinal(kind, n) ==
    CASE kind = "lowerRoman" -> Lower(formatRoman[n])
      [] kind = "upperRoman" -> Upper(formatRoman[n])
      [] kind = "lowerAlpha" -> Lower(formatAlpha[n])
      [] kind = "upperAlpha" -> Upper(formatAlpha[n])
      [] OTHER -> Digit(n)

Render(kind, form, n) == [token |-> FormatOrdinal(kind, n), form |-> form]

-----------------------------------------------------------------------------
\* A list is a function from the numbers of its nodes, in document order, to markers.

\* scoreSequence(): how many members continue 1, 2, 3, ... in one reading.
scoreSequence(ms, useAlt) ==
    LET reading(n) == IF useAlt THEN ms[n].altOrdinal ELSE ms[n].ordinal
        score[n \in 0..Max(DOMAIN ms)] ==
            IF n = 0 THEN 0
            ELSE IF n \in DOMAIN ms /\ reading(n) = score[n - 1] + 1
                 THEN score[n - 1] + 1 ELSE score[n - 1]
    IN  score[Max(DOMAIN ms)]

\* ResolveMarkerSequence(): the family decided for a list.  The first member that
\* has one reading decides; otherwise the reading that counts further, and the
\* primary one (roman) on a tie.
DecidedKind(ms) ==
    LET certain == {n \in DOMAIN ms : ~ms[n].ambiguous}
        first   == ms[Min(DOMAIN ms)]
    IN  IF certain # {} THEN ms[Min(certain)].kind
        ELSE IF scoreSequence(ms, TRUE) > scoreSequence(ms, FALSE)
             THEN first.altKind ELSE first.kind

\* Mutant: the list's decision is ignored and the primary reading stays.
SettleAlone(m, decided) == [m EXCEPT !.ambiguous = FALSE]

\* ... and what becomes of each member: ambiguous ones take the decided family.
Settle(m, decided) ==
    IF ~m.ambiguous THEN m
    ELSE IF IsAlpha(decided) # IsAlpha(m.kind)
         THEN [m EXCEPT !.kind = m.altKind, !.ordinal = m.altOrdinal,
                        !.altKind = m.kind, !.altOrdinal = m.ordinal, !.ambiguous = FALSE]
         ELSE [m EXCEPT !.ambiguous = FALSE]
=============================================================================
