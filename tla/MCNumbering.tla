---------------------------- MODULE MCNumbering -----------------------------
(* Small instances of Numbering for TLC: one alphabet of lines for each    *)
(* drafting style.                                                         *)
EXTENDS Numbering

Roman1 == Lower(<<9>>)
Lowers == {Lower(<<l>>) : l \in {1, 3, 4}}

\* A statute: chapters, articles, numbered and lettered lists, a company prefix
\* ("PT.") and body text.
Statute ==
    {BlankLine, BodyLine, CaptionLine, HeadingLine("bab", Upper(<<9>>)), HeadingLine("pasal", Digit(1)),
     HeadingLine("pasal", Digit(3)), MarkerLine(Digit(1), "bracket"), MarkerLine(Digit(3), "bracket"),
     MarkerLine(Lower(<<1>>), "dot"), MarkerLine(Upper(<<16, 20>>), "dot")}

\* Lists of letters and numerals only.
Lists ==
    {MarkerLine(t, "dot") : t \in Lowers \cup {Lower(<<2>>), Roman1, Lower(<<9, 9>>), Lower(<<9, 9, 9>>)}}
       \cup {MarkerLine(Upper(<<9>>), "paren"), MarkerLine(Upper(<<9, 22>>), "paren")}

\* A contract: articles with decimal clauses.
Contract ==
    {HeadingLine("article", Digit(1)), HeadingLine("article", Digit(2)), BodyLine,
     MarkerLine(Decimal(<<1, 1>>), "bare"), MarkerLine(Decimal(<<2, 1>>), "bare"),
     MarkerLine(Decimal(<<2, 2>>), "dot"), MarkerLine(Digit(2), "dot")}

\* A contract in two languages, one of which the fixed patterns do not know.
Bilingual ==
    {KeywordLine("artikel", Digit(1)), KeywordLine("artikel", Digit(2)), KeywordLine("artikel", Digit(3)),
     HeadingLine("pasal", Digit(1)), HeadingLine("pasal", Digit(2)), BodyLine}

MCStyles == {"statute", "lists", "contract", "bilingual"}
MCLinesOf == [s \in MCStyles |-> CASE s = "statute" -> Statute [] s = "lists" -> Lists
                                   [] s = "contract" -> Contract [] s = "bilingual" -> Bilingual]
MCMaxLines == [s \in MCStyles |-> IF s = "bilingual" THEN 5 ELSE 4]
=============================================================================
