------------------------------ MODULE MCReview ------------------------------
(* Small instances of ReportView for TLC: three agreements and their edits.  *)
EXTENDS ReportView

MCTexts == {"none", "long", "short", "citesArticle", "citesAyat", "citesHere", "citesEnglish"}
MCTokens == [t \in MCTexts |->
    CASE t = "none" -> {} [] t = "long" -> 101..110 [] t = "short" -> {121}
      [] t = "citesArticle" -> {0, 2, 131, 132} [] t = "citesAyat" -> {0, 1, 2, 141}
      [] t = "citesHere" -> {2, 151} [] t = "citesEnglish" -> {2, 161}]
MCCites == [t \in MCTexts |->
    CASE t = "citesArticle" -> <<Absolute(2, 0)>>
      [] t = "citesAyat" -> <<Absolute(1, 2), Absolute(2, 0)>>
      [] t = "citesHere" -> <<Relative(2)>>
      [] t = "citesEnglish" -> <<InEnglish(Absolute(2, 0))>>
      [] OTHER -> <<>>]

MCDrafts ==
    { << PasalHead(1), Body("citesArticle"), PasalHead(2), Body("long"), PasalHead(3), Body("short") >>,
      << PasalHead(1), Ayat(1, "citesHere"), Ayat(2, "long"), Blank, PasalHead(2), Body("citesAyat") >>,
      << PasalHead(1), Blank, Body("citesEnglish"), PasalHead(2), Body("short") >> }

MCParagraphs == {Blank, PasalHead(2), PasalHead(3), Ayat(2, "long"), Body("short"), Body("citesArticle")}
=============================================================================
