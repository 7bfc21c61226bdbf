--------------------------- MODULE MCForwardText ---------------------------
\* Words that meet every table, alone, before a comma, hyphenated and marked.
EXTENDS ForwardText

MCAbbrev == [dr |-> "drive"]
MCStreetTypes == {"street", "drive"}
MCDirectional == {"n"}
MCOrdinalOf == [w \in {"fifth", "5th", "first", "21st"} |->
                  CASE w \in {"fifth", "5th"} -> "5th" [] w = "first" -> "1st" [] OTHER -> "21st"]
MCNumbers == {"5", "12", "2154", "10010"}
MCNumberOrdinal == [w \in MCNumbers |->
                      CASE w = "5" -> "5th" [] w = "12" -> "12th"
                        [] w = "2154" -> "2154th" [] OTHER -> "10010th"]
MCCompoundOf == [p \in {<<"twenty", "first">>} |-> "21st"]
MCPlaceFold == [saint |-> "st", st |-> "st"]
MCUnitWords == {"apt"}
MCNumLen == [w \in MCNumbers |-> CASE w = "5" -> 1 [] w = "12" -> 2 [] w = "2154" -> 4 [] OTHER -> 5]
MCDigitLed == MCNumbers \cup {"5th", "21st", "1st", "7a"}
MCOneLetter == {"n", "5"}
MCPostcodeShape == {"2154", "10010"}
MCSpacedCode == {<<"2154", "nsw">>}
MCStateOf == [AU |-> [nsw |-> "New South Wales"], US |-> [nsw |-> "elsewhere"]]
MCFilters == {NoCountry, "AU", "US"}

Vocabulary == {"dr", "street", "n", "fifth", "5th", "first", "twenty", "5", "2154", "10010",
               "saint", "st", "apt", "nsw", "7a", "floor", "main"}
Few == {"dr", "fifth", "5", "2154", "saint", "st", "apt", "nsw", "main", "n"}
Chunk(ws, mark, comma) == [ws |-> ws, mark |-> mark, comma |-> comma]
Bares(W) == {Chunk(<<w>>, "none", FALSE) : w \in W}
Marked == {Chunk(<<"5", "7a">>, "slash", FALSE), Chunk(<<"5", "12">>, "hyphen", FALSE),
           Chunk(<<"saint", "main">>, "hyphen", FALSE), Chunk(<<"5">>, "hash", FALSE),
           Chunk(<<"7a">>, "hash", TRUE)}
Commas == {Chunk(<<w>>, "none", TRUE) : w \in {"main", "st", "5"}}
MCTexts == UNION {[1 .. n -> Bares(Vocabulary) \cup Marked \cup Commas] : n \in 0 .. 3}
             \cup [1 .. 4 -> Bares(Few)]
=============================================================================
