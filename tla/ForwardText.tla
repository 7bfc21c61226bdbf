---------------------------- MODULE ForwardText ----------------------------
(***************************************************************************)
(* How forward search reads text (server/src/forward.rs): the tokens of a  *)
(* name in the index, the tokens of a query, and the parts a free-form     *)
(* query is parsed into.                                                   *)
(*                                                                         *)
(* A text is a sequence of chunks, which whitespace separates.  A chunk is *)
(* one word, or several words around a hyphen or a slash, or a word after  *)
(* "#"; a comma may follow it.  Words are folded and lower case already.   *)
(* The tables of the source (abbreviations, ordinals, states, ...) are     *)
(* constants, so that a run chooses the words it needs.                    *)
(***************************************************************************)
EXTENDS Integers, Sequences, SequencesExt, FiniteSets

CONSTANTS Abbrev,        \* abbreviated street type -> full word
          StreetTypes,   \* full street types
          Directional,   \* compass words
          OrdinalOf,     \* "fifth", "5th" -> "5th"
          NumberOrdinal, \* "5" -> "5th", for words that are all digits
          CompoundOf,    \* <<"twenty", "first">> -> "21st"
          PlaceFold,     \* "saint" -> "st", "mount" -> "mt"
          UnitWords,     \* "apt", "suite"
          NumLen,        \* word of digits -> number of digits
          DigitLed,      \* words that begin with a digit
          OneLetter,     \* words of one character
          PostcodeShape, \* words of the shape of a postcode
          SpacedCode,    \* pairs of words that are one postcode
          StateOf,       \* country -> token -> state
          Texts,         \* the texts a run asks about
          Filters        \* country filters, NoCountry among them

NoCountry == "none"
Nothing == <<>>

ASSUME TablesAssumption ==
  /\ DOMAIN NumLen \subseteq DigitLed
  /\ DOMAIN NumberOrdinal = DOMAIN NumLen
  /\ NoCountry \in Filters

\* A text is a list of chunks of words.
ASSUME TextsAssumption ==
  \A t \in Texts : t \in Seq([ws : Seq(STRING), mark : STRING, comma : BOOLEAN])

\* The tables that replace a word give a word.
ASSUME WordsAssumption ==
  /\ Abbrev \in [DOMAIN Abbrev -> STRING] /\ OrdinalOf \in [DOMAIN OrdinalOf -> STRING]
  /\ NumberOrdinal \in [DOMAIN NumberOrdinal -> STRING]
  /\ CompoundOf \in [DOMAIN CompoundOf -> STRING] /\ PlaceFold \in [DOMAIN PlaceFold -> STRING]

\* The tables do not undo each other: what a table gives, no later one takes
\* for a place or a bare number, and places are no ordinals or street types.
ASSUME TablesAgree ==
  LET places == DOMAIN PlaceFold \cup {PlaceFold[w] : w \in DOMAIN PlaceFold} IN
  /\ \A w \in DOMAIN Abbrev :
       /\ w # "st" /\ w \notin Directional
       /\ Abbrev[w] # "st" /\ Abbrev[w] \notin Directional \cup DOMAIN PlaceFold \cup DOMAIN NumLen
  /\ "dr" \notin Directional /\ "doctor" \notin Directional
  /\ {"doctor", "street"} \cap (DOMAIN PlaceFold \cup DOMAIN NumLen) = {}
  /\ places \cap (DOMAIN OrdinalOf \cup DOMAIN NumLen \cup StreetTypes) = {}
  /\ \A p \in DOMAIN CompoundOf : /\ p[1] \notin places /\ p[2] \notin places
                                  /\ CompoundOf[p] \notin DOMAIN PlaceFold \cup DOMAIN NumLen
  /\ \A w \in DOMAIN OrdinalOf : OrdinalOf[w] \notin DOMAIN PlaceFold
  /\ \A w \in DOMAIN NumberOrdinal : NumberOrdinal[w] \notin DOMAIN PlaceFold

VARIABLES text, country, parsed, phase
textVars == <<text, country, parsed, phase>>

----------------------------------------------------------------------------
\* Tables applied word by word.

Words(t) == FlattenSeq([i \in DOMAIN t |-> t[i].ws])

CanonicaliseToken(w) == IF w \in DOMAIN Abbrev THEN Abbrev[w] ELSE w

IsStreetType(w) == w \in StreetTypes

\* Where "St" means Street: the last word that is no compass word; 0 for none.
StreetStPosition(ws) ==
  LET plain == {i \in DOMAIN ws : ws[i] \notin Directional}
      end   == IF plain = {} THEN 0 ELSE Max(plain)
  IN IF end > 1 THEN end ELSE 0

MergeOrdinal(acc, w) ==
  IF acc # <<>> /\ <<Last(acc), w>> \in DOMAIN CompoundOf
  THEN Append(Front(acc), CompoundOf[<<Last(acc), w>>])
  ELSE Append(acc, w)

CanonicaliseCompoundOrdinals(ws) ==
  LET upTo[i \in 0..Len(ws)] ==
        IF i = 0 THEN <<>> ELSE MergeOrdinal(upTo[i - 1], ws[i])
  IN upTo[Len(ws)]

CanonicaliseOrdinals(ws, firstIsHouse) ==
  [i \in DOMAIN ws |->
     IF ws[i] \in DOMAIN OrdinalOf THEN OrdinalOf[ws[i]]
     ELSE IF /\ ws[i] \in DOMAIN NumberOrdinal
             /\ i > 1 \/ ~firstIsHouse
             /\ i < Len(ws) /\ IsStreetType(ws[i + 1]) THEN NumberOrdinal[ws[i]]
     ELSE ws[i]]

\* Saint, Mount and Fort, never in the last place: there "st" is Street.
ApplyPlaceAbbreviationFold(ws) ==
  [i \in DOMAIN ws |-> IF i < Len(ws) /\ ws[i] \in DOMAIN PlaceFold
                       THEN PlaceFold[ws[i]] ELSE ws[i]]

----------------------------------------------------------------------------
\* Query side.

\* The words between commas.
Components(t) ==
  LET grown(acc, c) == Append(Front(acc), Last(acc) \o c.ws)
      upTo[i \in 0..Len(t)] ==
        IF i = 0 THEN << <<>> >>
        ELSE IF t[i].comma THEN Append(grown(upTo[i - 1], t[i]), <<>>)
        ELSE grown(upTo[i - 1], t[i])
  IN upTo[Len(t)]

TokenizeComponent(ws) ==
  LET full == [i \in DOMAIN ws |-> IF i = 1 /\ ws[1] = "dr" /\ Len(ws) > 2
                                   THEN "doctor" ELSE CanonicaliseToken(ws[i])]
      st   == StreetStPosition(full)
      road == [i \in DOMAIN full |-> IF i = st /\ full[i] = "st" THEN "street" ELSE full[i]]
  IN CanonicaliseOrdinals(CanonicaliseCompoundOrdinals(road), TRUE)

TokenizeUserInput(t) ==
  LET parts == Components(t)
  IN ApplyPlaceAbbreviationFold(FlattenSeq([i \in DOMAIN parts |-> TokenizeComponent(parts[i])]))

\* name_tokens: a leading "the" does not count.
NameTokens(t) ==
  LET ts == TokenizeUserInput(t)
  IN IF Len(ts) > 1 /\ ts[1] = "the" THEN Tail(ts) ELSE ts

----------------------------------------------------------------------------
\* Index side: canonicalise_phrase, then the analyzer of the index, which
\* splits at punctuation.  Whitespace alone separates the chunks here, so a
\* table finds a chunk only if it is one bare word.

OneWord(c) == Len(c.ws) = 1 /\ c.mark # "hash"
Bare(c) == OneWord(c) /\ ~c.comma
Key(c) == IF Bare(c) THEN c.ws[1] ELSE "punctuated"

\* Mutant of CanonicaliseChunk: a leading "Dr" is a drive.
DoctorIsDrive(t, i) ==
  LET w == Key(t[i]) IN
  IF ~Bare(t[i]) THEN t[i].ws
  ELSE IF i = StreetStPosition([j \in DOMAIN t |-> Key(t[j])]) /\ w = "st" THEN <<"street">>
  ELSE IF w \in DOMAIN Abbrev THEN <<Abbrev[w]>>
  ELSE IF i < Len(t) /\ w \in DOMAIN PlaceFold THEN <<PlaceFold[w]>> ELSE <<w>>

CanonicaliseChunk(t, i) ==
  LET w == Key(t[i]) IN
  IF ~Bare(t[i]) THEN t[i].ws
  ELSE IF i = StreetStPosition([j \in DOMAIN t |-> Key(t[j])]) /\ w = "st" THEN <<"street">>
  ELSE IF i = 1 /\ w = "dr" /\ Len(t) > 2 THEN <<"doctor">>
  ELSE IF w \in DOMAIN Abbrev THEN <<Abbrev[w]>>
  ELSE IF i < Len(t) /\ w \in DOMAIN PlaceFold THEN <<PlaceFold[w]>> ELSE <<w>>

\* canonicalise_compound_ordinals: two bare words become one.
JoinChunk(acc, c) ==
  IF /\ acc # <<>> /\ Bare(Last(acc)) /\ Bare(c)
     /\ <<Last(acc).ws[1], c.ws[1]>> \in DOMAIN CompoundOf
  THEN Append(Front(acc), [c EXCEPT !.ws = <<CompoundOf[<<Last(acc).ws[1], c.ws[1]>>]>>])
  ELSE Append(acc, c)

\* Ordinals look past a comma, at every chunk of one word.
CanonicalisePhrase(t) ==
  LET upTo[i \in 0..Len(t)] ==
        IF i = 0 THEN <<>>
        ELSE JoinChunk(upTo[i - 1], [t[i] EXCEPT !.ws = CanonicaliseChunk(t, i)])
      joined  == upTo[Len(t)]
      ordinal == CanonicaliseOrdinals(
                   [i \in DOMAIN joined |-> IF OneWord(joined[i]) THEN joined[i].ws[1]
                                            ELSE "punctuated"], FALSE)
  IN FlattenSeq([i \in DOMAIN joined |->
                   IF OneWord(joined[i]) THEN <<ordinal[i]>> ELSE joined[i].ws])

----------------------------------------------------------------------------
\* parse_freeform_query_inner

NoQuery == [house |-> Nothing, unit |-> Nothing, state |-> "none", postcode |-> Nothing, rest |-> <<>>]

\* The token at which a trailing postcode begins, past the end for none.  Five
\* digits may be a rural house number in Australia and New Zealand, and without
\* a country when no house number comes first.
TrailingPostcode(ts, cc) ==
  LET n == Len(ts)
      rural == /\ Last(ts) \in DOMAIN NumLen /\ NumLen[Last(ts)] = 5
               /\ \/ cc \in {"AU", "NZ"}
                  \/ cc = NoCountry /\ n > 1 /\ ts[1] \notin DigitLed
  IN CASE n > 1 /\ <<ts[n - 1], ts[n]>> \in SpacedCode -> n - 1
       [] n > 0 /\ Last(ts) \in PostcodeShape /\ ~rural -> n
       [] OTHER -> n + 1

FloorOrdinal(w) == w \in DigitLed /\ w \in DOMAIN OrdinalOf

\* What an abbreviation of a state at token i stands for; "none" if nothing.
StateAt(ts, i, pc, cc) ==
  LET c == IF cc = NoCountry THEN "AU" ELSE cc
  IN IF /\ Len(ts) > 1 /\ c \in DOMAIN StateOf /\ ts[i] \in DOMAIN StateOf[c]
        /\ c = "AU" \/ i = pc - 1
     THEN StateOf[c][ts[i]] ELSE "none"

\* Mutant of HouseAt: a later number replaces the house number.
LastHouseWins(p, ts, i, first) ==
  LET w == ts[i] IN
  \/ i = 1 /\ w \in DigitLed /\ ~(w \notin DOMAIN NumLen /\ Len(ts) > 1 /\ FloorOrdinal(w))
  \/ i = Len(ts) /\ w \in DOMAIN NumLen /\ (NumLen[w] <= 3 \/ NumLen[w] = 5)

\* A house number comes first, or last, or ends the first comma component.
HouseAt(p, ts, i, first) ==
  LET w == ts[i]
      digits == w \in DOMAIN NumLen
  IN /\ p.house = Nothing
     /\ \/ i = 1 /\ w \in DigitLed /\ ~digits /\ ~(Len(ts) > 1 /\ FloorOrdinal(w))
        \/ i = 1 /\ digits
        \/ i = Len(ts) /\ digits /\ (NumLen[w] <= 3 \/ NumLen[w] = 5)
        \/ i = first /\ w \in DigitLed /\ ~FloorOrdinal(w)

\* One turn of the loop over the tokens; pc is where the postcode begins and
\* first the last token of the first comma component (0 without a comma).
ParseToken(acc, ts, i, pc, first, cc) ==
  LET w == ts[i]
      p == acc.p
      next == IF i < Len(ts) THEN ts[i + 1] ELSE "none"
  IN IF i >= pc THEN acc ELSE IF acc.skip THEN [acc EXCEPT !.skip = FALSE]
     ELSE CASE /\ p.unit = Nothing /\ w \in UnitWords
               /\ next \in DigitLed \cup OneLetter ->
            [p |-> [p EXCEPT !.unit = <<next>>], skip |-> TRUE]
       [] (next = "floor" /\ FloorOrdinal(w)) \/ (w = "floor" /\ i > 1 /\ FloorOrdinal(ts[i - 1])) -> acc
       [] HouseAt(p, ts, i, first) -> [acc EXCEPT !.p.house = <<w>>]
       [] p.state = "none" /\ StateAt(ts, i, pc, cc) # "none" ->
            [acc EXCEPT !.p.state = StateAt(ts, i, pc, cc)]
       [] OTHER -> [acc EXCEPT !.p.rest = Append(@, w)]

ParseTokens(p, ts, first, cc) ==
  LET pc == TrailingPostcode(ts, cc)
      start == [p |-> [p EXCEPT !.postcode = SubSeq(ts, pc, Len(ts))], skip |-> FALSE]
      upTo[i \in 0..Len(ts)] ==
        IF i = 0 THEN start ELSE ParseToken(upTo[i - 1], ts, i, pc, first, cc)
  IN upTo[Len(ts)].p

\* Marks the tokenizer would lose are read first: "3/827a", "85-23", "#3".
Slashed(t) == /\ t # <<>> /\ t[1].mark = "slash" /\ ~t[1].comma /\ Len(t[1].ws) = 2
              /\ t[1].ws[1] \in DOMAIN NumLen /\ t[1].ws[2] \in DigitLed
Hyphened(t) == /\ Len(t) > 1 /\ t[1].mark = "hyphen"
               /\ \A k \in DOMAIN t[1].ws : t[1].ws[k] \in DOMAIN NumLen
Hash(t) == {i \in DOMAIN t : t[i].mark = "hash"}

\* A unit is cut out of its chunk, and the comma after it stays in the text.
CutHash(t, i) == [t EXCEPT ![i].ws = <<>>]

ReadMarks(t) ==
  LET one == IF Slashed(t) THEN [p |-> [NoQuery EXCEPT !.unit = <<t[1].ws[1]>>,
                                                       !.house = <<t[1].ws[2]>>], t |-> Tail(t)]
             ELSE IF Hyphened(t) THEN [p |-> [NoQuery EXCEPT !.house = t[1].ws], t |-> Tail(t)]
             ELSE [p |-> NoQuery, t |-> t]
      h == Hash(one.t)
  IN IF one.p.unit = Nothing /\ h # {}
     THEN [p |-> [one.p EXCEPT !.unit = one.t[Min(h)].ws], t |-> CutHash(one.t, Min(h))]
     ELSE one

\* Where the first comma component ends among the tokens, without the first
\* `unitPrefix` of them; 0 without a comma.
FirstComponentEnd(t, unitPrefix) ==
  LET n == Len(TokenizeComponent(Components(t)[1]))
  IN IF \A i \in DOMAIN t : ~t[i].comma THEN 0
     ELSE IF n > 1 + unitPrefix THEN n - unitPrefix ELSE 1

ParseFreeformQuery(t, cc) ==
  LET m  == ReadMarks(t)
      ts == TokenizeUserInput(m.t)
      lead == m.p.unit = Nothing /\ Len(ts) > 2 /\ ts[1] \in UnitWords /\ ts[2] \in DigitLed
  IN IF lead
     THEN ParseTokens([m.p EXCEPT !.unit = <<ts[2]>>], SubSeq(ts, 3, Len(ts)),
                      FirstComponentEnd(m.t, 2), cc)
     ELSE ParseTokens(m.p, ts, FirstComponentEnd(m.t, 0), cc)

----------------------------------------------------------------------------
TextInit ==
  /\ text \in Texts
  /\ country \in Filters
  /\ parsed = NoQuery
  /\ phase = "typed"

Parse == /\ phase = "typed"
         /\ parsed' = ParseFreeformQuery(text, country)
         /\ phase' = "parsed"
         /\ UNCHANGED <<text, country>>

TextNext == Parse
TextSpec == TextInit /\ [][TextNext]_textVars

----------------------------------------------------------------------------
TokenSet(s) == {s[i] : i \in DOMAIN s}
Plain(t) == \A i \in DOMAIN t : Bare(t[i]) /\ t[i].mark = "none"

\* The state has its type, and a parse puts no word into two of its parts.
TextTypeOK ==
  /\ phase \in {"typed", "parsed"}
  /\ text \in Texts /\ country \in Filters
  /\ Len(parsed.house \o parsed.unit \o parsed.postcode \o parsed.rest) <= Len(Words(text))

\* tokenize_user_input against canonicalise_phrase: a name of bare words has the
\* same tokens in the index and in a query, except for a number in the first
\* place, which a query reads as a house number.
IndexMatchesQuery ==
  (Plain(text) /\ text # <<>> /\ text[1].ws[1] \notin DOMAIN NumLen)
    => CanonicalisePhrase(text) = TokenizeUserInput(text)

\* parse_freeform_query drops nothing that was typed: every token is in one of
\* the parts, or introduces a unit, or counts a floor.
NoWordLost ==
  phase = "parsed" =>
    \A w \in TokenSet(TokenizeUserInput(ReadMarks(text).t)) :
      \/ w \in TokenSet(parsed.rest) \cup TokenSet(parsed.house)
               \cup TokenSet(parsed.unit) \cup TokenSet(parsed.postcode)
      \/ parsed.state # "none" /\ \E c \in DOMAIN StateOf :
           w \in DOMAIN StateOf[c] /\ StateOf[c][w] = parsed.state
      \/ w \in UnitWords /\ parsed.unit # Nothing
      \/ w = "floor" \/ FloorOrdinal(w)

\* parse_freeform_query puts every word that was typed into its parts, and none
\* of them twice.
ParsedWhole == TextTypeOK /\ NoWordLost
=============================================================================
