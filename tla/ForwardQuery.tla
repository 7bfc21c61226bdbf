---------------------------- MODULE ForwardQuery ----------------------------
(***************************************************************************)
(* Queries on the forward index (server/src/forward.rs): matching and      *)
(* ranking in one shard (search_once), the city at the end of a query and  *)
(* its cache, the ladder of relaxations, the search over several countries,*)
(* repair of whitespace, correction of spelling, and /nearby.              *)
(*                                                                         *)
(* A text is a sequence of comma components, each a sequence of tokens; how *)
(* characters become tokens is in ForwardText.  A world is what the server *)
(* has open: a function from directories ("default" and countries) to sets *)
(* of documents.  BM25 is the number "score" of a document; positions are  *)
(* on a line, 10 km apart.                                                 *)
(***************************************************************************)
EXTENDS Integers, Sequences, SequencesExt, FiniteSets

CONSTANTS Worlds, Questions, NearbyQuestions,
          Houses, Postcodes,   \* tokens that are house numbers, postcodes
          Rural,               \* five digits: a postcode or a rural house number
          UnitWords,           \* "unit", "apt"
          Slashed,             \* "4/12" -> <<unit, house number>>
          Hashed,              \* "#4" -> unit
          StateNames,          \* country -> abbreviation -> tokens of the state
          CountryNames,        \* token -> country
          Variants,            \* token -> tokens that mean the same
          StreetTypes, NonLatin,
          ShortWords,          \* tokens of less than four letters
          WofAliases,          \* set of [alias, cc, name, pos]
          JoinOf,              \* <<token, token>> -> token without the space
          Misspelt,            \* token -> closest other spelling
          SpellingRatio, NearRadius, MaxCandidates, MaxStrict, Page,
          Requests, Tails, CacheWorlds, CacheCap

None == "none"
AnyKind == "any"
Default == "default"
Prepositions == {"am", "an", "upon", "on", "under", "im", "bei", "sur", "of", "near", "by"}

\* A document: rank and imp(ortance) of its place or street, pos(ition), score and
\* ci, the importance of the city it was found in.
Documents == [id : Nat, kind : STRING, name : Seq(STRING), alt : SUBSET STRING, suburb : Seq(STRING),
              extra : SUBSET STRING, state : Seq(STRING), cc : STRING, hn : STRING, unit : STRING,
              pc : STRING, rank : Nat, imp : Nat, pos : Nat, score : Nat, ci : Nat]

\* A query of a handler, which has cut the limit to 50.
Queries == [text : Seq(Seq(STRING)), street : Seq(STRING), house : STRING, unit : STRING, pc : STRING,
            city : Seq(STRING), state : Seq(STRING), cc : SUBSET STRING, kind : STRING, bias : Int,
            limit : 0 .. 50]

ASSUME QueryAssumption ==
  /\ SpellingRatio \in Nat /\ NearRadius \in Nat /\ Page \in Nat \ {0}
  /\ CacheCap \in Nat \ {0}
  /\ CacheWorlds \subseteq Worlds

\* What is open is finite, and an id names one document.
ASSUME WorldAssumption ==
  \A w \in Worlds :
    /\ IsFiniteSet(DOMAIN w)
    /\ \A x \in DOMAIN w : w[x] \subseteq Documents /\ IsFiniteSet(w[x])
    /\ \A x, y \in DOMAIN w : \A d \in w[x], e \in w[y] : d.id = e.id => d = e

ASSUME QuestionAssumption ==
  /\ Questions \subseteq Queries /\ NearbyQuestions \subseteq Queries
  /\ \A q \in Questions : IsFiniteSet(q.cc)

VARIABLES
    world,   \* what the server has open
    shown,   \* the worlds it has had open since it started (history)
    asked, answer,
    cache,   \* directory, countries and tail -> city
    req      \* look-ups of trailing cities under way
vars == <<world, shown, asked, answer, cache, req>>

NoQuery == [text |-> <<>>, street |-> <<>>, house |-> None, unit |-> None, pc |-> None,
            city |-> <<>>, state |-> <<>>, cc |-> {}, kind |-> AnyKind, bias |-> -1, limit |-> 10]

----------------------------------------------------------------------------
\* Reading the text (parse_freeform_query_inner, see ForwardText).

Flat(text) == FlattenSeq(text)

\* The elements of s at the places in I.
Picked(s, I) ==
  [k \in 1 .. Cardinality(I) |-> s[CHOOSE i \in I : Cardinality({j \in I : j < i}) = k - 1]]

\* canonicalise_state and its like: the state an abbreviation stands for.
StateName(c, region) ==
  IF c \in DOMAIN StateNames /\ Len(region) = 1 /\ region[1] \in DOMAIN StateNames[c]
  THEN StateNames[c][region[1]] ELSE region
HasComma(q) == Len(q.text) > 1
\* A last component and something before it.
HasTail(q) == HasComma(q) /\ Flat(Front(q.text)) # <<>> /\ Last(q.text) # <<>>

Min2(a, b) == IF a < b THEN a ELSE b
First(S) == {i \in S : \A j \in S : i <= j}

\* trailing_postcode: five digits may be a house number in Australia and New
\* Zealand, and without a country behind a text that begins with no number.
EndsInPostcode(f, cc) ==
  /\ f # <<>> /\ Last(f) \in Postcodes
  /\ Last(f) \in Rural => /\ cc \notin {"AU", "NZ"}
                          /\ cc = None => Len(f) = 1 \/ f[1] \in Houses

\* A unit at the beginning, "4/12" or "unit 4", or behind a "#" is taken out
\* before the words are read; first is the end of the first of several components.
TakeUnit(text) ==
  LET f == Flat(text)
      n == IF Len(text) > 1 THEN Len(text[1]) ELSE 0
      hashes == {i \in DOMAIN f : f[i] \in DOMAIN Hashed}
      h == CHOOSE i \in First(hashes) : TRUE
  IN CASE text # <<>> /\ text[1] # <<>> /\ f[1] \in DOMAIN Slashed ->
            [unit |-> Slashed[f[1]][1], house |-> Slashed[f[1]][2], words |-> Tail(f), first |-> n - 1]
       [] hashes # {} -> [unit |-> Hashed[f[h]], house |-> None, words |-> Picked(f, DOMAIN f \ {h}),
                          first |-> IF h <= n THEN n - 1 ELSE n]
       [] Len(f) > 2 /\ f[1] \in UnitWords /\ f[2] \in Houses ->
            [unit |-> f[2], house |-> None, words |-> SubSeq(f, 3, Len(f)), first |-> n - 2]
       [] OTHER -> [unit |-> None, house |-> None, words |-> f, first |-> n]

\* The words that are left, up to a postcode at the end: a unit behind a unit
\* word, the first number in the place of a house number, and the first state.
\* Without a country the states are Australia's.
ReadWords(t, to, cc) ==
  LET f == t.words
      n == Len(f)
      c == IF cc = None THEN "AU" ELSE cc
      tab == IF c \in DOMAIN StateNames THEN StateNames[c] ELSE <<>>
      units == IF t.unit # None THEN {}
               ELSE First({i \in 1 .. Min2(to, n - 1) : f[i] \in UnitWords /\ f[i + 1] \in Houses})
      words == (1 .. to) \ (units \cup {i + 1 : i \in units})
      numbers == {i \in words : t.house = None /\ f[i] \in Houses /\ i \in {1, n, t.first}}
      states == {i \in words : n > 1 /\ f[i] \in DOMAIN tab /\ (c = "AU" \/ i = to)}
      The(S, at(_), else) == IF S = {} THEN else ELSE at(CHOOSE i \in First(S) : TRUE)
  IN [unit |-> The(units, LAMBDA i : f[i + 1], t.unit),
      house |-> The(numbers, LAMBDA i : f[i], t.house),
      pc |-> IF to < n THEN f[n] ELSE None,
      state |-> The(states, LAMBDA i : tab[f[i]], <<>>),
      rest |-> Picked(f, words \ (First(numbers) \cup First(states)))]

ReadIn(t, cc) == ReadWords(t, IF EndsInPostcode(t.words, cc) THEN Len(t.words) - 1 ELSE Len(t.words), cc)

\* Several countries are no country of which the states are known.
Parse(q) == ReadIn(TakeUnit(q.text), CASE q.cc = {} -> None
                                       [] Cardinality(q.cc) = 1 -> CHOOSE c \in q.cc : TRUE
                                       [] OTHER -> "several")

\* The fields of the caller come before p, what is read in the text.
House(q, p) == IF q.house # None THEN q.house ELSE p.house
Postcode(q, p) == IF q.pc # None THEN q.pc ELSE p.pc
Unit(q, p) == IF q.unit # None THEN q.unit ELSE p.unit

\* The text without its last word; an emptied component stays.
WithoutLast(text) == [text EXCEPT ![Len(text)] = Front(@)]

\* The country of a name, or of the code that the caller gives too.
CountryOf(t, explicit) == CASE t \in DOMAIN CountryNames -> CountryNames[t]
                            [] t \notin DOMAIN CountryNames /\ explicit = {t} -> t
                            [] OTHER -> None

\* country_suffix: a last component, or trailing word, that names a country.
CountrySuffix(q, explicit) ==
  IF /\ q.text # <<>> /\ Last(q.text) # <<>> /\ Len(Flat(q.text)) > 1
     /\ CountryOf(Last(Last(q.text)), explicit) # None
  THEN [cc |-> CountryOf(Last(Last(q.text)), explicit),
        body |-> IF Len(Last(q.text)) = 1 THEN Front(q.text) ELSE WithoutLast(q.text)]
  ELSE [cc |-> None, body |-> q.text]

----------------------------------------------------------------------------
\* search_once: what matches.

Same(t) == IF t \in DOMAIN Variants THEN Variants[t] ELSE {t}
\* In free text "st" is Saint or Street.
SameInText(t) == IF t = "st" THEN {"st", "street"} ELSE Same(t)
Localities(d) == ToSet(d.suburb) \cup d.extra

\* Mutant of StructuredMatch: the state is a wish.
StateIsAWish(d, q) ==
  /\ \A t \in ToSet(q.street) : Same(t) \cap ToSet(d.name) # {}
  /\ ToSet(q.city) \subseteq Localities(d)
  /\ q.cc # {} => d.cc \in q.cc

StructuredMatch(d, q) ==
  /\ \A t \in ToSet(q.street) : Same(t) \cap ToSet(d.name) # {}
  /\ ToSet(q.city) \subseteq Localities(d)
  /\ ToSet(q.state) \subseteq ToSet(d.state)
  /\ q.cc # {} => d.cc \in q.cc

\* alias_city_query: "nyc" in a longer text stands for its city.
AliasCity(t, d, q) ==
  /\ Len(Flat(q.text)) > 1
  /\ \E a \in WofAliases : /\ a.alias = t /\ (q.cc # {} => a.cc \in q.cc)
                           /\ ToSet(a.name) \subseteq Localities(d)

TextMatch(d, q, p) ==
  /\ q.state = <<>> => ToSet(p.state) \subseteq ToSet(d.state)
  /\ \A t \in ToSet(p.rest) :
       \/ SameInText(t) \cap ToSet(d.name) # {}
       \/ t \in d.alt \cup Localities(d) \cup ToSet(d.state)
       \/ AliasCity(t, d, q)

AddressKind(q) == q.kind \in {AnyKind, "address"}
ExactHouse(q, p, useHouse) == AddressKind(q) /\ useHouse /\ House(q, p) # None
ExactPostcode(q, p, usePostcode) == AddressKind(q) /\ usePostcode /\ Postcode(q, p) # None

\* Addresses are found by number or postcode only.
ExactMatch(d, q, p, useHouse, usePostcode, useUnit) ==
  /\ ExactHouse(q, p, useHouse) =>
       /\ d.hn = House(q, p)
       /\ Unit(q, p) # None => d.unit = IF useUnit THEN Unit(q, p) ELSE None
  /\ ExactPostcode(q, p, usePostcode) => d.pc = Postcode(q, p)
  /\ ExactHouse(q, p, useHouse) \/ ExactPostcode(q, p, usePostcode) \/ d.kind # "address"
  /\ q.kind # AnyKind => d.kind = q.kind

NoClause(q, p) == /\ q.street = <<>> /\ q.city = <<>> /\ q.state = <<>> /\ q.cc = {}
                  /\ p.rest = <<>> /\ p.state = <<>>

----------------------------------------------------------------------------
\* search_once: in which order.

DistM(i, j) == IF i < j THEN j - i ELSE i - j

\* WoF places the text names as a whole.
PlacesNamed(text) == {a \in WofAliases : <<a.alias>> = Flat(text)}
IsAliasedPlace(d, text) ==
  d.kind = "place" /\ \E a \in PlacesNamed(text) : <<a.cc, a.name, a.pos>> = <<d.cc, d.name, d.pos>>

\* synthesize_short_form: "Frankfurt am Main" is also "Frankfurt".
HasShortName(d, text) ==
  /\ d.kind = "place" /\ Len(d.name) > 2
  /\ \E i \in 2 .. Len(d.name) - 1 : d.name[i] \in Prepositions /\ Flat(text) = SubSeq(d.name, 1, i - 1)

ExactName(q, p) == /\ q.text # <<>> /\ ~HasComma(q) /\ House(q, p) = None /\ Postcode(q, p) = None
                   /\ q.street = <<>> /\ q.city = <<>> /\ q.state = <<>>

IsExact(d, q, p) == /\ ExactName(q, p)
                    /\ \/ d.kind \in {"place", "poi"} /\ d.name = Flat(q.text)
                       \/ HasShortName(d, q.text) \/ IsAliasedPlace(d, q.text)

\* A street type in the text, and no number that was used, asks for a street.
StreetIntent(q, p, useHouse) ==
  /\ ~useHouse \/ House(q, p) = None
  /\ ToSet(p.rest) \cap StreetTypes # {}

\* 0.2 ln(km + 1) in hundredths: 48 at 10 km and 14 more each time it doubles.
LogPenalty(far) == IF far = 0 THEN 0 ELSE 48 + 14 * Cardinality({k \in 1 .. 20 : 2^k <= far})

\* boosted_score, in hundredths.  Without a bias prominence counts, with one
\* distance does.
BoostedScore(d, bias) ==
  LET rank == IF d.kind = "poi" /\ d.rank < 20 THEN 20 ELSE d.rank
      up   == IF rank < 26 THEN Min2(100, 4 * (26 - rank)) ELSE 0
      far  == DistM(d.pos, bias)
      near == IF d.kind = "place" /\ far < 5 THEN ((5 - far) * d.imp * 10) \div 255 ELSE 0
  IN IF bias < 0 THEN d.score * (100 + up) + (d.imp * 150) \div 255
     ELSE d.score * (100 + near) + (d.imp * 400) \div 255 - LogPenalty(far)
            - (IF far > 50 THEN far - 50 ELSE 0)

\* ranking_key: exact matches first, by importance or, near a bias, distance.
RankingKey(d, bias, exact) ==
  CASE bias < 0 /\ exact -> 1000000 + d.imp
    [] bias >= 0 /\ exact /\ d.kind = "place" /\ DistM(d.pos, bias) <= 15 -> 1000000 - DistM(d.pos, bias)
    [] OTHER -> BoostedScore(d, bias)

Higher(a, b) == \E i \in DOMAIN a : a[i] > b[i] /\ \A j \in 1 .. i - 1 : a[j] = b[j]

\* The documents of S, the highest key first; equal keys in the order of ids (a
\* document that two searches found is there once for each score).
Ordered(S, key) ==
  LET Full(d) == key[d] \o <<-d.id, d.score, d.ci>>
  IN [i \in 1 .. Cardinality(S) |->
        CHOOSE d \in S : Cardinality({e \in S : Higher(Full(e), Full(d))}) = i - 1]

Truncate(hits, n) == SubSeq(hits, 1, Min2(n, Len(hits)))
Limit(q) == IF q.limit < 1 THEN 1 ELSE Min2(q.limit, 50)

\* Without a unit in the query, one hit for each building: the first.
OnePerAddress(hits) ==
  LET At(d) == <<d.kind, d.name, d.hn, d.pc, d.pos>>
  IN Picked(hits, {i \in DOMAIN hits : hits[i].kind = "address" =>
                                         \A j \in 1 .. i - 1 : At(hits[j]) # At(hits[i])})

\* The text score: a street type lifts streets, a WoF alias its place.
TextScore(d, q, p, useHouse) ==
  LET aliased == /\ ExactName(q, p) /\ d.kind = "place"
                 /\ \E a \in PlacesNamed(q.text) : ToSet(a.name) \subseteq ToSet(d.name)
  IN d.score + (IF StreetIntent(q, p, useHouse) /\ d.kind = "street" THEN 10 ELSE 0)
             + (IF aliased THEN 1000 ELSE 0)

\* contains_whole_phrase: the words stand in the text as they are.
HasPhrase(text, name) ==
  \E i \in DOMAIN text : \E k \in DOMAIN text[i] : IsPrefix(name, SubSeq(text[i], k, Len(text[i])))

\* What the score of a document fetched is raised to before the ranking.
Lifted(d, q, p, useHouse) ==
  [d EXCEPT !.score = CASE d.kind = "street" /\ StreetIntent(q, p, useHouse) -> (@ * 124) \div 100
                        [] d.kind = "address" /\ HasPhrase(q.text, d.name) -> (@ * 110) \div 100
                        [] OTHER -> @]

\* Mutant of Oversample: a bias fetches no more than another query.
SamePool(q, p) == Min2(3 * Limit(q), 150)

\* How many documents are ranked: the best by text score alone.
Oversample(q, p) == IF q.bias >= 0 THEN 3000
                    ELSE IF ExactName(q, p) /\ 3 * Limit(q) < 100 THEN 100 ELSE Min2(3 * Limit(q), 150)

\* The documents that match, with their text score.
Matching(docs, q, p, useHouse, usePostcode, useUnit) ==
  {[d EXCEPT !.score = TextScore(d, q, p, useHouse)] :
     d \in {x \in docs : /\ StructuredMatch(x, q) /\ TextMatch(x, q, p)
                        /\ ExactMatch(x, q, p, useHouse, usePostcode, useUnit)}}

Pool(S, q, p, useHouse) ==
  {Lifted(d, q, p, useHouse) : d \in ToSet(Truncate(Ordered(S, [d \in S |-> <<d.score>>]), Oversample(q, p)))}

\* Of equal keys an address without a unit comes first.
Ranked(pool, q, p) ==
  Ordered(pool, [d \in pool |->
    <<RankingKey(d, q.bias, IsExact(d, q, p)),
      IF Unit(q, p) = None /\ d.kind = "address" /\ d.unit = None THEN 1 ELSE 0>>])

TopHits(hits, q, p) == Truncate(IF Unit(q, p) = None THEN OnePerAddress(hits) ELSE hits, Limit(q))

SearchParsed(docs, q, p, useHouse, usePostcode, useUnit) ==
  IF NoClause(q, p) /\ ~ExactHouse(q, p, useHouse) /\ ~ExactPostcode(q, p, usePostcode)
  THEN <<>>
  ELSE TopHits(Ranked(Pool(Matching(docs, q, p, useHouse, usePostcode, useUnit), q, p, useHouse), q, p), q, p)

SearchOnce(docs, q, useHouse, usePostcode, useUnit) ==
  SearchParsed(docs, q, Parse(q), useHouse, usePostcode, useUnit)

----------------------------------------------------------------------------
\* The city at the end of the text, and search_strict.

NoCity == [name |-> <<>>, imp |-> 0]

MostImportant(S) ==
  IF S = {} THEN NoCity
  ELSE LET d == CHOOSE x \in S : \A y \in S : y.imp <= x.imp
       IN [name |-> d.name, imp |-> d.imp]

\* The most important city, town or municipality (rank 13 to 16) of that name.
LookupCity(docs, cc, tail) ==
  MostImportant({d \in ToSet(SearchOnce(docs, [NoQuery EXCEPT !.text = <<tail>>, !.cc = cc,
                                                  !.kind = "place", !.limit = 5], FALSE, FALSE, FALSE)) :
                   d.rank \in 13 .. 16 /\ d.name = tail})

\* The longest tail of f that is a city, and what comes before it.
LongestTail(f, cityOf) ==
  LET Named == {n \in DOMAIN cityOf : cityOf[n] # NoCity}
      n == CHOOSE x \in Named : \A y \in Named : y <= x
  IN IF Named = {} THEN [city |-> NoCity, body |-> <<>>]
     ELSE [city |-> cityOf[n], body |-> SubSeq(f, 1, Len(f) - n)]

TrailingCity(docs, q, f) ==
  IF \/ q.text = <<>> \/ HasComma(q) \/ q.city # <<>> \/ q.street # <<>> \/ q.kind = "place"
     \/ PlacesNamed(q.text) # {}
  THEN [city |-> NoCity, body |-> <<>>]
  ELSE LongestTail(f, [n \in {k \in 1 .. 3 : k < Len(f)} |->
                         LookupCity(docs, q.cc, SubSeq(f, Len(f) - n + 1, Len(f)))])

\* explains_query: 3 by the name, 2 with the city, 1 with the state, 0 not.
Explains(d, f) ==
  LET k == Len(d.name)
      rest == SubSeq(f, k + 1, Len(f))
  IN IF d.name = f THEN 3
     ELSE IF ~(k < Len(f) /\ IsPrefix(d.name, f)) THEN 0
     ELSE IF IsPrefix(rest, d.suburb) THEN 2 ELSE IF IsPrefix(rest, d.state) THEN 1 ELSE 0

Best(hits, f) == LET S == {Explains(d, f) : d \in ToSet(hits)}
                 IN IF S = {} THEN 0 ELSE CHOOSE x \in S : \A y \in S : y <= x

\* Hits carry the importance of their city for the merge of countries.
WithCity(hits, f, imp) ==
  [i \in DOMAIN hits |-> IF Explains(hits[i], f) = 2 THEN [hits[i] EXCEPT !.ci = imp] ELSE hits[i]]

\* The plain search, or the one in the trailing city t when that explains more.
InCity(q, f, t, plain, scoped) ==
  LET best == Best(plain, f)
      namesCity == \E d \in ToSet(plain) : d.kind = "place" /\ d.name = t.city.name
  IN IF q.text = <<>> THEN plain
     ELSE IF t.city = NoCity \/ best >= 2 \/ namesCity THEN WithCity(plain, f, t.city.imp)
     ELSE IF Best(scoped, f) >= 2 \/ (best < 1 /\ scoped # <<>>)
     THEN [i \in DOMAIN scoped |-> [scoped[i] EXCEPT !.ci = t.city.imp]]
     ELSE plain

StrictIn(docs, q, f, t) ==
  InCity(q, f, t, SearchOnce(docs, q, TRUE, TRUE, TRUE),
         SearchOnce(docs, [q EXCEPT !.text = <<t.body>>, !.city = t.city.name], TRUE, TRUE, TRUE))

SearchStrict(docs, q) == StrictIn(docs, q, Flat(q.text), TrailingCity(docs, q, Flat(q.text)))

----------------------------------------------------------------------------
\* The ladder in one shard; each rung is tried when those before it are empty.
\* One rung searches for a place of its own, with all of search_structured: find
\* gives the hits of that search (see FindPlace).

\* Mutant of Pick: the country's own index or nothing.
OwnIndexOnly(w, cc) == LET own == {c \in cc : c \in DOMAIN w}
                       IN IF own = {} THEN {} ELSE w[CHOOSE c \in own : TRUE]

\* pick: the index of the country, else the default one.
Pick(w, cc) ==
  LET own == {c \in cc : c \in DOMAIN w}
  IN IF own # {} THEN w[CHOOSE c \in own : TRUE]
     ELSE IF Default \in DOMAIN w THEN w[Default] ELSE {}

Or(a, b) == IF a # <<>> THEN a ELSE b
OrElse(S, T) == IF S # {} THEN S ELSE T

\* Full region names are in the state field.
RegionSuffix(docs, q) ==
  IF q.state = <<>> /\ q.city = <<>> /\ HasTail(q)
  THEN SearchOnce(docs, [q EXCEPT !.text = Front(@), !.state = Last(q.text)], TRUE, TRUE, TRUE)
  ELSE <<>>

BarePostcode(docs, q) ==
  IF /\ q.pc = None /\ q.house = None /\ q.street = <<>> /\ q.city = <<>> /\ q.state = <<>>
     /\ AddressKind(q) /\ Len(Flat(q.text)) = 1 /\ Flat(q.text)[1] \in Postcodes
  THEN SearchOnce(docs, [q EXCEPT !.text = <<>>, !.pc = Flat(q.text)[1], !.kind = "address"],
                  TRUE, TRUE, TRUE)
  ELSE <<>>

\* Unit, postcode, both, in this order, while the house number stays.
KeepHouse(docs, q, p) ==
  LET free == q.kind \notin {"address", "street"} /\ House(q, p) # None
      unit == Unit(q, p) # None
      code == Postcode(q, p) # None
  IN Or(IF free /\ unit THEN SearchOnce(docs, q, TRUE, TRUE, FALSE) ELSE <<>>,
     Or(IF free /\ code THEN SearchOnce(docs, q, TRUE, FALSE, TRUE) ELSE <<>>,
        IF free /\ code /\ unit THEN SearchOnce(docs, q, TRUE, FALSE, FALSE) ELSE <<>>))

\* The query at the place of an address with the postcode, in its suburb first.
Around(docs, q, located) ==
  LET there == IF located = <<>> THEN q ELSE [q EXCEPT !.bias = located[1].pos]
  IN Or(IF located # <<>> /\ q.city = <<>> /\ located[1].suburb # <<>>
        THEN SearchOnce(docs, [there EXCEPT !.city = located[1].suburb], FALSE, FALSE, FALSE)
        ELSE <<>>,
        SearchOnce(docs, there, FALSE, FALSE, FALSE))

\* Then the house number and the postcode go; a postcode still says where.
DropNumbers(docs, q, p) ==
  LET hasText == q.street # <<>> \/ q.city # <<>> \/ q.state # <<>> \/ p.rest # <<>>
  IN IF q.kind # "address" /\ (House(q, p) # None \/ Postcode(q, p) # None) /\ hasText
     THEN Around(docs, q,
            IF q.bias < 0 /\ House(q, p) = None /\ p.pc # None
            THEN SearchOnce(docs, [q EXCEPT !.text = <<>>, !.pc = p.pc, !.kind = "address", !.limit = 1],
                            FALSE, TRUE, FALSE)
            ELSE <<>>)
     ELSE <<>>

\* Latin tokens before an admin name in another script.
MixedScript(docs, q) ==
  LET f == Flat(q.text)
      latin == SelectSeq(f, LAMBDA t : t \notin NonLatin)
      words == {i \in DOMAIN latin : latin[i] \notin Houses \cup Postcodes}
  IN IF Len(latin) < Len(f) /\ Cardinality(words) > 1 /\ 1 \notin words
     THEN SearchOnce(docs, [q EXCEPT !.text = <<latin>>], TRUE, TRUE, TRUE) ELSE <<>>

\* The rungs of a text without a comma.
ShortLadder(docs, q) ==
  Or(RegionSuffix(docs, q), Or(BarePostcode(docs, q), Or(SearchStrict(docs, q),
    IF q.pc # None THEN <<>>
    ELSE Or(KeepHouse(docs, q, Parse(q)), DropNumbers(docs, q, Parse(q))))))

Hint(find, x) == IF x \in DOMAIN find THEN find[x] ELSE <<>>

\* What follows the first comma goes; its first component is a hint where.
AtHint(docs, q, state, place) ==
  SearchOnce(docs, [q EXCEPT !.text = <<q.text[1]>>, !.state = state,
                             !.bias = IF place # <<>> THEN place[1].pos ELSE @], FALSE, FALSE, FALSE)

DropLocationSuffix(w, q, find) ==
  LET state == IF q.state = <<>> THEN Parse(q).state ELSE q.state
  IN IF HasComma(q) /\ q.text[1] # <<>> /\ q.pc = None
     THEN AtHint(Pick(w, q.cc), q, state,
            IF q.bias < 0 /\ q.city = <<>> /\ q.text[2] # <<>>
            THEN Hint(find, <<q.text[2], state, q.cc>>) ELSE <<>>)
     ELSE <<>>

Ladder(w, q, find) ==
  LET docs == Pick(w, q.cc)
  IN Or(ShortLadder(docs, q),
        IF q.pc # None THEN <<>> ELSE Or(DropLocationSuffix(w, q, find), MixedScript(docs, q)))

----------------------------------------------------------------------------
\* The search over several countries.

Bare(q) == /\ q.kind = AnyKind /\ q.street = <<>> /\ q.city = <<>> /\ q.state = <<>>
           /\ q.house = None /\ q.pc = None

\* "San Francisco, CA": a place and its region, in each country's spelling, or a
\* place and its country.
RegionReadings(q, cs) ==
  LET region == Last(q.text)
      base == [q EXCEPT !.text = Front(@), !.kind = "place", !.limit = IF @ < 10 THEN 10 ELSE Limit(q)]
  IN {[base EXCEPT !.state = StateName(c, region), !.cc = {c}] : c \in cs}
     \cup {[base EXCEPT !.cc = {c}] : c \in {x \in cs : region = <<x>>}}

ByProminence(S, q) ==
  Truncate(Ordered(S, [d \in S |-> <<IF d.rank = 16 THEN 1 ELSE 0, d.imp, d.score>>]), Limit(q))

RegionPlaces(w, q, cs, find) ==
  IF Bare(q) /\ HasTail(q) /\ ToSet(Last(q.text)) \cap (Houses \cup Postcodes) = {}
  THEN ByProminence(UNION {{d \in ToSet(Ladder(w, x, find)) : d.name = Flat(x.text) /\ x.state \in {<<>>, d.state}} :
                             x \in RegionReadings(q, cs)}, q)
  ELSE <<>>

\* "Main Street, Paris": the most prominent place of that name says where.
NearPlace(w, q, places, find) ==
  LET place == Ordered(places, [d \in places |-> <<d.imp, BoostedScore(d, -1)>>])[1]
  IN IF places = {} THEN <<>> ELSE Ladder(w, [q EXCEPT !.cc = {place.cc}, !.bias = place.pos], find)

StreetInLocality(w, q, cs, find) ==
  IF /\ Bare(q) /\ q.bias < 0 /\ HasTail(q)
     /\ ToSet(Flat(Front(q.text))) \cap (Houses \cup Postcodes) = {}
  THEN NearPlace(w, q,
         UNION {{d \in ToSet(Ladder(w, [NoQuery EXCEPT !.text = <<Last(q.text)>>, !.cc = {c}, !.kind = "place"], find)) :
                   d.name = Last(q.text)} : c \in cs}, find)
  ELSE <<>>

\* The postcode by which countries are chosen: without a country the last word may
\* have been read as a house number, so its shape is enough.
NamedPostcode(q) ==
  LET code == Postcode(q, Parse([q EXCEPT !.cc = {}]))
      f == Flat(q.text)
  IN IF code = None /\ Len(f) > 1 /\ Last(f) \in Postcodes THEN Last(f) ELSE code

\* Countries with an address of the postcode, if there are any.
KnownCountries(w, q, cs) ==
  OrElse({c \in cs : /\ NamedPostcode(q) # None
                    /\ SearchOnce(Pick(w, {c}), [NoQuery EXCEPT !.pc = NamedPostcode(q), !.cc = {c},
                                                                !.kind = "address", !.limit = 1],
                                  FALSE, TRUE, FALSE) # <<>>}, cs)

\* Mutant of FanoutHits: every country climbs its own ladder.
RelaxEverywhere(w, q, cs, find) == UNION {ToSet(Ladder(w, [q EXCEPT !.cc = {c}], find)) : c \in cs}

\* A strict match in one country beats a relaxed one in another, unless there
\* is a bias: then the distance decides.
FanoutHits(w, q, cs, find) ==
  OrElse(IF q.bias >= 0 THEN {}
         ELSE UNION {ToSet(SearchStrict(Pick(w, {c}), [q EXCEPT !.cc = {c}])) : c \in cs},
         UNION {ToSet(Ladder(w, [q EXCEPT !.cc = {c}], find)) : c \in cs})

\* The order of the merge: text scores of two shards are not comparable, so how
\* well a hit explains the text and its prominence come first.
MergeKey(d, q) ==
  LET exactPlace == q.bias < 0 /\ q.house = None /\ q.pc = None /\ q.street = <<>>
      digit == Flat(q.text) # <<>> /\ Flat(q.text)[1] \in Houses \cup Postcodes
      aliased == exactPlace /\ (IsAliasedPlace(d, q.text) \/ HasShortName(d, q.text))
      full == IF aliased THEN 3 ELSE Explains(d, Flat(q.text))
      prominence == IF exactPlace /\ d.kind = "place" /\ (aliased \/ d.name = Flat(q.text))
                    THEN d.imp ELSE 0
      address == (q.house # None \/ digit) /\ q.bias < 0 /\ d.kind = "address"
      first == IF address THEN 1 ELSE 0
  IN IF q.bias >= 0 THEN <<first, full, prominence, RankingKey(d, q.bias, full = 3)>>
     ELSE <<first, full, prominence, d.ci, IF full = 0 THEN 0 ELSE d.imp, BoostedScore(d, -1)>>

Merged(S, q) == Truncate(Ordered(S, [d \in S |-> MergeKey(d, q)]), Limit(q))

Fanout(w, q, cs, find) ==
  Or(RegionPlaces(w, q, cs, find), Or(StreetInLocality(w, q, cs, find),
     Merged(FanoutHits(w, q, KnownCountries(w, q, cs), find), q)))

Inner(w, q, find) ==
  IF Cardinality(q.cc) > 1 \/ (q.cc = {} /\ Default \notin DOMAIN w)
  THEN Fanout(w, q, IF q.cc = {} THEN DOMAIN w ELSE q.cc, find)
  ELSE Ladder(w, q, find)

\* "CA" is Canada or California.
BothReadings(q) ==
  /\ q.cc = {} /\ HasComma(q) /\ Last(q.text) # <<>> /\ Last(Last(q.text)) = "CA"
  /\ Len(q.text) > 2 \/ Len(Last(q.text)) > 1

\* A country at the end of the text narrows the search unless the caller has
\* chosen another one.
Readings(q, s) ==
  CASE BothReadings(q) -> {[q EXCEPT !.text = WithoutLast(@), !.cc = {"CA"}], [q EXCEPT !.cc = {"US"}]}
    [] ~BothReadings(q) /\ s.cc # None /\ (q.cc = {} \/ s.cc \in q.cc) -> {[q EXCEPT !.text = s.body, !.cc = {s.cc}]}
    [] OTHER -> {q}

\* The hits of one reading as they are, of two by their score.
Joined(answers, q) ==
  LET S == UNION {ToSet(a) : a \in answers}
  IN IF BothReadings(q) THEN Truncate(Ordered(S, [d \in S |-> <<BoostedScore(d, q.bias)>>]), q.limit)
     ELSE CHOOSE a \in answers : TRUE

SearchInner(w, q, find) == Joined({Inner(w, x, find) : x \in Readings(q, CountrySuffix(q, q.cc))}, q)

----------------------------------------------------------------------------
\* Repair of whitespace in the street.

RequestedAddressMatches(q, d, street) ==
  /\ d.kind = "address" /\ d.hn # None
  /\ q.house # None => d.hn = q.house
  /\ q.city # <<>> => d.suburb = q.city
  /\ q.state # <<>> => d.state = q.state
  /\ q.cc # {} => d.cc \in q.cc
  /\ q.unit # None => d.unit = q.unit
  /\ q.pc # None => d.pc = q.pc
  /\ street # <<>> => d.name = street

\* A document found by several candidates is one hit.
Plain(d) == [d EXCEPT !.score = 0, !.ci = 0]

\* Mutant of SameRepairedAddress: the same number in the same town will do.
SameNumber(d, e) == d.hn = e.hn /\ d.suburb = e.suburb

SameRepairedAddress(d, e) ==
  <<d.name, d.hn, d.unit, d.suburb, d.state, d.cc, d.pc, d.pos>>
    = <<e.name, e.hn, e.unit, e.suburb, e.state, e.cc, e.pc, e.pos>>

\* whitespace_candidates: one space more or less, where the index has the words.
WhitespaceCandidates(docs, street) ==
  LET Indexed(t) == \E d \in docs : t \in ToSet(d.name)
      Put(i, k, with) == SubSeq(street, 1, i - 1) \o with \o SubSeq(street, i + k, Len(street))
  IN {Put(i, 2, <<JoinOf[<<street[i], street[i + 1]>>]>>) :
        i \in {k \in 1 .. Len(street) - 1 : /\ <<street[k], street[k + 1]>> \in DOMAIN JoinOf
                                            /\ Indexed(JoinOf[<<street[k], street[k + 1]>>])}}
     \cup UNION {{Put(i, 1, p) : p \in {x \in DOMAIN JoinOf : JoinOf[x] = street[i]
                                                             /\ Indexed(x[1]) /\ Indexed(x[2])}} :
                  i \in DOMAIN street}

\* One address, or nothing.
OneAddress(hits, q) ==
  IF \E d, e \in hits : ~SameRepairedAddress(d, e) THEN <<>>
  ELSE Truncate(Ordered(hits, [d \in hits |-> <<0>>]), q.limit)

\* The addresses that the candidates have found, if none filled its page.
RepairedBy(q, found) ==
  LET good == {s \in DOMAIN found : found[s] # <<>> /\ RequestedAddressMatches(q, found[s][1], s)}
  IN IF \E s \in good : Len(found[s]) >= Page THEN <<>>
     ELSE OneAddress(UNION {{Plain(d) : d \in {x \in ToSet(found[s]) : RequestedAddressMatches(q, x, s)}} :
                              s \in good}, q)

TryCandidates(docs, q, cands) ==
  IF Cardinality(cands) > MaxCandidates THEN <<>>
  ELSE RepairedBy(q, [s \in cands |->
         SearchStrict(docs, [q EXCEPT !.street = s, !.kind = "address", !.limit = Page])])

RepairStreet(w, q, original) ==
  IF \/ q.text # <<>> \/ q.limit = 0 \/ ~AddressKind(q) \/ q.house = None
     \/ (q.city = <<>> /\ q.pc = None) \/ Cardinality(q.cc) # 1 \/ q.street = <<>>
     \/ (original # <<>> /\ RequestedAddressMatches(q, original[1], <<>>))
  THEN <<>>
  ELSE TryCandidates(Pick(w, q.cc), q, WhitespaceCandidates(Pick(w, q.cc), q.street))

\* The unit before an address: "unit 4" or "#4".
LeadingUnit(ws) ==
  CASE Len(ws) > 1 /\ ws[1] \in UnitWords -> [unit |-> ws[2], len |-> 2]
    [] ws # <<>> /\ ws[1] \in DOMAIN Hashed -> [unit |-> Hashed[ws[1]], len |-> 1]
    [] OTHER -> [unit |-> None, len |-> 0]

\* Its number, which may have a unit before a slash.
HeadUnit(head) == IF head[1] \in DOMAIN Slashed THEN Slashed[head[1]][1] ELSE None
HeadHouse(head) == IF head[1] \in DOMAIN Slashed THEN Slashed[head[1]][2] ELSE head[1]

\* whitespace_address_span: a number and a street, with no state or postcode and
\* no other unit than is known.
IsHead(q, head, unit) ==
  LET p == Parse([q EXCEPT !.text = <<head>>])
  IN /\ Len(head) > 1 /\ HeadHouse(head) \in Houses
     /\ p.house = HeadHouse(head) /\ p.state = <<>> /\ p.pc = None
     /\ p.unit \in {None, unit}

Repairable(q) == Cardinality(q.cc) = 1 /\ q.street = <<>> /\ q.limit # 0 /\ AddressKind(q)
Kept(field, read, no) == IF field # no THEN field ELSE read

\* The fields are repaired unless they are found as they are typed.
RepairFields(w, fields, original) ==
  IF \/ fields.city = <<>> /\ fields.pc = None
     \/ original # <<>> /\ (original[1].name = fields.street
                              \/ RequestedAddressMatches(fields, original[1], <<>>))
     \/ \E d \in ToSet(SearchStrict(Pick(w, fields.cc), fields)) :
          RequestedAddressMatches(fields, d, fields.street)
  THEN <<>> ELSE RepairStreet(w, fields, original)

\* An address between commas, of which the unit has been read: its fields are
\* repaired, unless the caller's fields say something else.
RepairSections(w, q, original, sections, unit) ==
  LET cc == CHOOSE c \in q.cc : TRUE
      head == sections[1]
      code == IF Len(Last(sections)) = 1 /\ EndsInPostcode(Last(sections), cc) THEN Last(sections)[1] ELSE None
      mid == SubSeq(sections, 2, IF code = None THEN Len(sections) ELSE Len(sections) - 1)
      city == IF mid = <<>> THEN <<>> ELSE mid[1]
      state == IF Len(mid) < 2 THEN <<>> ELSE StateName(cc, mid[2])
      conflict == \/ q.house \notin {None, HeadHouse(head)}
                  \/ unit # None /\ q.unit \notin {None, unit}
                  \/ city # <<>> /\ q.city \notin {<<>>, city}
                  \/ state # <<>> /\ q.state \notin {<<>>, state}
                  \/ code # None /\ q.pc \notin {None, code}
  IN IF ~IsHead(q, head, unit) \/ Len(mid) > 2 \/ conflict
     THEN <<>>
     ELSE RepairFields(w, [q EXCEPT !.text = <<>>, !.street = Tail(head), !.house = HeadHouse(head),
                                    !.unit = Kept(@, unit, None),
                                    !.city = Kept(@, city, <<>>), !.state = Kept(@, state, <<>>),
                                    !.pc = Kept(@, code, None)], original)

\* A freeform "Unit 4, 12 Sunny Side, Town, State, Code" is read as fields and
\* repaired as such.  Two units, or a unit that is none, are not.
RepairDelimited(w, q, original) ==
  LET first == LeadingUnit(q.text[1])
      apart == first.unit # None /\ Len(q.text[1]) = first.len
      sections == IF apart THEN Tail(q.text) ELSE q.text
  IN IF \/ \E i \in DOMAIN q.text : q.text[i] = <<>>
        \/ apart /\ (first.unit \in DOMAIN Slashed \/ HeadUnit(sections[1]) # None)
     THEN <<>>
     ELSE RepairSections(w, q, original, sections, IF apart THEN first.unit ELSE HeadUnit(sections[1]))

\* plain_context_matches: what follows the street is the city, the state or both.
Context(tail, d, cc, hasCode) ==
  \/ tail = <<>>
  \/ d.suburb # <<>> /\ tail \in {d.suburb, d.suburb \o d.state}
  \/ hasCode /\ tail = d.state
  \/ /\ StateName(cc, <<Last(tail)>>) = d.state /\ cc \in DOMAIN StateNames
     /\ Last(tail) \in DOMAIN StateNames[cc]
     /\ IF Len(tail) = 1 THEN hasCode ELSE Front(tail) = d.suburb

\* One reading of a text without commas: a street of the words, what follows it,
\* and what is asked for.  The text is [ws, unit, code]: its words behind a unit
\* and before a postcode, and these.
Reading(q, t, b, street) ==
  LET ws == t.ws
  IN [typed |-> SubSeq(ws, 2, b), rest |-> SubSeq(ws, b + 1, Len(ws)),
      q |-> [q EXCEPT !.text = IF b = Len(ws) THEN <<>> ELSE <<SubSeq(ws, b + 1, Len(ws))>>,
                      !.house = HeadHouse(ws), !.unit = Kept(@, t.unit, None),
                      !.pc = Kept(@, t.code, None), !.street = street,
                      !.kind = "address", !.limit = Page]]

Fits(x, d) == /\ RequestedAddressMatches(x.q, d, x.q.street)
              /\ Context(x.rest, d, CHOOSE c \in x.q.cc : TRUE, x.q.pc # None)

\* A reading that holds as it is typed, a full page, or two different addresses
\* mean no repair.
UniqueRepair(q, found) ==
  LET good == {x \in DOMAIN found : \E d \in ToSet(found[x]) : Fits(x, d)}
  IN IF \/ \E x \in DOMAIN found : Len(found[x]) >= Page
        \/ \E x \in good : x.q.street = x.typed \/ ~Fits(x, found[x][1])
     THEN <<>>
     ELSE OneAddress(UNION {{Plain(d) : d \in {y \in ToSet(found[x]) : Fits(x, y)}} : x \in good}, q)

TryReadings(docs, q, original, typed, edits) ==
  IF \/ original # <<>> /\ \E x \in typed : Fits(x, original[1])
     \/ \E x \in typed : Cardinality({e \in edits : e.rest = x.rest}) > MaxCandidates
     \/ Cardinality(typed) + Cardinality(edits) > MaxStrict
  THEN <<>>
  ELSE UniqueRepair(q, [x \in typed \cup edits |-> SearchStrict(docs, x.q)])

\* The readings whose rest the index knows, and the edits of their streets.
TrySpans(docs, q, original, t, spans) ==
  LET ws == t.ws
      known == UNION {Localities(d) \cup ToSet(d.state) : d \in docs}
      tried == {b \in spans :
                  LET rest == SubSeq(ws, b + 1, Len(ws))
                      p == Parse([q EXCEPT !.text = <<rest>>]) IN
                  /\ q.house \in {None, HeadHouse(ws)}
                  /\ t.unit # None => q.unit \in {None, t.unit}
                  /\ t.code # None => q.pc \in {None, t.code}
                  /\ rest # <<>> \/ t.code # None \/ q.city # <<>> \/ q.pc # None
                  /\ ToSet(p.rest) \cup ToSet(p.state) \subseteq known}
  IN IF original # <<>> /\ \E b \in spans :
          /\ original[1].name = SubSeq(ws, 2, b)
          /\ Context(SubSeq(ws, b + 1, Len(ws)), original[1], CHOOSE c \in q.cc : TRUE,
                     Kept(q.pc, t.code, None) # None)
     THEN <<>>
     ELSE TryReadings(docs, q, original,
            {Reading(q, t, b, SubSeq(ws, 2, b)) : b \in tried},
            UNION {{Reading(q, t, b, s) : s \in WhitespaceCandidates(docs, SubSeq(ws, 2, b))} :
                     b \in tried})

\* Without commas every end of the street is tried, unless there are two units.
PlainWords(docs, q, original, ws, apart, code) ==
  LET unit == IF apart # None \/ ws = <<>> THEN apart ELSE HeadUnit(ws)
  IN TrySpans(docs, q, original, [ws |-> ws, unit |-> unit, code |-> code],
       {b \in 2 .. Len(ws) : /\ apart # None => apart \notin DOMAIN Slashed /\ HeadUnit(ws) = None
                             /\ IsHead(q, SubSeq(ws, 1, b), HeadUnit(ws))})

\* plain_whitespace_spans: the postcode and then a unit are taken off.
RepairPlain(w, q, original) ==
  LET f == Flat(q.text)
      code == IF EndsInPostcode(f, CHOOSE c \in q.cc : TRUE) THEN Last(f) ELSE None
      ws == IF code = None THEN f ELSE Front(f)
      first == LeadingUnit(ws)
      apart == first.unit # None /\ Len(ws) >= first.len + 2
  IN IF Len(f) < 3 THEN <<>>
     ELSE PlainWords(Pick(w, q.cc), q, original,
            IF apart THEN SubSeq(ws, first.len + 1, Len(ws)) ELSE ws,
            IF apart THEN first.unit ELSE None, code)

RepairFreeform(w, q, original) ==
  IF ~Repairable(q) THEN <<>>
  ELSE IF HasComma(q) THEN RepairDelimited(w, q, original) ELSE RepairPlain(w, q, original)

----------------------------------------------------------------------------
\* Correction of spelling and the whole search.

\* Documents with the word, counted in each field.
Frequency(docs, t) ==
  Cardinality({d \in docs : t \in ToSet(d.name)}) + Cardinality({d \in docs : t \in Localities(d)})
    + Cardinality({d \in docs : t \in ToSet(d.state)})
FrequencyOfTyped(docs, t) == Frequency(docs, t) + Cardinality({d \in docs : t \in d.alt})

\* correct_spelling: a rare word becomes a near one that is far more common.
Correct(docs, f) ==
  [i \in DOMAIN f |->
     IF /\ f[i] \in DOMAIN Misspelt
        /\ f[i] \notin ShortWords
        /\ Frequency(docs, Misspelt[f[i]])
             >= SpellingRatio * (IF FrequencyOfTyped(docs, f[i]) = 0 THEN 1 ELSE FrequencyOfTyped(docs, f[i]))
     THEN Misspelt[f[i]] ELSE f[i]]

\* Words of four letters or more that stay as they are typed.
KeptWords(docs, f) ==
  {f[i] : i \in {k \in DOMAIN f : /\ f[k] \notin Houses \cup Postcodes \cup ShortWords
                                  /\ Correct(docs, f)[k] = f[k]}}

HitNamesAll(d, words) == words \subseteq ToSet(d.name) \cup ToSet(d.suburb) \cup ToSet(d.state)

\* The words that stay must be in a hit of the corrected query.
NamingAll(hits, kept) == Picked(hits, {i \in DOMAIN hits : HitNamesAll(hits[i], kept)})

Respelt(w, q, fixed, docs, find) ==
  LET kept == UNION {KeptWords(docs, f) :
                       f \in {x \in {Flat(q.text), q.street, q.city} : Correct(docs, x) # x}}
  IN IF fixed = q THEN <<>> ELSE NamingAll(SearchInner(w, fixed, find), kept)

SpellingIn(w, q, docs, find) ==
  Respelt(w, q, [q EXCEPT !.text = [i \in DOMAIN q.text |-> Correct(docs, q.text[i])],
                          !.street = Correct(docs, @), !.city = Correct(docs, @)], docs, find)

\* Words are counted in every shard the query could reach.
SpellingDocs(w, q) ==
  LET s == CountrySuffix(q, {})
      cc == IF q.cc # {} THEN q.cc ELSE IF s.cc # None THEN {s.cc} ELSE {}
  IN IF cc = {} THEN UNION {w[x] : x \in DOMAIN w} ELSE UNION {Pick(w, {c}) : c \in cc}

Spelling(w, q, find) == SpellingIn(w, q, SpellingDocs(w, q), find)

\* A repair comes before the hits, a correction of the spelling after them.
Repaired(w, q, hits) == IF q.text # <<>> THEN RepairFreeform(w, q, hits) ELSE RepairStreet(w, q, hits)

OrRepaired(w, q, hits, find) == Or(Repaired(w, q, hits), Or(hits, Spelling(w, q, find)))

SearchFrom(w, q, find) == OrRepaired(w, q, SearchInner(w, q, find), find)

\* The place of name x[1] in state x[2] that the rung DropLocationSuffix looks
\* for.  The text has one component, so that this search never comes to that
\* rung itself.
FindPlace(w) ==
  [x \in Seq(STRING) \X Seq(STRING) \X {cc \in SUBSET STRING : IsFiniteSet(cc)} |->
     SearchFrom(w, [NoQuery EXCEPT !.text = <<x[1]>>, !.state = x[2], !.cc = x[3],
                                   !.kind = "place", !.limit = 1], <<>>)]

SearchStructured(w, q) == SearchFrom(w, q, FindPlace(w))

\* Mutant of SearchNearby: cut to the limit by text score, then sorted.
CutThenSort(w, q) ==
  LET docs == Pick(w, q.cc)
      S == {d \in docs : /\ q.cc # {} => d.cc \in q.cc
                         /\ q.kind # AnyKind => d.kind = q.kind
                         /\ DistM(d.pos, q.bias) <= NearRadius}
      best == ToSet(Truncate(Ordered(S, [d \in S |-> <<d.score>>]), Limit(q)))
  IN Ordered(best, [d \in best |-> <<-DistM(d.pos, q.bias)>>])

\* search_nearby: beside a required clause the words of the text are optional.
NearbyMatching(w, q) ==
  LET words == ToSet(Parse(q).rest)
      required == q.cc # {} \/ q.kind # AnyKind
  IN {d \in Pick(w, q.cc) : /\ q.cc # {} => d.cc \in q.cc
                            /\ q.kind # AnyKind => d.kind = q.kind
                            /\ (words # {} /\ ~required) => words \cap ToSet(d.name) # {}}
NearbyPool(q) == Min2(50 * Limit(q), 2000)

SearchNearby(w, q) ==
  LET found == NearbyMatching(w, q)
      pool == Truncate(Ordered(found, [d \in found |-> <<d.score>>]), NearbyPool(q))
      S == {d \in ToSet(pool) : DistM(d.pos, q.bias) <= NearRadius}
  IN Truncate(Ordered(S, [d \in S |-> <<-DistM(d.pos, q.bias)>>]), Limit(q))

----------------------------------------------------------------------------
\* Requests.  A query is answered in one step, because it changes nothing but
\* the cache of trailing cities; look-ups in that cache are steps of their own.

Idle == [step |-> "idle", cc |-> {}, tail |-> <<>>, city |-> NoCity]
NoAnswer == <<>>

Init == /\ world \in Worlds
        /\ shown = {world}
        /\ asked = [op |-> "none", q |-> NoQuery]
        /\ answer = NoAnswer
        /\ cache = <<>>
        /\ req = [r \in Requests |-> Idle]

Fresh == asked.op = "none" /\ cache = <<>> /\ req = [r \in Requests |-> Idle]

Search == /\ Fresh
          /\ \E q \in Questions : /\ asked' = [op |-> "search", q |-> q]
                                  /\ answer' = SearchStructured(world, q)
          /\ UNCHANGED <<world, shown, cache, req>>

Nearby == /\ Fresh
          /\ \E q \in NearbyQuestions : /\ asked' = [op |-> "nearby", q |-> q]
                                        /\ answer' = SearchNearby(world, q)
          /\ UNCHANGED <<world, shown, cache, req>>

\* A build commits to one directory, and its reader follows (reload_policy); the
\* questions above are asked of a world that stands still.
Reload ==
  /\ asked.op = "none" /\ world \in CacheWorlds
  /\ \E w \in CacheWorlds, x \in DOMAIN world :
       /\ DOMAIN w = DOMAIN world /\ \A y \in DOMAIN w \ {x} : w[y] = world[y]
       /\ world' = w /\ shown' = shown \cup {w}
  /\ UNCHANGED <<asked, answer, cache, req>>

\* Mutant of Key: countries share an entry.
TailOnly(dir, cc, tail) == <<dir, {}, tail>>

\* Every open directory has a cache of its own, by countries and tail.
Key(dir, cc, tail) == <<dir, cc, tail>>

\* Where pick sends a query of these countries.
PickDir(w, cc) == IF cc \cap DOMAIN w # {} THEN CHOOSE c \in cc : c \in DOMAIN w ELSE Default

BeginLookup(r) ==
  /\ req[r].step \in {"idle", "done"} /\ asked.op = "none" /\ world \in CacheWorlds
  /\ \E t \in Tails : req' = [req EXCEPT ![r] = [step |-> "get", cc |-> t.cc, tail |-> t.tail, city |-> NoCity]]
  /\ UNCHANGED <<world, shown, asked, answer, cache>>

KeyOf(x) == Key(PickDir(world, x.cc), x.cc, x.tail)

\* The lock is held for the look-up alone.
GetCached(r) ==
  /\ req[r].step = "get"
  /\ req' = IF KeyOf(req[r]) \in DOMAIN cache
            THEN [req EXCEPT ![r].step = "done", ![r].city = cache[KeyOf(req[r])]]
            ELSE [req EXCEPT ![r].step = "miss"]
  /\ UNCHANGED <<world, shown, asked, answer, cache>>

\* The search runs without the lock, on the commit that the reader shows.
FindCity(r) ==
  /\ req[r].step = "miss"
  /\ req' = [req EXCEPT ![r].step = "found",
                        ![r].city = LookupCity(Pick(world, req[r].cc), req[r].cc, req[r].tail)]
  /\ UNCHANGED <<world, shown, asked, answer, cache>>

\* Mutant of Room: the cache is cleared one entry too late.
RoomTooLate(dir) ==
  {k \in DOMAIN cache : k[1] = dir => Cardinality({x \in DOMAIN cache : x[1] = dir}) <= CacheCap}

\* What an insertion keeps: the cache of a directory at capacity is cleared.
Room(dir) ==
  {k \in DOMAIN cache : k[1] = dir => Cardinality({x \in DOMAIN cache : x[1] = dir}) < CacheCap}

PutCached(r) ==
  /\ req[r].step = "found"
  /\ LET k == KeyOf(req[r])
     IN cache' = [x \in Room(k[1]) \cup {k} |-> IF x = k THEN req[r].city ELSE cache[x]]
  /\ req' = [req EXCEPT ![r].step = "done"]
  /\ UNCHANGED <<world, shown, asked, answer>>

Next == \/ Search \/ Nearby \/ Reload
        \/ \E r \in Requests : BeginLookup(r) \/ GetCached(r) \/ FindCity(r) \/ PutCached(r)

Spec == Init /\ [][Next]_vars

----------------------------------------------------------------------------
Docs == UNION {world[x] : x \in DOMAIN world}
Searched == asked.op = "search"

\* The state has its type: an answer is made of documents of the world, no more
\* than were asked for, and the cache keeps to its capacity.
TypeOK ==
  /\ {d.id : d \in ToSet(answer)} \subseteq {d.id : d \in Docs}
  /\ Searched => Len(answer) <= Limit(asked.q)
  /\ \A dir \in {k[1] : k \in DOMAIN cache} : Cardinality({k \in DOMAIN cache : k[1] = dir}) <= CacheCap

\* A hit is in the city, state, country and postcode asked for and of the kind
\* asked for.
Meets(d, q) ==
  /\ q.cc # {} => d.cc \in q.cc
  /\ q.kind # AnyKind => d.kind = q.kind
  /\ ToSet(q.state) \subseteq ToSet(d.state)
  /\ ToSet(q.city) \subseteq Localities(d)
  /\ (q.pc # None /\ AddressKind(q)) => d.pc = q.pc

\* "Explicit filters remain constraints: a miss in New York must not turn into a
\* result in Chicago or Canada": whatever rung, country or repair found it, a
\* hit meets the filters, at most with the spelling of the city corrected.
FiltersHold ==
  Searched => \A d \in ToSet(answer) :
    \/ Meets(d, asked.q)
    \/ Meets(d, [asked.q EXCEPT !.city = Correct(SpellingDocs(world, asked.q), @)])

\* The documents a query may reach: those of its countries, or of every country
\* when none is named and there is no default index.
Reach(q) ==
  {d \in Docs : IF q.cc = {} THEN Default \in DOMAIN world => d \in world[Default]
               ELSE d.cc \in q.cc /\ (d.cc \in DOMAIN world => d \in world[d.cc])}

\* An address is found by its own fields, in every layout of the index and
\* whatever countries are searched, and comes first.
OwnFieldsFind ==
  (Searched /\ asked.q.street # <<>> /\ asked.q.house # None) =>
    \A d \in Reach(asked.q) :
      (d.kind = "address" /\ StructuredMatch(d, asked.q) /\ RequestedAddressMatches(asked.q, d, <<>>)) =>
        answer # <<>> /\ answer[1].hn = d.hn /\ StructuredMatch(answer[1], asked.q)

\* ranking_key: "Exact places within 150 km rank nearest first, within a shard and
\* across countries", whatever their text score, their importance and the limit.
NearestExactFirst ==
  (Searched /\ asked.q.bias >= 0 /\ ExactName(asked.q, Parse(asked.q)) /\ asked.q.kind # "address"
     /\ CountrySuffix(asked.q, asked.q.cc).cc = None) =>
    \A d \in Reach(asked.q) :
      (d.kind = "place" /\ d.name = Flat(asked.q.text) /\ DistM(d.pos, asked.q.bias) <= 15) =>
        /\ answer # <<>> /\ answer[1].kind = "place"
        /\ DistM(answer[1].pos, asked.q.bias) <= DistM(d.pos, asked.q.bias)

\* search_structured_inner: without a bias, a hit that drops a word is never
\* shown while another country has every word.
StrictBeatsRelaxed ==
  (Searched /\ asked.q.text # <<>> /\ ~HasComma(asked.q) /\ asked.q.bias < 0
     /\ CountrySuffix(asked.q, asked.q.cc).cc = None
     /\ \E d \in Docs : /\ StructuredMatch(d, asked.q) /\ TextMatch(d, asked.q, Parse(asked.q))
                        /\ ExactMatch(d, asked.q, Parse(asked.q), TRUE, TRUE, TRUE))
   => \A d \in ToSet(answer) : /\ TextMatch(d, asked.q, Parse(asked.q))
                               /\ ExactMatch(d, asked.q, Parse(asked.q), TRUE, TRUE, TRUE)

\* A hit whose street has a space more or less than what was typed.
HasRepairedStreet(d, q) ==
  LET typed == ToSet(Flat(q.text)) \cup ToSet(q.street)
      named == ToSet(d.name)
  IN d.kind = "address" /\ \E p \in DOMAIN JoinOf :
       \/ JoinOf[p] \in named \ typed /\ ToSet(p) \subseteq typed
       \/ JoinOf[p] \in typed \ named /\ ToSet(p) \subseteq named

\* repair_street_whitespace, repair_freeform_whitespace and repair_plain_whitespace
\* guess only when one address is left: an answer with a repaired street is one
\* address, and it has the number, the postcode and every field asked for.
RepairIsOneAddress ==
  Searched => \A d, e \in ToSet(answer) :
    HasRepairedStreet(d, asked.q) => /\ <<d.name, d.suburb, d.cc, d.pos>> = <<e.name, e.suburb, e.cc, e.pos>>
                            /\ d.hn = House(asked.q, Parse(asked.q))
                            /\ Postcode(asked.q, Parse(asked.q)) \in {None, d.pc}
                            /\ Unit(asked.q, Parse(asked.q)) \in {None, d.unit}
                            /\ RequestedAddressMatches(asked.q, d, <<>>)

\* trailing_city: a look-up through the cache answers what the index of its
\* countries answers for this tail, or has answered since the server started
\* (a reload empties no cache), whatever other requests, clearings and reloads
\* come between its two locks.
CacheTransparent ==
  \A r \in Requests : req[r].step = "done" =>
    \E w \in shown : req[r].city = LookupCity(Pick(w, req[r].cc), req[r].cc, req[r].tail)

\* /nearby: hits are within the radius, the nearest first, and of all documents
\* that pass the filters none is left out for a farther one (unless more match
\* than are fetched).
NearbyIsNearest ==
  asked.op = "nearby" =>
    LET q == asked.q
        Far(d) == DistM(d.pos, q.bias)
    IN /\ \A i, j \in DOMAIN answer : Far(answer[i]) <= NearRadius /\ (i < j => Far(answer[i]) <= Far(answer[j]))
       /\ Cardinality(NearbyMatching(world, q)) <= NearbyPool(q) =>
          \A d \in Pick(world, q.cc), i \in DOMAIN answer :
            (/\ d.id \notin {x.id : x \in ToSet(answer)} /\ (q.cc # {} => d.cc \in q.cc)
             /\ q.kind \in {AnyKind, d.kind} /\ ToSet(Parse(q).rest) \subseteq ToSet(d.name))
            => Far(answer[i]) <= Far(d)

\* An answer is what was asked for: of a search within its filters, of /nearby
\* the nearest.
AnswersAreMeant == FiltersHold /\ NearbyIsNearest

\* An address is found by its own fields, and a repair answers with one address.
AddressesAreMeant == OwnFieldsFind /\ RepairIsOneAddress

\* The order of hits keeps its promises whatever the pool, the page and the
\* shards: nearest exact names first, and whole matches before relaxed ones.
RankingHolds == NearestExactFirst /\ StrictBeatsRelaxed

\* The caches of trailing cities keep to their capacity and answer nothing that
\* the index has not.
CacheHolds == TypeOK /\ CacheTransparent
=============================================================================
