----------------------------- MODULE MCFetchRun -----------------------------
(* TLC instances of FetchRun. *)
EXTENDS FetchRun

TwoContinents == {"australia-oceania", "europe"}
PlanetScope == [ds \in Datasets |-> {ds}]

\* The second G-NAF release has a file more.
TwoReleases == [p \in Pubs |-> IF p = 0 THEN {"act"} ELSE {"act", "nsw"}]

Line(k, v) == [key |-> k, val |-> v]

\* A body as Geofabrik serves it, one with lines that are dropped and a field
\* given twice, and the bodies parse refuses.
Bodies == {
    <<Line("comment", "c1"), Line("timestamp", "t1"), Line("sequenceNumber", "s1")>>,
    <<Line("sequenceNumber", "s0"), Line("blank", ""), Line("comment", "c1"),
      Line("timestamp", "t1"), Line("txnMax", "x"), Line("sequenceNumber", "s1")>>,
    <<Line("timestamp", "bad"), Line("sequenceNumber", "s1")>>,
    <<Line("timestamp", "t1")>>,
    <<Line("timestamp", "t1"), Line("sequenceNumber", "s1"), Line("garbage", "")>> }

Nothing == [region |-> "none", admin |-> FALSE, postalcode |-> FALSE, oa |-> FALSE,
            maxmind |-> FALSE, gnaf |-> FALSE, force |-> FALSE, key |-> FALSE,
            fallback |-> FALSE, gnafUrl |-> "unset"]

Osm(regions) == {[Nothing EXCEPT !.region = r, !.force = f] :
                    r \in regions, f \in BOOLEAN}

Wof == {[Nothing EXCEPT !.admin = TRUE, !.postalcode = TRUE],
        [Nothing EXCEPT !.admin = TRUE, !.force = TRUE]}

Ip == {[Nothing EXCEPT !.maxmind = TRUE, !.key = k, !.fallback = b, !.force = f] :
            k \in BOOLEAN, b \in BOOLEAN, f \in BOOLEAN}

Gnaf == {[Nothing EXCEPT !.gnaf = TRUE, !.gnafUrl = u, !.force = f] :
            u \in {"unset", "bad", "good"}, f \in BOOLEAN}

\* Several sources in one run, and none at all.
Several == {Nothing,
            [Nothing EXCEPT !.region = "us", !.admin = TRUE, !.oa = TRUE, !.maxmind = TRUE,
                            !.gnaf = TRUE]}

AllCrontabs == {Osm({"all-continents", "planet", "oceania", "atlantis"}), Wof, Ip, Gnaf,
                Several}

\* A planet deployment whose operator adds one extract.
PlanetAndExtract == {Osm({"planet", "uk"})}
=============================================================================
