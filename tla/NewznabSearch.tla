--------------------------- MODULE NewznabSearch ---------------------------
(***************************************************************************)
(* One search over the configured Newznab or Torznab indexers: they are    *)
(* asked one after the other, each answer is filtered, collapsed to one    *)
(* post per software name and version and ordered, and an indexer that     *)
(* fails does not keep the others from being asked.                        *)
(*                                                                         *)
(* Titles are abstracted to what the filters tell apart.  The health       *)
(* counters written after every answer are the INI file's matter           *)
(* (IniSettings).                                                          *)
(***************************************************************************)
EXTENDS VersionOrder

CONSTANTS
    Indexers,   \* number of enabled indexers
    Posts,      \* the items the indexers may list
    MaxPosts,   \* bound on the items of one answer
    Terms,      \* canonical name and aliases of the software entry
    Threshold,  \* FUZZY_MATCH_THRESHOLD, as a similarity
    Contained,  \* the similarity of a title that contains the term (1.0)
    NoNumber    \* a size attribute that is no number

ASSUME NewznabAssumption ==
    /\ Indexers \in Nat /\ MaxPosts \in Nat
    /\ Threshold \in Nat /\ Contained \in Nat /\ Threshold <= Contained
    /\ \A p \in Posts :
          /\ p.complete \in BOOLEAN          \* has a title and a link
          /\ p.segment \in BOOLEAN           \* PAR2, SFV, NFO, part of a RAR
          /\ p.like \in [Terms -> 0..Contained]
          /\ p.versions \in Seq(Seq(Nat))    \* the version-like parts of it
          /\ p.size \in Nat \cup {NoNumber}

VARIABLES
    asked,      \* how many indexers have been asked
    answers,    \* the lists of those that answered
    results     \* what the search has so far

searchVars == <<asked, answers, results>>

-----------------------------------------------------------------------------

FuzzyMatches(p) ==
    \E t \in Terms : p.like[t] = Contained \/ p.like[t] >= Threshold

\* The best ratio over the terms, 0 for an entry without any.
MatchScore(p) ==
    CHOOSE s \in {0} \cup {p.like[t] : t \in Terms} :
        \A t \in Terms : p.like[t] <= s

\* The version-like part with the most components, the first of them.
ExtractVersion(p) ==
    IF p.versions = <<>> THEN Unknown
    ELSE Plain(p.versions[SelectInSeq(p.versions,
                  LAMBDA n : \A i \in DOMAIN p.versions :
                                Len(p.versions[i]) <= Len(n))])

Usable(p) == p.complete /\ ~p.segment /\ FuzzyMatches(p)

Candidate(p) == [name |-> p.name, ver |-> ExtractVersion(p),
                 score |-> MatchScore(p), size |-> p.size]

SameKey(c, d) == c.name = d.name /\ c.ver = d.ver

\* The map of the best post per key, in the order its keys were first seen.
\* Variant with a bug: the last post of a key is kept.
KeepLast(kept, c) ==
    LET at == SelectInSeq(kept, LAMBDA d : SameKey(c, d))
    IN  IF at = 0 THEN Append(kept, c) ELSE ReplaceAt(kept, at, c)
KeepBest(kept, c) ==
    LET at == SelectInSeq(kept, LAMBDA d : SameKey(c, d))
    IN  IF at = 0 THEN Append(kept, c)
        ELSE IF c.size > kept[at].size THEN ReplaceAt(kept, at, c) ELSE kept

RanksBelow(c, d) ==
    c.score < d.score \/ (c.score = d.score /\ c.size < d.size)

\* sorted(..., reverse=True) is stable.
Place(sorted, c) ==
    LET at == SelectInSeq(sorted, LAMBDA d : RanksBelow(d, c))
    IN  IF at = 0 THEN Append(sorted, c) ELSE InsertAt(sorted, at, c)

\* The map after the last item of an answer.
Collapse(list) ==
    LET best[i \in 0..Len(list)] ==
            IF i = 0 THEN <<>>
            ELSE IF Usable(list[i]) THEN KeepBest(best[i - 1], Candidate(list[i]))
            ELSE best[i - 1]
    IN  best[Len(list)]

Ranked(found) ==
    LET order[i \in 0..Len(found)] ==
            IF i = 0 THEN <<>> ELSE Place(order[i - 1], found[i])
    IN  order[Len(found)]

ParseResponse(list) == Ranked(Collapse(list))

\* int() of the size raises, in the middle of the list: all of it is lost.
Unreadable(list) ==
    \E i \in DOMAIN list : Usable(list[i]) /\ list[i].size = NoNumber

-----------------------------------------------------------------------------

SearchInit ==
    /\ asked = 0
    /\ answers = <<>>
    /\ results = <<>>

\* The next indexer answers with a list.
Answer(list) ==
    /\ asked < Indexers
    /\ ~Unreadable(list)
    /\ asked' = asked + 1
    /\ answers' = Append(answers, list)
    /\ results' = results \o ParseResponse(list)

\* Another status than 200, too long an answer, a timeout, or a size that is
\* no number: the search goes on with the next indexer.  XML that does not
\* parse is an empty answer.
AnswerFails ==
    /\ asked < Indexers
    /\ asked' = asked + 1
    /\ UNCHANGED <<answers, results>>

SearchNext ==
    \/ \E list \in BoundedSeq(Posts, MaxPosts) : Answer(list)
    \/ AnswerFails

SearchSpec == SearchInit /\ [][SearchNext]_searchVars

-----------------------------------------------------------------------------

\* Nothing usable that any indexer listed is lost to another indexer's
\* failure, to the collapsing or to the ordering: each such post is there
\* itself or stands behind a larger one of its name and version, once per
\* answer, and no result matches worse than the threshold.  The two
\* functions that judge a match, one to filter and one to rank, agree.
BestPostPerKey ==
    /\ \A n \in DOMAIN answers : \A i \in DOMAIN answers[n] :
          Usable(answers[n][i]) =>
             \E k \in DOMAIN results :
                /\ SameKey(results[k], Candidate(answers[n][i]))
                /\ results[k].size >= answers[n][i].size
    /\ \A k \in DOMAIN results :
          /\ results[k].score >= Threshold
          /\ Cardinality({j \in DOMAIN results : SameKey(results[j], results[k])})
                <= Len(answers)
    /\ Len(answers) = 1 =>
          \A k \in 2..Len(results) : ~RanksBelow(results[k - 1], results[k])

\* What a result can be: a usable post of a size that is a number.
Hits == {Candidate(p) : p \in {q \in Posts : Usable(q) /\ q.size # NoNumber}}

\* The strengthening that is inductive.
SearchInv ==
    /\ asked \in 0..Indexers /\ Len(answers) <= asked
    /\ answers \in Seq(Seq(Posts))
    /\ results \in Seq(Hits)
    /\ answers = <<>> => results = <<>>
    /\ BestPostPerKey

=============================================================================
