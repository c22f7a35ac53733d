---------------------------- MODULE SearchPaging ----------------------------
(***************************************************************************)
(* A search of the SQLite backend, page after page: the checks of a        *)
(* request, the WHERE clause made of it, the order of the rows and the     *)
(* position after which the next page begins, while sqlite-index adds and  *)
(* removes documents between two pages.                                    *)
(*                                                                         *)
(* What a document is sorted and filtered by is a number or a member of a  *)
(* small set: names are compared like numbers, a tag and a path are the    *)
(* sequences of their words, a query is one word. The rank, similarity and *)
(* random number of a document are given by the catalogue.                 *)
(***************************************************************************)
EXTENDS Naturals, Integers, Sequences, FiniteSets, SequencesExt, FiniteSetsExt

CONSTANTS Catalogue,    \* id -> what is indexed of the document
          SearchForms,  \* the requests of the web interface, without "after"
          None,         \* a member that a request does not have, or that is null
          Wrong,        \* one of another JSON type than the server expects
          RankBound,    \* ranks are below it
          MaxChanges    \* bound on documents added and removed meanwhile

\* The members of a request.
Members == {"query", "path", "sort", "sizeMin", "sizeMax", "dateMin", "dateMax", "pageSize",
            "sortAsc", "indexIds", "mimeTypes", "searchInPath", "embedding", "model", "tags",
            "fetchAggregations", "after"}

ASSUME PagingAssumption ==
    /\ IsFiniteSet(DOMAIN Catalogue) /\ DOMAIN Catalogue \subseteq Nat
    /\ \A id \in DOMAIN Catalogue :
          /\ \A m \in {"size", "mtime", "random", "name", "score", "embedding"} : Catalogue[id][m] \in Int
          /\ Catalogue[id].embeddings \in Nat
    /\ \A f \in SearchForms : DOMAIN f = Members /\ f.pageSize \in Int \cup {None, Wrong}
    /\ RankBound \in Nat \ {0}
    /\ None \notin Int \X Int

VARIABLES
    request,    \* what is searched for
    after,      \* sort info of the last hit, or None
    present,    \* ids in document_index
    always,     \* ids that were there since the first page
    seen,       \* ids that were there at some page
    hits,       \* the rows received, in order
    aggregation,\* total count of the first page
    outcome,    \* "more", "end", "bad request" or "server exits"
    changes

pagingVars == <<request, after, present, always, seen, hits, aggregation, outcome, changes>>

PagingInit ==
    /\ request \in SearchForms /\ after = None
    /\ present \in SUBSET DOMAIN Catalogue /\ always = present /\ seen = present
    /\ hits = <<>> /\ aggregation = None
    /\ outcome = "more" /\ changes = 0

Given(v) == v # None
OrElse(v, default) == IF Given(v) THEN v ELSE default

-----------------------------------------------------------------------------
(* get_search_req.                                                         *)

SortModes == {"score", "size", "mtime", "random", "name", "embedding"}
Lists == {"indexIds", "mimeTypes", "embedding", "tags", "after"}

\* The limits on mime types and tags never apply: their lists are counted when absent.
BadRequest(r) ==
    \/ \E m \in Members : r[m] = Wrong
    \/ \E m \in Lists : Given(r[m]) /\ Len(r[m]) = 0
    \/ Given(r.indexIds) /\ Len(r.indexIds) > 999
    \/ Given(r.path) /\ "*" \in ToSet(r.path)
    \/ r.sort \notin SortModes \/ ~Given(r.pageSize)
    \/ Given(r.after) /\ Len(r.after) # 2
    \/ r.pageSize > 1000 \/ r.pageSize < 0
    \/ Given(r.model) # Given(r.embedding)

\* searchInPath is read without a test: without it there is nothing to read.
NoSearchInPath(r) == ~Given(r.searchInPath)

\* A request with a model of another size is refused by the search itself. With --verbose
\* the warning of it formats the number of the model as a string, which is undefined.
WrongModel(r) == Given(r.embedding) /\ r.model # Len(r.embedding)

-----------------------------------------------------------------------------
(* build_where_clause and its parts.                                       *)

HasQuery(r) == Given(r.query) /\ r.query # ""
HasPath(r) == Given(r.path) /\ r.path # <<>>
InList(v, list) == \E n \in DOMAIN list : list[n] = v

\* A bound of 0 is none.
Bounded(v, min, max) == (OrElse(min, 0) > 0 => v >= min) /\ (OrElse(max, 0) > 0 => v <= max)

\* tag_matches: a tag that was searched for stands for those below it, not for itself.
TagMatches(query, tag) == Len(query) < Len(tag) /\ IsPrefix(query, tag)

\* search MATCH "- path : word" leaves the path out.
Words(doc, r) == IF r.searchInPath THEN doc.words \cup ToSet(doc.path) ELSE doc.words

\* With no index ids it is index_id IN (): no document at all.
Where(doc, r) ==
    /\ Given(r.indexIds) /\ InList(doc.index, r.indexIds)
    /\ HasQuery(r) => r.query \in Words(doc, r)
    /\ HasPath(r) => IsPrefix(r.path, doc.path)
    /\ Bounded(doc.size, r.sizeMin, r.sizeMax)
    /\ Bounded(doc.mtime, r.dateMin, r.dateMax)
    /\ Given(r.mimeTypes) => InList(doc.mime, r.mimeTypes)
    /\ Given(r.tags) => \E t \in doc.tags, n \in DOMAIN r.tags : TagMatches(r.tags[n], t)

\* Both tables of the search, and the document, have a column path: the statement
\* does not compile, and CRASH_IF_NOT_SQLITE_OK ends the server.
Ambiguous(r) == HasQuery(r) /\ HasPath(r)

-----------------------------------------------------------------------------
(* database_fts_search.                                                    *)

\* The rank of FTS5 weighs a word by how many of the documents have it: it is a number
\* that changes when documents come and go.
Rank(id) == (Catalogue[id].score + Cardinality(present)) % RankBound

SortVar(id, r) ==
    CASE r.sort = "score" -> IF HasQuery(r) THEN Rank(id) ELSE id
      [] r.sort = "embedding" -> IF Given(r.embedding) THEN Catalogue[id].embedding ELSE -1
      [] OTHER -> Catalogue[id][r.sort]

Ascending(r) == OrElse(r.sortAsc, TRUE)
Pair(id, r) == <<SortVar(id, r), id>>
Less(p, q) == p[1] < q[1] \/ (p[1] = q[1] /\ p[2] < q[2])

\* Mutant: only the sort value says where the page begins.
IsAfterValue(p, a, r) == IF Ascending(r) THEN a[1] < p[1] ELSE p[1] < a[1]

\* The row value comparison of get_after_where is one of both.
IsAfter(p, a, r) == IF Ascending(r) THEN Less(a, p) ELSE Less(p, a)

\* ORDER BY sort_var [DESC], doc.ROWID: the id always ascends.
Precedes(p, q, r) ==
    IF Ascending(r) THEN Less(p, q) ELSE p[1] > q[1] \/ (p[1] = q[1] /\ p[2] < q[2])

\* LEFT JOIN embedding: a row for each, and one for a document without. They differ in
\* their similarity; here they share that of their document, and stay together.
RowsOf(id) == {<<id, n>> : n \in 1 .. Max({1, Catalogue[id].embeddings})}

Matching(ids, r) == {id \in ids : Where(Catalogue[id], r)}

RowBefore(x, y, r) ==
    IF x[1] = y[1] THEN x[2] < y[2] ELSE Precedes(Pair(x[1], r), Pair(y[1], r), r)

RowsAfter(ids, r, a) ==
    UNION {RowsOf(id) : id \in {i \in Matching(ids, r) : Given(a) => IsAfter(Pair(i, r), a, r)}}

\* The n-th row is the one with n - 1 rows before it.
Page(ids, r, a) ==
    LET rows == RowsAfter(ids, r, a)
        Position(x) == Cardinality({y \in rows : RowBefore(y, x, r)})
    IN  [n \in 1 .. Min({Cardinality(rows), r.pageSize}) |->
            (CHOOSE x \in rows : Position(x) = n - 1)[1]]

\* The aggregation: documents are counted, not rows, and "after" is left out.
TotalCount(r) == Cardinality(Matching(present, r))

\* The next page of the web interface; a page that is not full is the last.
AskPage ==
    /\ outcome = "more"
    /\ LET r == [request EXCEPT !.after = after]
       IN  IF BadRequest(r)
           THEN outcome' = "bad request" /\ UNCHANGED <<hits, after, aggregation>>
           ELSE IF NoSearchInPath(r)
           THEN outcome' = "server exits" /\ UNCHANGED <<hits, after, aggregation>>
           ELSE IF WrongModel(r)
           THEN outcome' \in {"bad request", "server exits"} /\ UNCHANGED <<hits, after, aggregation>>
           ELSE IF Ambiguous(r)
           THEN outcome' = "server exits" /\ UNCHANGED <<hits, after, aggregation>>
           ELSE LET page == Page(present, r, after)
                IN  /\ hits' = hits \o page
                    /\ after' = IF page = <<>> THEN after ELSE Pair(Last(page), r)
                    /\ aggregation' = IF Given(r.fetchAggregations) /\ ~Given(after)
                                      THEN TotalCount(r) ELSE aggregation
                    /\ outcome' = IF Len(page) < r.pageSize \/ r.pageSize = 0 THEN "end" ELSE "more"
    /\ UNCHANGED <<request, present, always, seen, changes>>

\* sqlite-index adds or removes a document between two pages.
ChangeIndex ==
    /\ outcome = "more" /\ Given(after)
    /\ changes < MaxChanges
    /\ changes' = changes + 1
    /\ \E id \in DOMAIN Catalogue :
          /\ present' = IF id \in present THEN present \ {id} ELSE present \cup {id}
          /\ always' = always \ {id} /\ seen' = seen \cup {id}
    /\ UNCHANGED <<request, after, hits, aggregation, outcome>>

PagingNext == AskPage \/ ChangeIndex
PagingSpec == PagingInit /\ [][PagingNext]_pagingVars
-----------------------------------------------------------------------------
(* Properties.                                                             *)

PagingTypeOK ==
    /\ request \in SearchForms
    /\ after = None \/ (after[1] \in Int /\ after[2] \in DOMAIN Catalogue)
    /\ always \subseteq present /\ present \subseteq seen /\ seen \subseteq DOMAIN Catalogue
    /\ ToSet(hits) \subseteq seen
    /\ outcome \in {"more", "end", "bad request", "server exits"}

\* Of rows that sort alike, those that descend are told apart the wrong way round.
Ordered(ids) ==
    Ascending(request) \/ \A i, j \in ids : SortVar(i, request) = SortVar(j, request) => i = j

\* Whoever reads to the last page has been shown every document that matches and was
\* there all along, whatever was added or removed meanwhile, and none twice but for its
\* several embeddings: if the order ascends or no two documents sort alike, and ranks did
\* not change. When nothing changed they are as many as the first page said.
PagesAreComplete ==
    /\ outcome = "end" /\ request.pageSize > 0 /\ Ordered(Matching(seen, request))
    /\ request.sort = "score" /\ HasQuery(request) => changes = 0
    =>  /\ Matching(always, request) \subseteq ToSet(hits)
        /\ \A n, m \in DOMAIN hits : n < m /\ hits[n] = hits[m] => Catalogue[hits[n]].embeddings > 1
        /\ Given(aggregation) /\ changes = 0 => aggregation = Cardinality(ToSet(hits))

=============================================================================
