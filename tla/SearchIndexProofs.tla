-------------------------- MODULE SearchIndexProofs --------------------------
(***************************************************************************)
(* The search index and the tags, for any number of index files, documents *)
(* and tags, and any number of events.                                     *)
(***************************************************************************)
EXTENDS SearchIndex, TLAPS

-----------------------------------------------------------------------------
(* The inductive invariant.                                                *)

IndexRow ==
    [column : DocPaths, path : DocPaths, version : Versions, tag : (SUBSET AllTags) \cup {NoTags}]

FileTypes ==
    /\ DOMAIN document = Indices
    /\ \A i \in Indices : /\ DOMAIN document[i] \subseteq DocIds
                          /\ \A d \in DOMAIN document[i] : document[i][d] \in Document
    /\ index_tag \in [Indices -> SUBSET (DocIds \X AllTags)]
    /\ delete_list \in [Indices -> SUBSET DocIds]

TableTypes ==
    /\ DOMAIN document_index \subseteq Sids
    /\ \A s \in DOMAIN document_index : document_index[s] \in IndexRow
    /\ fts_tag \subseteq Sids \X AllTags
    /\ DOMAIN search \subseteq Sids /\ \A s \in DOMAIN search : search[s] \in SearchRow
    /\ DOMAIN summary \subseteq Sids

SyncTypes ==
    /\ writer \in {NoWriter} \cup [index : Indices, pc : WriterPcs]
    /\ web \in {"down", "starting", "up"} /\ loaded \subseteq Indices
    /\ copied \subseteq Indices /\ agreed \subseteq Indices

SearchTypes == FileTypes /\ TableTypes /\ SyncTypes

\* The index files that stats and mime_index were made of: those of which all of
\* sqlite-index was run, and those that the running one has copied when it is past them.
Summarised == fresh \cup (IF writer.pc \in {"empty", "fill"} THEN copied ELSE {})

\* What the search index has of the documents that are in the index files now.
Contents ==
    /\ fresh \subseteq copied
    /\ \A i \in copied : \A d \in DOMAIN document[i] :
          /\ Sid(i, d) \in DOMAIN document_index
          /\ document_index[Sid(i, d)].path = document[i][d].path
          /\ document_index[Sid(i, d)].version = document[i][d].version
    /\ \A i \in Summarised : \A d \in DOMAIN document[i] :
          Sid(i, d) \in DOMAIN summary /\ summary[Sid(i, d)] = document[i][d].version
    /\ \A i \in fresh : \A d \in DOMAIN document[i] :
          \/ emptied
          \/ /\ Sid(i, d) \in DOMAIN search
             /\ search[Sid(i, d)] = [path |-> document[i][d].path, version |-> document[i][d].version]

SearchIInv == SearchTypes /\ Contents /\ TagsAgree

-----------------------------------------------------------------------------
(* Operators.                                                              *)

\* Two index files have no id of the search index in common, and no document has two.
LEMMA SidsAreDistinct ==
    /\ \A i, d : Sid(i, d)[1] = i /\ Sid(i, d)[2] = d /\ Upper(Sid(i, d)) = i
    /\ \A i, j, d, e : Sid(i, d) = Sid(j, e) <=> i = j /\ d = e
    /\ \A i \in Indices, d \in DocIds : Sid(i, d) \in Sids
    /\ \A s \in Sids : s[1] \in Indices /\ s[2] \in DocIds /\ s = Sid(s[1], s[2])
                       /\ Upper(s) = s[1]
BY DEF Sid, Upper, Sids

\* Of the tags F of the search index those of index file i, and tags T of that file as
\* the search index knows them.
OfIndex(F, i) == {p \in F : Upper(p[1]) = i}
AsKnown(T, i) == {<<Sid(i, p[1]), p[2]>> : p \in T}

\* The tags of an index file are the same there and in the search index: document by
\* document, tag by tag.
LEMMA Agreement ==
    ASSUME NEW i \in Indices, NEW F \in SUBSET (Sids \X AllTags), NEW T \in SUBSET (DocIds \X AllTags)
    PROVE  OfIndex(F, i) = AsKnown(T, i)
              <=> \A d \in DocIds, t \in AllTags : <<Sid(i, d), t>> \in F <=> <<d, t>> \in T
<1>1. \A d, t : <<Sid(i, d), t>> \in {<<Sid(i, p[1]), p[2]>> : p \in T} <=> <<d, t>> \in T
  <2>1. ASSUME NEW d, NEW t, <<Sid(i, d), t>> \in {<<Sid(i, p[1]), p[2]>> : p \in T}
        PROVE  <<d, t>> \in T
    <3>1. PICK p \in T : <<Sid(i, d), t>> = <<Sid(i, p[1]), p[2]>>
      BY <2>1
    <3>2. Sid(i, d) = Sid(i, p[1]) /\ t = p[2] /\ p = <<p[1], p[2]>>
      BY <3>1
    <3>3. QED
      BY <3>2, SidsAreDistinct
  <2>2. ASSUME NEW d, NEW t, <<d, t>> \in T
        PROVE  <<Sid(i, d), t>> \in {<<Sid(i, p[1]), p[2]>> : p \in T}
    <3>1. PICK p \in T : p = <<d, t>>
      BY <2>2
    <3>2. p[1] = d /\ p[2] = t
      BY <3>1
    <3>3. QED
      BY <3>2
  <2>3. QED
    BY <2>1, <2>2
<1>2. \A d, t : <<Sid(i, d), t>> \in {p \in F : Upper(p[1]) = i} <=> <<Sid(i, d), t>> \in F
  BY SidsAreDistinct
<1>3. \A p \in {q \in F : Upper(q[1]) = i} :
          \E d \in DocIds, t \in AllTags : p = <<Sid(i, d), t>>
  <2> SUFFICES ASSUME NEW p \in F, Upper(p[1]) = i
               PROVE  \E d \in DocIds, t \in AllTags : p = <<Sid(i, d), t>>
    OBVIOUS
  <2>1. p[1] \in Sids /\ p[2] \in AllTags /\ p = <<p[1], p[2]>>
    OBVIOUS
  <2>2. p[1] = Sid(i, p[1][2]) /\ p[1][2] \in DocIds
    BY <2>1, SidsAreDistinct
  <2>3. QED
    BY <2>1, <2>2
<1>4. \A p \in {<<Sid(i, q[1]), q[2]>> : q \in T} :
          \E d \in DocIds, t \in AllTags : p = <<Sid(i, d), t>>
  OBVIOUS
<1>5. ASSUME {p \in F : Upper(p[1]) = i} = {<<Sid(i, p[1]), p[2]>> : p \in T}
      PROVE  \A d \in DocIds, t \in AllTags : <<Sid(i, d), t>> \in F <=> <<d, t>> \in T
  BY <1>1, <1>2, <1>5
<1>6. ASSUME \A d \in DocIds, t \in AllTags : <<Sid(i, d), t>> \in F <=> <<d, t>> \in T
      PROVE  {p \in F : Upper(p[1]) = i} = {<<Sid(i, p[1]), p[2]>> : p \in T}
  <2>1. \A d \in DocIds, t \in AllTags : <<Sid(i, d), t>> \in {p \in F : Upper(p[1]) = i}
            <=> <<Sid(i, d), t>> \in {<<Sid(i, p[1]), p[2]>> : p \in T}
    BY <1>1, <1>2, <1>6
  <2>2. QED
    BY <1>3, <1>4, <2>1
<1>7. QED
  BY <1>5, <1>6 DEF OfIndex, AsKnown

\* Tags are replaced in a row, and nothing else.
LEMMA RowIsTagged ==
    ASSUME NEW row \in IndexRow, NEW tags \in SUBSET AllTags
    PROVE  /\ [row EXCEPT !.tag = tags] \in IndexRow
           /\ [row EXCEPT !.tag = tags].path = row.path
           /\ [row EXCEPT !.tag = tags].version = row.version
           /\ [row EXCEPT !.tag = tags].tag = tags
BY DEF IndexRow

\* The triggers leave the contents of the rows alone, and write to each the tags that
\* the table has of it then.
LEMMA TriggersWriteTags ==
    ASSUME SearchTypes, TagsAgree, NEW new \in SUBSET (Sids \X AllTags)
    PROVE  /\ DOMAIN Triggers(new) = DOMAIN document_index
           /\ \A s \in DOMAIN document_index :
                 /\ Triggers(new)[s] \in IndexRow
                 /\ Triggers(new)[s].path = document_index[s].path
                 /\ Triggers(new)[s].version = document_index[s].version
                 /\ Triggers(new)[s].tag \in {NoTags, TagsOf(new, s)}
<1>1. PICK touched : touched = {p[1] : p \in (fts_tag \ new) \cup (new \ fts_tag)}
  OBVIOUS
<1>2. Triggers(new) = [s \in DOMAIN document_index |->
                          IF s \in touched THEN [document_index[s] EXCEPT !.tag = TagsOf(new, s)]
                                           ELSE document_index[s]]
  BY <1>1 DEF Triggers
<1>3. \A s : TagsOf(new, s) \in SUBSET AllTags
  BY DEF TagsOf
<1>4. ASSUME NEW s \in DOMAIN document_index
      PROVE  /\ Triggers(new)[s] \in IndexRow
             /\ Triggers(new)[s].path = document_index[s].path
             /\ Triggers(new)[s].version = document_index[s].version
             /\ Triggers(new)[s].tag \in {NoTags, TagsOf(new, s)}
  <2>1. document_index[s] \in IndexRow
    BY DEF SearchTypes, TableTypes
  <2>2. CASE s \in touched
    <3>1. Triggers(new)[s] = [document_index[s] EXCEPT !.tag = TagsOf(new, s)]
      BY <1>2, <2>2
    <3>2. QED
      BY <1>3, <2>1, <3>1, RowIsTagged
  <2>3. CASE s \notin touched
    <3>1. Triggers(new)[s] = document_index[s]
      BY <1>2, <2>3
    <3>2. \A t \in AllTags : <<s, t>> \in fts_tag <=> <<s, t>> \in new
      <4> SUFFICES ASSUME NEW t \in AllTags, ~(<<s, t>> \in fts_tag <=> <<s, t>> \in new)
                   PROVE  FALSE
        OBVIOUS
      <4>1. <<s, t>> \in (fts_tag \ new) \cup (new \ fts_tag) /\ <<s, t>>[1] = s
        OBVIOUS
      <4>2. QED
        BY <1>1, <2>3, <4>1
    <3>3. TagsOf(fts_tag, s) = TagsOf(new, s)
      BY <3>2 DEF TagsOf
    <3>4. QED
      BY <2>1, <3>1, <3>3 DEF TagsAgree
  <2>4. QED
    BY <2>2, <2>3
<1>5. QED
  BY <1>2, <1>4

-----------------------------------------------------------------------------
(* The steps of the web server, and of tags.                               *)

\* What a step that changes tags, or what the server is doing, has to keep.
LEMMA TagsMove ==
    ASSUME SearchIInv,
           document' = document, delete_list' = delete_list, search' = search,
           summary' = summary, writer' = writer,
           copied' = copied, fresh' = fresh, emptied' = emptied,
           index_tag' \in [Indices -> SUBSET (DocIds \X AllTags)],
           fts_tag' \in SUBSET (Sids \X AllTags),
           \/ document_index' = Triggers(fts_tag')
           \/ document_index' = document_index /\ fts_tag' = fts_tag,
           web' \in {"down", "starting", "up"}, loaded' \subseteq Indices,
           agreed' \subseteq Indices,
           \A i \in agreed' : \A d \in DocIds, t \in AllTags :
               <<Sid(i, d), t>> \in fts_tag' <=> <<d, t>> \in index_tag'[i]
    PROVE  SearchIInv'
<1> USE DEF SearchIInv
<1>1. /\ DOMAIN document_index' = DOMAIN document_index
      /\ \A s \in DOMAIN document_index :
            /\ document_index'[s] \in IndexRow
            /\ document_index'[s].path = document_index[s].path
            /\ document_index'[s].version = document_index[s].version
            /\ document_index'[s].tag \in {NoTags, TagsOf(fts_tag', s)}
  <2>1. CASE document_index' = Triggers(fts_tag')
    BY <2>1, TriggersWriteTags
  <2>2. CASE document_index' = document_index /\ fts_tag' = fts_tag
    BY <2>2 DEF SearchTypes, TableTypes, TagsAgree
  <2>3. QED
    BY <2>1, <2>2
<1>2. SearchTypes'
  BY <1>1 DEF SearchTypes, FileTypes, TableTypes, SyncTypes
<1>3. Contents'
  <2>1. Summarised' = Summarised
    BY DEF Summarised
  <2>2. QED
    BY <1>1, <2>1 DEF Contents
<1>4. TagsAgree'
  <2>1. \A i \in agreed' : {p \in fts_tag' : Upper(p[1]) = i} = TagsOfFile(i)'
    <3> SUFFICES ASSUME NEW i \in agreed'
                 PROVE  {p \in fts_tag' : Upper(p[1]) = i}
                            = {<<Sid(i, p[1]), p[2]>> : p \in index_tag'[i]}
      BY DEF TagsOfFile
    <3>1. PICK F \in SUBSET (Sids \X AllTags) : F = fts_tag'
      OBVIOUS
    <3>2. PICK T \in SUBSET (DocIds \X AllTags) : T = index_tag'[i]
      OBVIOUS
    <3>3. \A d \in DocIds, t \in AllTags : <<Sid(i, d), t>> \in F <=> <<d, t>> \in T
      BY <3>1, <3>2
    <3>4. i \in Indices
      OBVIOUS
    <3>5. OfIndex(F, i) = AsKnown(T, i)
      BY <3>3, <3>4, Agreement
    <3>6. QED
      BY <3>1, <3>2, <3>5 DEF OfIndex, AsKnown
  <2>2. QED
    BY <1>1, <2>1 DEF TagsAgree
<1>5. QED
  BY <1>2, <1>3, <1>4

\* What the agreement of the tags of index files says.
LEMMA AgreedTags ==
    ASSUME SearchTypes, TagsAgree, NEW i \in agreed, NEW d \in DocIds, NEW t \in AllTags
    PROVE  <<Sid(i, d), t>> \in fts_tag <=> <<d, t>> \in index_tag[i]
<1>1. i \in Indices /\ index_tag[i] \in SUBSET (DocIds \X AllTags)
      /\ fts_tag \in SUBSET (Sids \X AllTags)
  BY DEF SearchTypes, FileTypes, TableTypes, SyncTypes
<1>2. OfIndex(fts_tag, i) = AsKnown(index_tag[i], i)
  BY DEF TagsAgree, TagsOfFile, OfIndex, AsKnown
<1>3. QED
  BY <1>1, <1>2, Agreement

\* The tags of an index file, as the search index knows them.
LEMMA TagsOfFileAre ==
    ASSUME SearchTypes, NEW i \in Indices
    PROVE  /\ TagsOfFile(i) \in SUBSET (Sids \X AllTags)
           /\ \A j, d, t : <<Sid(j, d), t>> \in TagsOfFile(i) <=> j = i /\ <<d, t>> \in index_tag[i]
<1>1. index_tag[i] \in SUBSET (DocIds \X AllTags)
  BY DEF SearchTypes, FileTypes
<1>2. \A p \in index_tag[i] : p[1] \in DocIds /\ p[2] \in AllTags /\ p = <<p[1], p[2]>>
  BY <1>1
<1>3. TagsOfFile(i) \in SUBSET (Sids \X AllTags)
  BY <1>2, SidsAreDistinct DEF TagsOfFile
<1>4. ASSUME NEW j, NEW d, NEW t, <<Sid(j, d), t>> \in TagsOfFile(i)
      PROVE  j = i /\ <<d, t>> \in index_tag[i]
  <2>1. PICK p \in index_tag[i] : <<Sid(j, d), t>> = <<Sid(i, p[1]), p[2]>>
    BY <1>4 DEF TagsOfFile
  <2>2. Sid(j, d) = Sid(i, p[1]) /\ t = p[2]
    BY <2>1
  <2>3. QED
    BY <1>2, <2>2, SidsAreDistinct
<1>5. ASSUME NEW d, NEW t, <<d, t>> \in index_tag[i]
      PROVE  <<Sid(i, d), t>> \in TagsOfFile(i)
  <2>1. PICK p \in index_tag[i] : p = <<d, t>>
    BY <1>5
  <2>2. p[1] = d /\ p[2] = t
    BY <2>1
  <2>3. QED
    BY <2>2 DEF TagsOfFile
<1>6. QED
  BY <1>3, <1>4, <1>5

\* An index file is synchronised, or half of it.
LEMMA SyncKeeps ==
    ASSUME SearchIInv, NEW i \in Indices, SyncTags(i) \/ DieInSync(i)
    PROVE  SearchIInv'
<1> USE DEF SearchIInv
<1>1. /\ document' = document /\ delete_list' = delete_list /\ search' = search
      /\ summary' = summary /\ writer' = writer /\ index_tag' = index_tag
      /\ copied' = copied /\ fresh' = fresh /\ emptied' = emptied
      /\ document_index' = Triggers(fts_tag')
      /\ web' \in {"down", "starting", "up"} /\ loaded' \subseteq Indices
  BY DEF SyncTags, DieInSync, files, searchHistory, SearchTypes, SyncTypes
<1>2. /\ TagsOfFile(i) \in SUBSET (Sids \X AllTags)
      /\ \A j, d, t : <<Sid(j, d), t>> \in TagsOfFile(i) <=> j = i /\ <<d, t>> \in index_tag[i]
  BY TagsOfFileAre
<1>3. /\ index_tag' \in [Indices -> SUBSET (DocIds \X AllTags)]
      /\ fts_tag \in SUBSET (Sids \X AllTags) /\ agreed \subseteq Indices
  BY <1>1 DEF SearchTypes, FileTypes, TableTypes, SyncTypes
<1>4. \A j, d, t : Upper(<<Sid(j, d), t>>[1]) = j
  BY SidsAreDistinct
<1>5. CASE SyncTags(i)
  <2>1. /\ fts_tag' = {p \in fts_tag : Upper(p[1]) = i => p \in TagsOfFile(i)} \cup TagsOfFile(i)
        /\ agreed' = agreed \cup {i}
    BY <1>5 DEF SyncTags
  <2>2. fts_tag' \in SUBSET (Sids \X AllTags)
    BY <1>2, <1>3, <2>1
  <2>3. \A j, d, t : <<Sid(j, d), t>> \in fts_tag' <=>
            IF j = i THEN <<d, t>> \in index_tag[i] ELSE <<Sid(j, d), t>> \in fts_tag
    BY <1>2, <1>4, <2>1
  <2>4. \A j \in agreed' : \A d \in DocIds, t \in AllTags :
            <<Sid(j, d), t>> \in fts_tag' <=> <<d, t>> \in index_tag'[j]
    BY <1>1, <2>1, <2>3, AgreedTags
  <2>5. QED
    BY <1>1, <1>3, <2>1, <2>2, <2>4, TagsMove
<1>6. CASE DieInSync(i)
  <2>1. /\ fts_tag' = {p \in fts_tag : Upper(p[1]) = i => p \in TagsOfFile(i)}
        /\ agreed' = agreed
    BY <1>6 DEF DieInSync, searchHistory
  <2>2. fts_tag' \in SUBSET (Sids \X AllTags)
    BY <1>3, <2>1
  <2>3. \A j, d, t : <<Sid(j, d), t>> \in fts_tag' <=>
            <<Sid(j, d), t>> \in fts_tag /\ (j = i => <<d, t>> \in index_tag[i])
    BY <1>2, <1>4, <2>1
  <2>4. \A j \in agreed' : \A d \in DocIds, t \in AllTags :
            <<Sid(j, d), t>> \in fts_tag' <=> <<d, t>> \in index_tag'[j]
    BY <1>1, <2>1, <2>3, AgreedTags
  <2>5. QED
    BY <1>1, <1>3, <2>1, <2>2, <2>4, TagsMove
<1>7. QED
  BY <1>5, <1>6

\* The server starts or is stopped, or a writer begins or is killed.
LEMMA StartAndStopKeep ==
    ASSUME SearchIInv, StartWeb \/ StopWeb
    PROVE  SearchIInv'
<1> USE DEF SearchIInv
<1>1. /\ document' = document /\ delete_list' = delete_list /\ search' = search
      /\ summary' = summary /\ writer' = writer /\ index_tag' = index_tag
      /\ copied' = copied /\ fresh' = fresh /\ emptied' = emptied /\ agreed' = agreed
      /\ document_index' = document_index /\ fts_tag' = fts_tag
      /\ web' \in {"down", "starting", "up"} /\ loaded' \subseteq Indices
  BY DEF StartWeb, StopWeb, files, tables, searchHistory
<1>2. /\ index_tag' \in [Indices -> SUBSET (DocIds \X AllTags)]
      /\ fts_tag' \in SUBSET (Sids \X AllTags) /\ agreed' \subseteq Indices
  BY <1>1 DEF SearchTypes, FileTypes, TableTypes, SyncTypes
<1>3. \A i \in agreed' : \A d \in DocIds, t \in AllTags :
          <<Sid(i, d), t>> \in fts_tag' <=> <<d, t>> \in index_tag'[i]
  BY <1>1, AgreedTags
<1>4. QED
  BY <1>1, <1>2, <1>3, TagsMove

\* A tag is written to the table of an index file, or taken from it: the others stay.
LEMMA FileTagChanges ==
    ASSUME SearchTypes, NEW s \in Sids, NEW T \in SUBSET (DocIds \X AllTags),
           index_tag' = [index_tag EXCEPT ![Upper(s)] = T]
    PROVE  /\ index_tag' \in [Indices -> SUBSET (DocIds \X AllTags)]
           /\ index_tag'[Upper(s)] = T
           /\ \A i \in Indices \ {Upper(s)} : index_tag'[i] = index_tag[i]
BY SidsAreDistinct DEF SearchTypes, FileTypes

\* The tag that a user writes, or the text that is written in place of it.
LEMMA WrittenTagIsTag ==
    ASSUME NEW s, NEW t \in AllTags
    PROVE  WrittenTag(s, t) \in AllTags
BY DEF WrittenTag, AllTags

\* A tag is written to both, in which case the file is not known to agree any more.
LEMMA WriteTagKeeps ==
    ASSUME SearchIInv, NEW s \in Sids, NEW t \in AllTags, WriteTag(s, t)
    PROVE  SearchIInv'
<1> USE DEF SearchIInv
<1>1. PICK T : T = index_tag[Upper(s)] \cup {<<s[2], WrittenTag(Sid(0, s[2]), t)>>}
  OBVIOUS
<1>2. /\ index_tag' = [index_tag EXCEPT ![Upper(s)] = T]
      /\ fts_tag' = fts_tag \cup {<<s, t>>} /\ document_index' = Triggers(fts_tag')
      /\ agreed' = agreed \ {Upper(s)}
      /\ document' = document /\ delete_list' = delete_list /\ search' = search
      /\ summary' = summary /\ writer' = writer /\ web' = web /\ loaded' = loaded
      /\ copied' = copied /\ fresh' = fresh /\ emptied' = emptied
  BY <1>1 DEF WriteTag
<1>3. s[1] \in Indices /\ s[2] \in DocIds /\ s = Sid(s[1], s[2]) /\ Upper(s) = s[1]
  BY SidsAreDistinct
<1>4. T \in SUBSET (DocIds \X AllTags)
  BY <1>1, <1>3, WrittenTagIsTag DEF SearchTypes, FileTypes
<1>5. /\ index_tag' \in [Indices -> SUBSET (DocIds \X AllTags)]
      /\ \A i \in Indices \ {Upper(s)} : index_tag'[i] = index_tag[i]
  BY <1>2, <1>4, FileTagChanges
<1>6. /\ fts_tag' \in SUBSET (Sids \X AllTags)
      /\ agreed \subseteq Indices /\ loaded \subseteq Indices /\ web \in {"down", "starting", "up"}
  BY <1>2 DEF SearchTypes, TableTypes, SyncTypes
<1>7. \A i, d, u : i # Upper(s) =>
          (<<Sid(i, d), u>> \in fts_tag' <=> <<Sid(i, d), u>> \in fts_tag)
  <2>1. \A i, d, u : <<Sid(i, d), u>> = <<s, t>> => i = Upper(s)
    BY SidsAreDistinct
  <2>2. QED
    BY <1>2, <2>1
<1>8. \A i \in agreed' : \A d \in DocIds, u \in AllTags :
          <<Sid(i, d), u>> \in fts_tag' <=> <<d, u>> \in index_tag'[i]
  BY <1>2, <1>5, <1>6, <1>7, AgreedTags
<1>9. QED
  BY <1>2, <1>5, <1>6, <1>8, TagsMove

\* A tag is deleted from both: they agree as before.
LEMMA DeleteTagKeeps ==
    ASSUME SearchIInv, NEW s \in Sids, NEW t \in AllTags, DeleteTag(s, t)
    PROVE  SearchIInv'
<1> USE DEF SearchIInv
<1>1. PICK T : T = index_tag[Upper(s)] \ {<<s[2], t>>}
  OBVIOUS
<1>2. /\ index_tag' = [index_tag EXCEPT ![Upper(s)] = T]
      /\ fts_tag' = fts_tag \ {<<s, t>>} /\ document_index' = Triggers(fts_tag')
      /\ agreed' = agreed
      /\ document' = document /\ delete_list' = delete_list /\ search' = search
      /\ summary' = summary /\ writer' = writer /\ web' = web /\ loaded' = loaded
      /\ copied' = copied /\ fresh' = fresh /\ emptied' = emptied
  BY <1>1 DEF DeleteTag
<1>3. s[1] \in Indices /\ s[2] \in DocIds /\ s = Sid(s[1], s[2]) /\ Upper(s) = s[1]
  BY SidsAreDistinct
<1>4. T \in SUBSET (DocIds \X AllTags)
  BY <1>1, <1>3 DEF SearchTypes, FileTypes
<1>5. /\ index_tag' \in [Indices -> SUBSET (DocIds \X AllTags)]
      /\ index_tag'[Upper(s)] = T
      /\ \A i \in Indices \ {Upper(s)} : index_tag'[i] = index_tag[i]
  BY <1>2, <1>4, FileTagChanges
<1>6. /\ fts_tag' \in SUBSET (Sids \X AllTags)
      /\ agreed \subseteq Indices /\ loaded \subseteq Indices /\ web \in {"down", "starting", "up"}
  BY <1>2 DEF SearchTypes, TableTypes, SyncTypes
<1>7. ASSUME NEW i \in agreed, NEW d \in DocIds, NEW u \in AllTags
      PROVE  <<Sid(i, d), u>> \in fts_tag' <=> <<d, u>> \in index_tag'[i]
  <2>1. <<Sid(i, d), u>> \in fts_tag <=> <<d, u>> \in index_tag[i]
    BY AgreedTags
  <2>2. <<Sid(i, d), u>> = <<s, t>> <=> i = Upper(s) /\ <<d, u>> = <<s[2], t>>
    <3>1. <<Sid(i, d), u>> = <<s, t>> <=> Sid(i, d) = Sid(s[1], s[2]) /\ u = t
      BY <1>3
    <3>2. QED
      BY <1>3, <3>1, SidsAreDistinct
  <2>3. <<d, u>> \in index_tag'[i] <=> <<d, u>> \in index_tag[i] /\ ~(i = Upper(s) /\ <<d, u>> = <<s[2], t>>)
    BY <1>1, <1>5, <1>6
  <2>4. QED
    BY <1>2, <2>1, <2>2, <2>3
<1>8. QED
  BY <1>2, <1>5, <1>6, <1>7, TagsMove

\* The server dies with the index file written and the search index not.
LEMMA DieInTagRequestKeeps ==
    ASSUME SearchIInv, NEW s \in Sids, NEW t \in AllTags, DieInTagRequest(s, t)
    PROVE  SearchIInv'
<1> USE DEF SearchIInv
<1>1. s[1] \in Indices /\ s[2] \in DocIds /\ s = Sid(s[1], s[2]) /\ Upper(s) = s[1]
  BY SidsAreDistinct
<1>2. PICK T \in SUBSET (DocIds \X AllTags) : index_tag' = [index_tag EXCEPT ![Upper(s)] = T]
  <2>1. index_tag[Upper(s)] \in SUBSET (DocIds \X AllTags)
    BY <1>1 DEF SearchTypes, FileTypes
  <2>2. /\ index_tag[Upper(s)] \cup {<<s[2], WrittenTag(Sid(0, s[2]), t)>>} \in SUBSET (DocIds \X AllTags)
        /\ index_tag[Upper(s)] \ {<<s[2], t>>} \in SUBSET (DocIds \X AllTags)
    BY <1>1, <2>1, WrittenTagIsTag
  <2>3. QED
    BY <2>2 DEF DieInTagRequest
<1>3. /\ agreed' = agreed \ {Upper(s)}
      /\ fts_tag' = fts_tag /\ document_index' = document_index
      /\ document' = document /\ delete_list' = delete_list /\ search' = search
      /\ summary' = summary /\ writer' = writer /\ web' = "down" /\ loaded' = {}
      /\ copied' = copied /\ fresh' = fresh /\ emptied' = emptied
  BY DEF DieInTagRequest, tables
<1>4. /\ index_tag' \in [Indices -> SUBSET (DocIds \X AllTags)]
      /\ \A i \in Indices \ {Upper(s)} : index_tag'[i] = index_tag[i]
  BY <1>2, FileTagChanges
<1>5. fts_tag' \in SUBSET (Sids \X AllTags) /\ agreed \subseteq Indices
  BY <1>3 DEF SearchTypes, TableTypes, SyncTypes
<1>6. \A i \in agreed' : \A d \in DocIds, u \in AllTags :
          <<Sid(i, d), u>> \in fts_tag' <=> <<d, u>> \in index_tag'[i]
  BY <1>3, <1>4, <1>5, AgreedTags
<1>7. QED
  BY <1>3, <1>4, <1>5, <1>6, TagsMove

-----------------------------------------------------------------------------
(* The scans.                                                              *)

\* What a scan has to keep: it leaves documents behind that are documents, and what was
\* copied of its index file is not up to date any more.
LEMMA RewriteKeeps ==
    ASSUME SearchIInv, NEW i \in Indices, NEW docs, Rewrite(i, docs),
           DOMAIN docs \subseteq DocIds, \A d \in DOMAIN docs : docs[d] \in Document,
           delete_list' \in [Indices -> SUBSET DocIds]
    PROVE  SearchIInv'
<1> USE DEF SearchIInv
<1>1. /\ document' = [document EXCEPT ![i] = docs]
      /\ copied' = copied \ {i} /\ fresh' = fresh \ {i}
      /\ index_tag' = index_tag /\ document_index' = document_index /\ fts_tag' = fts_tag
      /\ search' = search /\ summary' = summary /\ writer' = writer /\ web' = web
      /\ loaded' = loaded /\ emptied' = emptied /\ agreed' = agreed
  BY DEF Rewrite, tables
<1>2. /\ DOMAIN document' = Indices
      /\ document'[i] = docs /\ \A j \in Indices \ {i} : document'[j] = document[j]
  BY <1>1 DEF SearchTypes, FileTypes
<1>3. SearchTypes'
  <2>1. FileTypes'
    BY <1>1, <1>2 DEF SearchTypes, FileTypes
  <2>2. TableTypes' /\ SyncTypes'
    BY <1>1 DEF SearchTypes, TableTypes, SyncTypes
  <2>3. QED
    BY <2>1, <2>2 DEF SearchTypes
<1>4. Contents'
  <2>1. Summarised' = Summarised \ {i}
    BY <1>1 DEF Summarised
  <2>2. fresh \subseteq Indices /\ copied \subseteq Indices /\ Summarised \subseteq Indices
    BY DEF SearchTypes, SyncTypes, Contents, Summarised
  <2>3. QED
    BY <1>1, <1>2, <2>1, <2>2 DEF Contents
<1>5. TagsAgree'
  BY <1>1 DEF TagsAgree, TagsOfFile
<1>6. QED
  BY <1>3, <1>4, <1>5

LEMMA ScanKeeps ==
    ASSUME SearchIInv, NEW i \in Indices, ScanAdds(i) \/ ScanRemoves(i) \/ ScanUpdates(i)
    PROVE  SearchIInv'
<1> USE DEF SearchIInv
<1>1. /\ DOMAIN document[i] \subseteq DocIds
      /\ \A d \in DOMAIN document[i] : document[i][d] \in Document
      /\ delete_list \in [Indices -> SUBSET DocIds]
  BY DEF SearchTypes, FileTypes
<1>2. CASE ScanAdds(i)
  <2>1. PICK d \in DocIds, doc \in Document :
            /\ Rewrite(i, [e \in DOMAIN document[i] \cup {d} |-> IF e = d THEN doc ELSE document[i][e]])
            /\ delete_list' = [delete_list EXCEPT ![i] = @ \ DOMAIN document[i]]
    BY <1>2 DEF ScanAdds
  <2>2. PICK docs : docs = [e \in DOMAIN document[i] \cup {d} |-> IF e = d THEN doc ELSE document[i][e]]
    OBVIOUS
  <2>3. DOMAIN docs \subseteq DocIds /\ \A e \in DOMAIN docs : docs[e] \in Document
    BY <1>1, <2>2
  <2>4. delete_list' \in [Indices -> SUBSET DocIds]
    BY <1>1, <2>1
  <2>5. QED
    BY <2>1, <2>2, <2>3, <2>4, RewriteKeeps
<1>3. CASE ScanRemoves(i)
  <2>1. PICK d \in DOMAIN document[i] :
            /\ Rewrite(i, Restrict(document[i], DOMAIN document[i] \ {d}))
            /\ delete_list' = [delete_list EXCEPT ![i] = (@ \ DOMAIN document[i]) \cup {d}]
    BY <1>3 DEF ScanRemoves
  <2>2. PICK docs : docs = Restrict(document[i], DOMAIN document[i] \ {d})
    OBVIOUS
  <2>3. DOMAIN docs \subseteq DocIds /\ \A e \in DOMAIN docs : docs[e] \in Document
    BY <1>1, <2>2 DEF Restrict
  <2>4. delete_list' \in [Indices -> SUBSET DocIds]
    BY <1>1, <2>1
  <2>5. QED
    BY <2>1, <2>2, <2>3, <2>4, RewriteKeeps
<1>4. CASE ScanUpdates(i)
  <2>1. PICK d \in DOMAIN document[i], v \in Versions :
            /\ Rewrite(i, [document[i] EXCEPT ![d].version = v, ![d].json = TRUE])
            /\ delete_list' = [delete_list EXCEPT ![i] = @ \ (DOMAIN document[i] \ {d})]
    BY <1>4 DEF ScanUpdates
  <2>2. PICK docs : docs = [document[i] EXCEPT ![d].version = v, ![d].json = TRUE]
    OBVIOUS
  <2>3. DOMAIN docs \subseteq DocIds /\ \A e \in DOMAIN docs : docs[e] \in Document
    <3>1. DOMAIN docs = DOMAIN document[i]
      BY <2>2
    <3>2. \A e \in DOMAIN document[i] :
              docs[e] = IF e = d THEN [document[i][d] EXCEPT !.version = v, !.json = TRUE]
                                 ELSE document[i][e]
      BY <2>2
    <3>3. [document[i][d] EXCEPT !.version = v, !.json = TRUE] \in Document
      BY <1>1 DEF Document
    <3>4. QED
      BY <1>1, <3>1, <3>2, <3>3
  <2>4. delete_list' \in [Indices -> SUBSET DocIds]
    BY <1>1, <2>1
  <2>5. QED
    BY <2>1, <2>2, <2>3, <2>4, RewriteKeeps
<1>5. QED
  BY <1>2, <1>3, <1>4

-----------------------------------------------------------------------------
(* sist2 sqlite-index.                                                     *)

\* What its steps leave alone.
OnlyIndexes ==
    /\ document' = document /\ index_tag' = index_tag /\ delete_list' = delete_list
    /\ fts_tag' = fts_tag /\ web' = web /\ loaded' = loaded /\ agreed' = agreed

\* What a step of it has to keep.
LEMMA IndexingMoves ==
    ASSUME SearchIInv, OnlyIndexes,
           DOMAIN document_index' \subseteq Sids,
           \A s \in DOMAIN document_index' :
               /\ document_index'[s] \in IndexRow
               /\ \/ document_index'[s].tag = NoTags
                  \/ s \in DOMAIN document_index /\ document_index'[s].tag = document_index[s].tag,
           DOMAIN search' \subseteq Sids, \A s \in DOMAIN search' : search'[s] \in SearchRow,
           DOMAIN summary' \subseteq Sids,
           writer' \in {NoWriter} \cup [index : Indices, pc : WriterPcs],
           copied' \subseteq Indices,
           Contents'
    PROVE  SearchIInv'
<1> USE DEF SearchIInv, OnlyIndexes
<1>1. SearchTypes'
  BY DEF SearchTypes, FileTypes, TableTypes, SyncTypes
<1>2. TagsAgree'
  BY DEF TagsAgree, TagsOfFile
<1>3. QED
  BY <1>1, <1>2

\* A writer that works is past none but its own statements.
LEMMA WriterAtWork ==
    ASSUME SearchTypes, writer.pc # "idle"
    PROVE  writer \in [index : Indices, pc : WriterPcs]
BY DEF SearchTypes, SyncTypes, NoWriter

LEMMA BeginAndKillKeep ==
    ASSUME SearchIInv, (\E i \in Indices : BeginIndexing(i)) \/ KillWriter
    PROVE  SearchIInv'
<1> USE DEF SearchIInv
<1>1. /\ OnlyIndexes
      /\ document_index' = document_index /\ search' = search /\ summary' = summary
      /\ copied' = copied /\ fresh' = fresh /\ emptied' = emptied
  BY DEF BeginIndexing, KillWriter, OnlyIndexes, files, tables, searchHistory
<1>2. /\ writer' \in {NoWriter} \cup [index : Indices, pc : WriterPcs]
      /\ writer'.pc \in {"idle", "content"}
  BY DEF BeginIndexing, KillWriter, NoWriter, WriterPcs
<1>3. Contents'
  <2>1. Summarised' \subseteq Summarised
    BY <1>1, <1>2 DEF Summarised
  <2>2. QED
    BY <1>1, <2>1 DEF Contents, OnlyIndexes
<1>4. QED
  BY <1>1, <1>2, <1>3, IndexingMoves DEF SearchTypes, TableTypes, SyncTypes

\* What the upsert makes of the documents of an index file, and what it leaves alone.
LEMMA UpsertCopies ==
    ASSUME SearchTypes, NEW i \in Indices
    PROVE  /\ DOMAIN Upsert(i) \subseteq Sids /\ DOMAIN document_index \subseteq DOMAIN Upsert(i)
           /\ \A s \in DOMAIN Upsert(i) :
                 /\ Upsert(i)[s] \in IndexRow
                 /\ \/ Upsert(i)[s].tag = NoTags
                    \/ s \in DOMAIN document_index /\ Upsert(i)[s].tag = document_index[s].tag
           /\ \A d \in DOMAIN document[i] :
                 /\ Sid(i, d) \in DOMAIN Upsert(i)
                 /\ Upsert(i)[Sid(i, d)].path = document[i][d].path
                 /\ Upsert(i)[Sid(i, d)].version = document[i][d].version
           /\ \A s \in DOMAIN document_index : Upper(s) # i => Upsert(i)[s] = document_index[s]
<1>1. PICK new : new = {Sid(i, d) : d \in DOMAIN document[i]}
  OBVIOUS
<1>2. Upsert(i) = [s \in DOMAIN document_index \cup new |->
            IF s \notin new THEN document_index[s]
            ELSE IF s \in DOMAIN document_index
                 THEN [RowOf(document[i][s[2]]) EXCEPT !.column = document_index[s].column]
                 ELSE RowOf(document[i][s[2]])]
  BY <1>1 DEF Upsert
<1>3. \A d \in DOMAIN document[i] : d \in DocIds /\ document[i][d] \in Document
  BY DEF SearchTypes, FileTypes
<1>4. \A s \in new : s[2] \in DOMAIN document[i] /\ s = Sid(i, s[2]) /\ s \in Sids /\ Upper(s) = i
  BY <1>1, <1>3, SidsAreDistinct
<1>5. /\ DOMAIN document_index \subseteq Sids
      /\ \A s \in DOMAIN document_index : document_index[s] \in IndexRow
  BY DEF SearchTypes, TableTypes
<1>6. ASSUME NEW doc \in Document, NEW c \in DocPaths
      PROVE  /\ RowOf(doc) \in IndexRow /\ [RowOf(doc) EXCEPT !.column = c] \in IndexRow
             /\ RowOf(doc).tag = NoTags /\ [RowOf(doc) EXCEPT !.column = c].tag = NoTags
             /\ RowOf(doc).path = doc.path /\ [RowOf(doc) EXCEPT !.column = c].path = doc.path
             /\ RowOf(doc).version = doc.version
             /\ [RowOf(doc) EXCEPT !.column = c].version = doc.version
  <2>1. RowOf(doc) = [column |-> doc.path, path |-> doc.path, version |-> doc.version, tag |-> NoTags]
    BY DEF RowOf
  <2>2. doc.path \in DocPaths /\ doc.version \in Versions
    BY DEF Document
  <2>3. PICK row \in IndexRow : row = RowOf(doc)
    <3>1. PICK tags : tags = (SUBSET AllTags) \cup {NoTags}
      OBVIOUS
    <3>2. NoTags \in tags
      BY <3>1
    <3>3. [column |-> doc.path, path |-> doc.path, version |-> doc.version, tag |-> NoTags]
            \in [column : DocPaths, path : DocPaths, version : Versions, tag : tags]
      BY <2>2, <3>2
    <3>4. QED
      BY <2>1, <3>1, <3>3 DEF IndexRow
  <2>4. row.tag = NoTags /\ row.path = doc.path /\ row.version = doc.version
    BY <2>1, <2>3
  <2>5. /\ [row EXCEPT !.column = c] \in IndexRow
        /\ [row EXCEPT !.column = c].tag = row.tag /\ [row EXCEPT !.column = c].path = row.path
        /\ [row EXCEPT !.column = c].version = row.version
    BY <2>3 DEF IndexRow
  <2>6. QED
    BY <2>3, <2>4, <2>5
<1>7. ASSUME NEW s \in new
      PROVE  /\ Upsert(i)[s] \in IndexRow /\ Upsert(i)[s].tag = NoTags
             /\ Upsert(i)[s].path = document[i][s[2]].path
             /\ Upsert(i)[s].version = document[i][s[2]].version
  <2>1. document[i][s[2]] \in Document
    BY <1>3, <1>4
  <2>2. CASE s \in DOMAIN document_index
    <3>1. Upsert(i)[s] = [RowOf(document[i][s[2]]) EXCEPT !.column = document_index[s].column]
      BY <1>2, <2>2
    <3>2. document_index[s].column \in DocPaths
      BY <1>5, <2>2 DEF IndexRow
    <3>3. QED
      BY <1>6, <2>1, <3>1, <3>2
  <2>3. CASE s \notin DOMAIN document_index
    <3>1. Upsert(i)[s] = RowOf(document[i][s[2]])
      BY <1>2, <2>3
    <3>2. document[i][s[2]].path \in DocPaths
      BY <2>1 DEF Document
    <3>3. QED
      BY <1>6, <2>1, <3>1, <3>2
  <2>4. QED
    BY <2>2, <2>3
<1>8. \A s \in DOMAIN document_index : s \notin new => Upsert(i)[s] = document_index[s]
  BY <1>2
<1>9. \A d \in DOMAIN document[i] : Sid(i, d) \in new /\ Sid(i, d)[2] = d
  BY <1>1, SidsAreDistinct
<1>10. DOMAIN Upsert(i) = DOMAIN document_index \cup new
  BY <1>2
<1>11. \A s \in DOMAIN Upsert(i) :
           /\ Upsert(i)[s] \in IndexRow
           /\ \/ Upsert(i)[s].tag = NoTags
              \/ s \in DOMAIN document_index /\ Upsert(i)[s].tag = document_index[s].tag
  BY <1>5, <1>7, <1>8, <1>10
<1>12. \A d \in DOMAIN document[i] :
           /\ Sid(i, d) \in DOMAIN Upsert(i)
           /\ Upsert(i)[Sid(i, d)].path = document[i][d].path
           /\ Upsert(i)[Sid(i, d)].version = document[i][d].version
  BY <1>7, <1>9, <1>10
<1>13. QED
  BY <1>4, <1>5, <1>8, <1>10, <1>11, <1>12

\* The documents are copied, or one of them fails the command.
LEMMA CopyKeeps ==
    ASSUME SearchIInv, CopyDocuments
    PROVE  SearchIInv'
<1> USE DEF SearchIInv
<1>1. PICK i \in Indices : i = writer.index /\ writer \in [index : Indices, pc : WriterPcs]
  BY WriterAtWork DEF CopyDocuments
<1>2. /\ OnlyIndexes /\ search' = search /\ summary' = summary
      /\ fresh' = fresh /\ emptied' = emptied /\ writer.pc = "content"
  BY DEF CopyDocuments, OnlyIndexes, files
<1>3. \/ document_index' = Upsert(i) /\ copied' = copied \cup {i}
         /\ writer' = [writer EXCEPT !.pc = "delete"]
      \/ document_index' = document_index /\ copied' = copied /\ writer' = NoWriter
  BY <1>1 DEF CopyDocuments
<1>4. CASE document_index' = document_index /\ copied' = copied /\ writer' = NoWriter
  <2>1. Contents'
    <3>1. Summarised' \subseteq Summarised
      BY <1>2, <1>4 DEF Summarised, NoWriter
    <3>2. QED
      BY <1>2, <1>4, <3>1 DEF Contents, OnlyIndexes
  <2>2. QED
    BY <1>2, <1>4, <2>1, IndexingMoves DEF SearchTypes, TableTypes, SyncTypes
<1>5. CASE document_index' = Upsert(i) /\ copied' = copied \cup {i}
           /\ writer' = [writer EXCEPT !.pc = "delete"]
  <2>1. /\ DOMAIN document_index' \subseteq Sids
        /\ DOMAIN document_index \subseteq DOMAIN document_index'
        /\ \A s \in DOMAIN document_index' :
              /\ document_index'[s] \in IndexRow
              /\ \/ document_index'[s].tag = NoTags
                 \/ s \in DOMAIN document_index /\ document_index'[s].tag = document_index[s].tag
        /\ \A d \in DOMAIN document[i] :
              /\ Sid(i, d) \in DOMAIN document_index'
              /\ document_index'[Sid(i, d)].path = document[i][d].path
              /\ document_index'[Sid(i, d)].version = document[i][d].version
        /\ \A s \in DOMAIN document_index : Upper(s) # i => document_index'[s] = document_index[s]
    BY <1>5, UpsertCopies
  <2>2. writer' \in [index : Indices, pc : WriterPcs] /\ writer'.pc = "delete"
    BY <1>1, <1>5 DEF WriterPcs
  <2>3. copied' \subseteq Indices
    BY <1>5 DEF SearchTypes, SyncTypes
  <2>4. Contents'
    <3>1. Summarised' = Summarised /\ fresh \subseteq copied'
      BY <1>2, <1>5, <2>2 DEF Summarised, Contents
    <3>2. \A j \in copied' : \A d \in DOMAIN document[j] :
              /\ Sid(j, d) \in DOMAIN document_index'
              /\ document_index'[Sid(j, d)].path = document[j][d].path
              /\ document_index'[Sid(j, d)].version = document[j][d].version
      <4> SUFFICES ASSUME NEW j \in copied, j # i, NEW d \in DOMAIN document[j]
                   PROVE  /\ Sid(j, d) \in DOMAIN document_index'
                          /\ document_index'[Sid(j, d)].path = document[j][d].path
                          /\ document_index'[Sid(j, d)].version = document[j][d].version
        BY <1>5, <2>1
      <4>1. Upper(Sid(j, d)) # i
        BY SidsAreDistinct
      <4>2. /\ Sid(j, d) \in DOMAIN document_index
            /\ document_index[Sid(j, d)].path = document[j][d].path
            /\ document_index[Sid(j, d)].version = document[j][d].version
        BY DEF Contents
      <4>3. QED
        BY <2>1, <4>1, <4>2
    <3>3. QED
      BY <1>2, <3>1, <3>2 DEF Contents, OnlyIndexes
  <2>5. QED
    BY <1>2, <2>1, <2>2, <2>3, <2>4, IndexingMoves DEF SearchTypes, TableTypes
<1>6. QED
  BY <1>3, <1>4, <1>5

\* Old documents are not deleted: the ids of the list are those of no index file.
LEMMA RemovalKeeps ==
    ASSUME SearchIInv, DeleteOldDocuments
    PROVE  SearchIInv'
<1> USE DEF SearchIInv
<1>1. /\ OnlyIndexes /\ search' = search /\ summary' = summary
      /\ copied' = copied /\ fresh' = fresh /\ emptied' = emptied
      /\ writer.pc = "delete" /\ writer' = [writer EXCEPT !.pc = "summary"]
  BY DEF DeleteOldDocuments, OnlyIndexes, files, searchHistory
<1>2. writer \in [index : Indices, pc : WriterPcs]
  BY <1>1, WriterAtWork
<1>3. PICK old : old = {s \in DOMAIN document_index :
                          /\ s \in {Sid(0, d) : d \in delete_list[writer.index]}
                          /\ Upper(s) = writer.index}
  OBVIOUS
<1>4. old = {}
  <2>1. \A d : Upper(Sid(0, d)) = 0
    BY SidsAreDistinct
  <2>2. writer.index # 0
    BY <1>2, SearchAssumption
  <2>3. QED
    BY <1>3, <2>1, <2>2
<1>5. document_index' = [s \in DOMAIN document_index |-> document_index[s]]
  BY <1>3, <1>4 DEF DeleteOldDocuments, Restrict
<1>6. writer' \in [index : Indices, pc : WriterPcs] /\ writer'.pc = "summary"
  BY <1>1, <1>2 DEF WriterPcs
<1>7. Contents'
  <2>1. Summarised' = Summarised
    BY <1>1, <1>6 DEF Summarised
  <2>2. QED
    BY <1>1, <1>5, <2>1 DEF Contents, OnlyIndexes
<1>8. QED
  BY <1>1, <1>5, <1>6, <1>7, IndexingMoves DEF SearchTypes, TableTypes, SyncTypes

\* The tables of statistics are made anew.
LEMMA SummariseKeeps ==
    ASSUME SearchIInv, Summarise
    PROVE  SearchIInv'
<1> USE DEF SearchIInv
<1>1. /\ OnlyIndexes /\ search' = search /\ document_index' = document_index
      /\ copied' = copied /\ fresh' = fresh /\ emptied' = emptied
      /\ summary' = [s \in DOMAIN document_index |-> document_index[s].version]
      /\ writer.pc = "summary" /\ writer' = [writer EXCEPT !.pc = "empty"]
  BY DEF Summarise, OnlyIndexes, files, searchHistory
<1>2. writer' \in [index : Indices, pc : WriterPcs] /\ writer'.pc = "empty"
  <2>1. writer \in [index : Indices, pc : WriterPcs]
    BY <1>1, WriterAtWork
  <2>2. QED
    BY <1>1, <2>1 DEF WriterPcs
<1>3. Contents'
  <2>1. Summarised' = copied
    BY <1>1, <1>2 DEF Summarised, Contents
  <2>2. \A j \in copied : \A d \in DOMAIN document[j] :
            Sid(j, d) \in DOMAIN summary' /\ summary'[Sid(j, d)] = document[j][d].version
    BY <1>1 DEF Contents
  <2>3. QED
    BY <1>1, <2>1, <2>2 DEF Contents, OnlyIndexes
<1>4. QED
  BY <1>1, <1>2, <1>3, IndexingMoves DEF SearchTypes, TableTypes, SyncTypes

\* The full-text table is emptied.
LEMMA EmptyKeeps ==
    ASSUME SearchIInv, EmptySearch
    PROVE  SearchIInv'
<1> USE DEF SearchIInv
<1>1. /\ OnlyIndexes /\ search' = <<>> /\ document_index' = document_index
      /\ summary' = summary /\ copied' = copied /\ fresh' = fresh /\ emptied' = TRUE
      /\ writer.pc = "empty" /\ writer' = [writer EXCEPT !.pc = "fill"]
  BY DEF EmptySearch, OnlyIndexes, files
<1>2. writer' \in [index : Indices, pc : WriterPcs] /\ writer'.pc = "fill"
  <2>1. writer \in [index : Indices, pc : WriterPcs]
    BY <1>1, WriterAtWork
  <2>2. QED
    BY <1>1, <2>1 DEF WriterPcs
<1>3. Contents'
  <2>1. Summarised' = Summarised
    BY <1>1, <1>2 DEF Summarised
  <2>2. QED
    BY <1>1, <2>1 DEF Contents, OnlyIndexes
<1>4. DOMAIN search' = {}
  BY <1>1
<1>5. QED
  BY <1>1, <1>2, <1>3, <1>4, IndexingMoves DEF SearchTypes, TableTypes, SyncTypes

\* The full-text table is filled from the rows of the search index.
LEMMA FillKeeps ==
    ASSUME SearchIInv, FillSearch
    PROVE  SearchIInv'
<1> USE DEF SearchIInv
<1>1. /\ OnlyIndexes /\ document_index' = document_index
      /\ search' = [s \in DOMAIN document_index |->
                      [path |-> document_index[s].path, version |-> document_index[s].version]]
      /\ summary' = summary /\ copied' = copied /\ fresh' = copied /\ emptied' = FALSE
      /\ writer.pc = "fill" /\ writer' = NoWriter
  BY DEF FillSearch, OnlyIndexes, files
<1>2. DOMAIN search' = DOMAIN document_index /\ \A s \in DOMAIN search' : search'[s] \in SearchRow
  BY <1>1 DEF SearchTypes, TableTypes, IndexRow, SearchRow
<1>3. Contents'
  <2>1. Summarised' = copied /\ Summarised = copied
    BY <1>1 DEF Summarised, Contents, NoWriter
  <2>2. \A j \in copied : \A d \in DOMAIN document[j] :
            /\ Sid(j, d) \in DOMAIN search'
            /\ search'[Sid(j, d)] = [path |-> document[j][d].path, version |-> document[j][d].version]
    BY <1>1 DEF Contents
  <2>3. QED
    BY <1>1, <2>1, <2>2 DEF Contents, OnlyIndexes
<1>4. QED
  BY <1>1, <1>2, <1>3, IndexingMoves DEF SearchTypes, TableTypes, SyncTypes

-----------------------------------------------------------------------------
(* The theorems.                                                           *)

LEMMA SearchInitHolds ==
    ASSUME SearchInit
    PROVE  SearchIInv
<1>1. /\ document = [i \in Indices |-> [d \in {1} |-> CHOOSE doc \in Document : doc.json]]
      /\ index_tag = [i \in Indices |-> {}] /\ delete_list = [i \in Indices |-> {}]
      /\ DOMAIN document_index = {} /\ fts_tag = {} /\ DOMAIN search = {} /\ DOMAIN summary = {}
      /\ writer = NoWriter /\ web = "down" /\ loaded = {}
      /\ copied = {} /\ fresh = {} /\ agreed = {}
  BY DEF SearchInit
<1>2. (CHOOSE doc \in Document : doc.json) \in Document
  <2>1. PICK p \in DocPaths, v \in Versions : TRUE
    BY SearchAssumption
  <2>2. [path |-> p, version |-> v, json |-> TRUE] \in Document
    BY DEF Document
  <2>3. QED
    BY <2>2
<1>3. 1 \in DocIds
  BY SearchAssumption DEF DocIds
<1>4. FileTypes
  BY <1>1, <1>2, <1>3 DEF FileTypes
<1>5. TableTypes /\ SyncTypes
  BY <1>1 DEF TableTypes, SyncTypes
<1>6. Contents /\ TagsAgree
  BY <1>1 DEF Contents, Summarised, TagsAgree, NoWriter
<1>7. QED
  BY <1>4, <1>5, <1>6 DEF SearchIInv, SearchTypes

LEMMA SearchNextKeeps ==
    ASSUME SearchIInv, [SearchNext]_searchVars
    PROVE  SearchIInv'
<1>1. CASE UNCHANGED searchVars
  BY <1>1 DEF searchVars, files, tables, searchHistory, SearchIInv, SearchTypes, FileTypes, TableTypes,
              SyncTypes, Contents, Summarised, TagsAgree, TagsOfFile
<1>2. CASE SearchNext
  <2>1. ASSUME NEW i \in Indices,
               \/ ScanAdds(i) \/ ScanRemoves(i) \/ ScanUpdates(i)
               \/ BeginIndexing(i) \/ SyncTags(i) \/ DieInSync(i)
        PROVE  SearchIInv'
    BY <2>1, ScanKeeps, BeginAndKillKeep, SyncKeeps
  <2>2. CASE CopyDocuments \/ DeleteOldDocuments \/ Summarise \/ EmptySearch \/ FillSearch
    BY <2>2, CopyKeeps, RemovalKeeps, SummariseKeeps, EmptyKeeps, FillKeeps
  <2>3. CASE KillWriter \/ StartWeb \/ StopWeb
    BY <2>3, BeginAndKillKeep, StartAndStopKeep
  <2>4. ASSUME NEW s \in Sids, NEW t \in AllTags,
               (t \in UserTags /\ WriteTag(s, t)) \/ DeleteTag(s, t) \/ DieInTagRequest(s, t)
        PROVE  SearchIInv'
    BY <2>4, WriteTagKeeps, DeleteTagKeeps, DieInTagRequestKeeps
  <2>5. QED
    BY <1>2, <2>1, <2>2, <2>3, <2>4 DEF SearchNext
<1>3. QED
  BY <1>1, <1>2

\* The inductive invariant holds throughout.
THEOREM SearchInvariant == SearchSpec => []SearchIInv
<1>1. SearchInit => SearchIInv
  BY SearchInitHolds
<1>2. SearchIInv /\ [SearchNext]_searchVars => SearchIInv'
  BY SearchNextKeeps
<1>3. QED
  BY <1>1, <1>2, PTL DEF SearchSpec

\* Index files, the tables of the search index and the processes have their types.
THEOREM SearchTypeCorrect == SearchSpec => []SearchTypeOK
<1>1. SearchIInv => SearchTypeOK
  BY DEF SearchIInv, SearchTypes, FileTypes, TableTypes, SyncTypes, SearchTypeOK, IndexRow
<1>2. QED
  BY <1>1, SearchInvariant, PTL

\* Once sqlite-index was run on an index file every document of it is found by its present
\* content, until the file is scanned again or a writer empties the table.
THEOREM FoundCorrect == SearchSpec => []DocumentsAreFound
<1>1. SearchIInv => DocumentsAreFound
  BY DEF SearchIInv, Contents, Summarised, DocumentsAreFound
<1>2. QED
  BY <1>1, SearchInvariant, PTL

\* What a search shows of the tags of a document is what the table tag has, or nothing,
\* and that table has the tags of every index file that was synchronised.
THEOREM TagsCorrect == SearchSpec => []TagsAgree
<1>1. SearchIInv => TagsAgree
  BY DEF SearchIInv
<1>2. QED
  BY <1>1, SearchInvariant, PTL

=============================================================================
