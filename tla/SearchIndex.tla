---------------------------- MODULE SearchIndex ----------------------------
(***************************************************************************)
(* The SQLite search backend: the index files that scans leave, the search *)
(* index that `sist2 sqlite-index` copies them to, and the tags that the   *)
(* web server writes to both.                                              *)
(*                                                                         *)
(* A step is one statement of database_fts_index (each commits by itself), *)
(* the synchronisation of the tags of one index file when the web server   *)
(* starts, its first half if the server dies there, or one request on a    *)
(* tag.  A document is abstracted to its path (name and path), the version *)
(* of all else that its row and its json_data hold, and whether json_data  *)
(* is there at all: a scan that was cut short leaves a document without    *)
(* (IndexDatabase).                                                        *)
(***************************************************************************)
EXTENDS Naturals, FiniteSets, Functions

CONSTANTS Indices,       \* ids of the index files, timestamps: never 0
          MaxId,         \* bound on the ids of documents
          DocPaths, Versions,
          UserTags,      \* tags that users write
          ZeroTag,       \* the text "0"
          NoTag,         \* no tag
          MaxScans, MaxIndexings, MaxTagEdits, MaxStarts, MaxEnds  \* bounds on events

ASSUME SearchAssumption ==
    /\ 0 \notin Indices
    /\ MaxId \in Nat \ {0} /\ DocPaths # {} /\ Versions # {}
    /\ ZeroTag \notin UserTags
    /\ NoTag \notin UserTags \cup {ZeroTag}

DocIds == 1 .. MaxId
AllTags == UserTags \cup {ZeroTag}
NoTags == {NoTag}  \* json_data has no member $.tag

\* The 64-bit id of a document in the search index: the id of its index file in
\* the upper half. A document id alone is such a number with 0 there.
Sid(i, d) == <<i, d>>
Upper(s) == s[1]
Sids == {Sid(i, d) : i \in Indices, d \in DocIds}

VARIABLES
    document,        \* of each index file: id -> path, version, is there json_data?
    index_tag,       \* of each index file, its table tag: <<id, tag>>
    delete_list,     \* of each index file: ids of deleted documents
    document_index,  \* search index: sid -> columns, path and version in json_data, $.tag
    fts_tag,         \* search index, its table tag: <<sid, tag>>
    search,          \* search index, the full-text table: sid -> path, version
    summary,         \* sid -> version of the rows that stats, mime_index were made of
    writer,          \* the running sqlite-index: its index file and its next statement
    web,             \* "down", "starting" or "up"
    loaded,          \* index files the starting server is done with
    \* --- history
    copied,          \* index files not scanned since their documents were copied
    fresh,           \* index files not scanned since all of sqlite-index was run on them
    emptied,         \* the full-text table was emptied and not filled again
    agreed,          \* index files whose tags agreed when last synchronised or deleted from
    wanted,          \* <<sid, tag>> users wrote and did not delete
    count            \* how many of the bounded events happened

files == <<document, index_tag, delete_list>>
tables == <<document_index, fts_tag, search, summary>>
searchHistory == <<copied, fresh, emptied, agreed, wanted>>
searchVars == <<files, tables, writer, web, loaded, searchHistory, count>>

Document == [path : DocPaths, version : Versions, json : BOOLEAN]
NoWriter == [index |-> 0, pc |-> "idle"]
WriterPcs == {"content", "delete", "summary", "empty", "fill"}

Events == {"scan", "index", "tag", "start", "death"}
EventBound == [e \in Events |-> CASE e = "scan" -> MaxScans [] e = "index" -> MaxIndexings
                 [] e = "tag" -> MaxTagEdits [] e = "start" -> MaxStarts [] e = "death" -> MaxEnds]
Happens(e) == count[e] < EventBound[e] /\ count' = [count EXCEPT ![e] = @ + 1]

\* Each index file has been scanned once, and none has been indexed. Paths and
\* versions are only compared with each other: any one will do for the first.
SearchInit ==
    /\ document = [i \in Indices |-> [d \in {1} |-> CHOOSE doc \in Document : doc.json]]
    /\ index_tag = [i \in Indices |-> {}]
    /\ delete_list = [i \in Indices |-> {}]
    /\ document_index = <<>> /\ fts_tag = {} /\ search = <<>> /\ summary = <<>>
    /\ writer = NoWriter
    /\ web = "down" /\ loaded = {}
    /\ copied = {} /\ fresh = {} /\ emptied = FALSE /\ agreed = {} /\ wanted = {}
    /\ count = [e \in Events |-> 0]

-----------------------------------------------------------------------------
(* What a scan may do to an index file (IndexDatabase), in one step.       *)

NextDocId(i, d) ==
    /\ \A e \in DOMAIN document[i] : e < d
    /\ d = 1 \/ d - 1 \in DOMAIN document[i]

Rewrite(i, docs) ==
    /\ Happens("scan")
    /\ document' = [document EXCEPT ![i] = docs]
    /\ copied' = copied \ {i} /\ fresh' = fresh \ {i}
    /\ UNCHANGED <<index_tag, tables, writer, web, loaded, emptied, agreed, wanted>>

\* A new file; its id may be one that was deleted before.
ScanAdds(i) ==
    \E d \in DocIds, doc \in Document :
       /\ NextDocId(i, d)
       /\ \A e \in DOMAIN document[i] : document[i][e].path # doc.path
       /\ Rewrite(i, [e \in DOMAIN document[i] \cup {d} |-> IF e = d THEN doc ELSE document[i][e]])
       /\ delete_list' = [delete_list EXCEPT ![i] = @ \ DOMAIN document[i]]

ScanRemoves(i) ==
    \E d \in DOMAIN document[i] :
       /\ Rewrite(i, Restrict(document[i], DOMAIN document[i] \ {d}))
       /\ delete_list' = [delete_list EXCEPT ![i] = (@ \ DOMAIN document[i]) \cup {d}]

\* json_data is written anew, or at last: the row was in marked, unmarked.
ScanUpdates(i) ==
    \E d \in DOMAIN document[i], v \in Versions :
       /\ document[i][d].version # v \/ ~document[i][d].json
       /\ Rewrite(i, [document[i] EXCEPT ![d].version = v, ![d].json = TRUE])
       /\ delete_list' = [delete_list EXCEPT ![i] = @ \ (DOMAIN document[i] \ {d})]

-----------------------------------------------------------------------------
(* sist2 sqlite-index.                                                     *)

BeginIndexing(i) ==
    /\ writer = NoWriter
    /\ Happens("index")
    /\ writer' = [index |-> i, pc |-> "content"]
    /\ UNCHANGED <<files, tables, web, loaded, searchHistory>>

\* The row that an index file gives for a document: its json_data has no tags.
RowOf(doc) == [column |-> doc.path, path |-> doc.path, version |-> doc.version, tag |-> NoTags]

\* Mutant: ON CONFLICT DO NOTHING.
UpsertNothing(i) ==
    LET new == {Sid(i, d) : d \in DOMAIN document[i]}
    IN  [s \in DOMAIN document_index \cup new |->
            IF s \in DOMAIN document_index THEN document_index[s] ELSE RowOf(document[i][s[2]])]

\* INSERT ... ON CONFLICT (id) DO UPDATE: the columns name, path and
\* thumbnail_count of a row that is there stay, json_data is replaced with its tags.
Upsert(i) ==
    LET new == {Sid(i, d) : d \in DOMAIN document[i]}
    IN  [s \in DOMAIN document_index \cup new |->
            IF s \notin new THEN document_index[s]
            ELSE IF s \in DOMAIN document_index
                 THEN [RowOf(document[i][s[2]]) EXCEPT !.column = document_index[s].column]
                 ELSE RowOf(document[i][s[2]])]

\* name, path and json_data are NOT NULL: a document without json_data fails the
\* statement, and the command.
CopyDocuments ==
    /\ writer.pc = "content"
    /\ LET i == writer.index
           whole == \A d \in DOMAIN document[i] : document[i][d].json
       IN  /\ document_index' = IF whole THEN Upsert(i) ELSE document_index
           /\ copied' = IF whole THEN copied \cup {i} ELSE copied
           /\ writer' = IF whole THEN [writer EXCEPT !.pc = "delete"] ELSE NoWriter
    /\ UNCHANGED <<files, fts_tag, search, summary, web, loaded, fresh, emptied, agreed, wanted,
                   count>>

\* WHERE id IN (SELECT id FROM delete_list) AND index_id = ...: the ids of the list
\* have no upper half.
DeleteOldDocuments ==
    /\ writer.pc = "delete"
    /\ LET old == {s \in DOMAIN document_index :
                      /\ s \in {Sid(0, d) : d \in delete_list[writer.index]}
                      /\ Upper(s) = writer.index}
       IN  document_index' = Restrict(document_index, DOMAIN document_index \ old)
    /\ writer' = [writer EXCEPT !.pc = "summary"]
    /\ UNCHANGED <<files, fts_tag, search, summary, web, loaded, searchHistory, count>>

\* stats and mime_index; path_index is PathIndex.
Summarise ==
    /\ writer.pc = "summary"
    /\ summary' = [s \in DOMAIN document_index |-> document_index[s].version]
    /\ writer' = [writer EXCEPT !.pc = "empty"]
    /\ UNCHANGED <<files, document_index, fts_tag, search, web, loaded, searchHistory, count>>

\* INSERT INTO search(search) VALUES ('delete-all')
EmptySearch ==
    /\ writer.pc = "empty"
    /\ search' = <<>>
    /\ emptied' = TRUE
    /\ writer' = [writer EXCEPT !.pc = "fill"]
    /\ UNCHANGED <<files, document_index, fts_tag, summary, web, loaded, copied, fresh, agreed,
                   wanted, count>>

\* From document_view, which reads json_data.
FillSearch ==
    /\ writer.pc = "fill"
    /\ search' = [s \in DOMAIN document_index |->
                    [path |-> document_index[s].path, version |-> document_index[s].version]]
    /\ emptied' = FALSE
    /\ fresh' = copied
    /\ writer' = NoWriter
    /\ UNCHANGED <<files, document_index, fts_tag, summary, web, loaded, copied, agreed, wanted,
                   count>>

KillWriter ==
    /\ writer # NoWriter
    /\ Happens("death")
    /\ writer' = NoWriter
    /\ UNCHANGED <<files, tables, web, loaded, searchHistory>>

-----------------------------------------------------------------------------
(* sist2 web.                                                              *)

TagsOf(tags, s) == {t \in AllTags : <<s, t>> \in tags}

\* tag_write_trigger and tag_delete_trigger, for the rows of tag that change.
Triggers(new) ==
    LET touched == {p[1] : p \in (fts_tag \ new) \cup (new \ fts_tag)}
    IN  [s \in DOMAIN document_index |->
            IF s \in touched THEN [document_index[s] EXCEPT !.tag = TagsOf(new, s)]
                             ELSE document_index[s]]

\* There is a search index once sqlite-index has run.
StartWeb ==
    /\ web = "down" /\ count["index"] > 0
    /\ Happens("start")
    /\ web' = "starting" /\ loaded' = {}
    /\ UNCHANGED <<files, tables, writer, searchHistory>>

TagsOfFile(i) == {<<Sid(i, p[1]), p[2]>> : p \in index_tag[i]}

\* Mutant: tags that are in the search index only stay there.
SyncTagsInsertOnly(i) ==
    /\ web = "starting"
    /\ i \notin loaded
    /\ fts_tag' = fts_tag \cup TagsOfFile(i)
    /\ document_index' = Triggers(fts_tag')
    /\ loaded' = loaded \cup {i}
    /\ web' = IF loaded' = Indices THEN "up" ELSE "starting"
    /\ agreed' = agreed \cup {i}
    /\ UNCHANGED <<files, search, summary, writer, copied, fresh, emptied, wanted, count>>

\* database_fts_attach, database_fts_sync_tags, database_fts_detach
SyncTags(i) ==
    /\ web = "starting"
    /\ i \notin loaded
    /\ fts_tag' = {p \in fts_tag : Upper(p[1]) = i => p \in TagsOfFile(i)} \cup TagsOfFile(i)
    /\ document_index' = Triggers(fts_tag')
    /\ loaded' = loaded \cup {i}
    /\ web' = IF loaded' = Indices THEN "up" ELSE "starting"
    /\ agreed' = agreed \cup {i}
    /\ UNCHANGED <<files, search, summary, writer, copied, fresh, emptied, wanted, count>>

\* The server dies between the two statements of the synchronisation.
DieInSync(i) ==
    /\ web = "starting"
    /\ i \notin loaded
    /\ Happens("death")
    /\ fts_tag' = {p \in fts_tag : Upper(p[1]) = i => p \in TagsOfFile(i)}
    /\ document_index' = Triggers(fts_tag')
    /\ web' = "down" /\ loaded' = {}
    /\ UNCHANGED <<files, search, summary, writer, searchHistory>>

StopWeb ==
    /\ web # "down"
    /\ Happens("death")
    /\ web' = "down" /\ loaded' = {}
    /\ UNCHANGED <<files, tables, writer, searchHistory>>

\* The tag of the row that database_write_tag inserts in the index file: the
\* upper half of the id, and it is given the id without index file.
WrittenTag(s, t) == IF Upper(s) = 0 THEN ZeroTag ELSE t

\* tag() with delete false, on a document that a search shows. The two writes are
\* to two files: the server may die between them.
WriteTag(s, t) ==
    /\ web = "up" /\ s \in DOMAIN search
    /\ Happens("tag")
    /\ index_tag' = [index_tag EXCEPT ![Upper(s)] = @ \cup {<<s[2], WrittenTag(Sid(0, s[2]), t)>>}]
    /\ fts_tag' = fts_tag \cup {<<s, t>>}
    /\ document_index' = Triggers(fts_tag')
    /\ wanted' = wanted \cup {<<s, t>>}
    /\ agreed' = agreed \ {Upper(s)}
    /\ UNCHANGED <<document, delete_list, search, summary, writer, web, loaded, copied, fresh,
                   emptied>>

\* tag() with delete true, on a tag that the search index has.
DeleteTag(s, t) ==
    /\ web = "up" /\ <<s, t>> \in fts_tag
    /\ Happens("tag")
    /\ index_tag' = [index_tag EXCEPT ![Upper(s)] = @ \ {<<s[2], t>>}]
    /\ fts_tag' = fts_tag \ {<<s, t>>}
    /\ document_index' = Triggers(fts_tag')
    /\ wanted' = wanted \ {<<s, t>>}
    /\ UNCHANGED <<document, delete_list, search, summary, writer, web, loaded, copied, fresh,
                   emptied, agreed>>

\* The server dies once the index file is written.
DieInTagRequest(s, t) ==
    /\ web = "up" /\ s \in DOMAIN search
    /\ Happens("death")
    /\ \/ index_tag' = [index_tag EXCEPT ![Upper(s)] = @ \cup {<<s[2], WrittenTag(Sid(0, s[2]), t)>>}]
       \/ <<s, t>> \in fts_tag /\ index_tag' = [index_tag EXCEPT ![Upper(s)] = @ \ {<<s[2], t>>}]
    /\ agreed' = agreed \ {Upper(s)}
    /\ web' = "down" /\ loaded' = {}
    /\ UNCHANGED <<document, delete_list, tables, writer, copied, fresh, emptied, wanted>>

SearchNext ==
    \/ \E i \in Indices : \/ ScanAdds(i) \/ ScanRemoves(i) \/ ScanUpdates(i)
                          \/ BeginIndexing(i) \/ SyncTags(i) \/ DieInSync(i)
    \/ CopyDocuments \/ DeleteOldDocuments \/ Summarise \/ EmptySearch \/ FillSearch
    \/ KillWriter
    \/ StartWeb \/ StopWeb
    \/ \E s \in Sids, t \in AllTags :
          \/ t \in UserTags /\ WriteTag(s, t)
          \/ DeleteTag(s, t)
          \/ DieInTagRequest(s, t)

SearchSpec == SearchInit /\ [][SearchNext]_searchVars
-----------------------------------------------------------------------------
(* Properties.                                                             *)

SearchRow == [path : DocPaths, version : Versions]

SearchTypeOK ==
    /\ \A i \in Indices : /\ DOMAIN document[i] \subseteq DocIds
                         /\ \A d \in DOMAIN document[i] : document[i][d] \in Document
                         /\ index_tag[i] \subseteq DocIds \X AllTags
                         /\ delete_list[i] \subseteq DocIds
    /\ DOMAIN document_index \subseteq Sids
    /\ \A s \in DOMAIN document_index :
          document_index[s] \in [column : DocPaths, path : DocPaths, version : Versions,
                                tag : (SUBSET AllTags) \cup {NoTags}]
    /\ fts_tag \subseteq Sids \X AllTags
    /\ DOMAIN search \subseteq Sids /\ \A s \in DOMAIN search : search[s] \in SearchRow
    /\ DOMAIN summary \subseteq Sids
    /\ writer = NoWriter \/ writer \in [index : Indices, pc : WriterPcs]
    /\ web \in {"down", "starting", "up"} /\ loaded \subseteq Indices

\* Once sqlite-index is through with an index file, and until the next scan of it,
\* every document is found, by its present content, and so it is shown and counted;
\* only a writer that is killed, or has just emptied the table, takes them away.
DocumentsAreFound ==
    \A i \in fresh : \A d \in DOMAIN document[i] :
        LET s == Sid(i, d)
            now == [path |-> document[i][d].path, version |-> document[i][d].version]
        IN  /\ emptied \/ (s \in DOMAIN search /\ search[s] = now)
            /\ document_index[s].path = now.path /\ document_index[s].version = now.version
            /\ summary[s] = now.version

\* database_fts.c:80 says it is "Deleting old documents": once sqlite-index is through with
\* an index file, and until the next scan of it, no search finds a document that the file
\* does not have any more.
DeletedAreGone ==
    \A s \in DOMAIN search : Upper(s) \in fresh => s[2] \in DOMAIN document[Upper(s)]

\* A tag is in three places, and they agree: what a search shows of the tags of a
\* document is what the table tag has of it, or nothing, whatever the order of
\* sqlite-index, restarts and requests; and once an index file is synchronised the table
\* has the tags of the file, through the deletion of tags and other commands.
TagsAgree ==
    /\ \A s \in DOMAIN document_index :
          document_index[s].tag \in {NoTags, TagsOf(fts_tag, s)}
    /\ \A i \in agreed : {p \in fts_tag : Upper(p[1]) = i} = TagsOfFile(i)

\* docs/USAGE.md:218: tags that are added are saved in the index, and applied when it
\* is indexed again. The server that comes up has the tags users wrote before.
TagsSurviveRestart == web = "up" => wanted \subseteq fts_tag
=============================================================================
