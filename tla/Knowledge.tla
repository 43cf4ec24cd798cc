----------------------------- MODULE Knowledge -----------------------------
(***************************************************************************)
(* The knowledge index of one workspace: KnowledgeStore of                 *)
(* workflows/storage/knowledge.py.                                         *)
(*                                                                         *)
(* Indexing walks the files in one write transaction, while users edit     *)
(* them.  A search reads the index in a transaction of its own and then    *)
(* opens the files again, while users edit them and another process        *)
(* indexes.  A text stands for a file's bytes and for their digest; a file *)
(* whose name, suffix or directory excludes it is not among the paths.     *)
(***************************************************************************)
EXTENDS Naturals, FiniteSets

CONSTANTS
    Paths,          \* eligible paths of the workspace
    Texts,          \* what a readable file may hold
    Unreadable,     \* a symlink, a directory, binary or too large
    Missing,        \* no file, no row
    Length,         \* Length[t]: chunks of a text
    MaxIndexFiles,  \* MAX_INDEX_FILES
    MaxChunks,      \* MAX_CHUNKS
    MaxEdits        \* bound: edits of files

ASSUME KnowledgeAssumption ==
    /\ Length \in [Texts -> Nat]
    /\ Unreadable \notin Texts /\ Missing \notin Texts
    /\ {MaxIndexFiles, MaxChunks, MaxEdits} \subseteq Nat

VARIABLES
    files,          \* the workspace
    index,          \* the committed tables: knowledge_files and _chunks
    walk,           \* the transaction of index_workspace under way
    search,         \* the search under way
    edits           \* history: edits so far

knowledgeVars == <<files, index, walk, search, edits>>

FileContents == Texts \cup {Unreadable, Missing}
NoWalk == [on |-> FALSE]
NoSearch == [on |-> FALSE]
NoIndex == [rows |-> [p \in Paths |-> Missing], chunks |-> {}]

KnowledgeInit ==
    /\ files \in [Paths -> FileContents]
    /\ index = NoIndex
    /\ walk = NoWalk /\ search = NoSearch
    /\ edits = 0

\* safe_document: the bytes of a bounded regular file, or an error.
Document(p) == IF files[p] \in Texts THEN files[p] ELSE Missing

\* held is a ghost of a walk and of a search: what each document has been
\* since it began.
Held == [p \in Paths |-> {Document(p)}]
StillHeld(x, p) == IF x.on THEN [x EXCEPT !.held[p] = @ \cup {Document(p)'}] ELSE x

\* A user writes, replaces or deletes a file.
Edit(p, content) ==
    /\ files[p] # content /\ edits < MaxEdits
    /\ edits' = edits + 1
    /\ files' = [files EXCEPT ![p] = content]
    /\ walk' = StillHeld(walk, p) /\ search' = StillHeld(search, p)
    /\ UNCHANGED index

-----------------------------------------------------------------------------
(* index_workspace.  BEGIN IMMEDIATE admits one at a time. *)

\* A path that is missing when its directory is listed is as good as visited then.
BeginWalk ==
    /\ ~walk.on
    /\ walk' = [on |-> TRUE, tables |-> index, seen |-> {}, held |-> Held, todo |-> Paths]
    /\ UNCHANGED <<files, index, search, edits>>

Chunks(p, t) == {<<p, t, k>> : k \in 1..Length[t]}
OfOtherFiles(chunks, p) == {c \in chunks : c[1] # p}

\* Mutant: the new chunks are stored beside the old ones.
StoredBeside(tables, p, t) ==
    [rows |-> [tables.rows EXCEPT ![p] = t], chunks |-> tables.chunks \cup Chunks(p, t)]

\* A file whose digest is the stored one keeps its chunks.
Stored(tables, p, t) ==
    IF tables.rows[p] = t THEN tables
    ELSE [rows   |-> [tables.rows EXCEPT ![p] = t],
          chunks |-> OfOtherFiles(tables.chunks, p) \cup Chunks(p, t)]

\* A file that cannot be read is skipped, and not seen.
Visit(p) ==
    /\ walk.on /\ p \in walk.todo
    /\ walk' = LET rest == [walk EXCEPT !.todo = @ \ {p}] IN
         IF Document(p) = Missing THEN rest
         ELSE [rest EXCEPT !.seen = @ \cup {p}, !.tables = Stored(@, p, Document(p))]
    /\ UNCHANGED <<files, index, search, edits>>

\* What was not seen loses its row and its chunks.
Cleaned(tables, seen) ==
    [rows   |-> [p \in Paths |-> IF p \in seen THEN tables.rows[p] ELSE Missing],
     chunks |-> {c \in tables.chunks : c[1] \in seen}]

WithinQuota(tables, seen) ==
    Cardinality(seen) <= MaxIndexFiles /\ Cardinality(tables.chunks) <= MaxChunks

CommitIndex ==
    /\ walk.on /\ walk.todo = {}
    /\ index' = Cleaned(walk.tables, walk.seen)
    /\ WithinQuota(index', walk.seen)
    /\ walk' = NoWalk
    /\ UNCHANGED <<files, search, edits>>

\* A quota, an error or the end of the process, at any file.
UndoIndex ==
    /\ walk.on
    /\ walk' = NoWalk
    /\ UNCHANGED <<files, index, search, edits>>

ClearKnowledge ==
    /\ ~walk.on
    /\ index' = NoIndex
    /\ UNCHANGED <<files, walk, search, edits>>

-----------------------------------------------------------------------------
(* search_knowledge. *)

\* hits: the rows that match the query; opened: the files hashed since.
BeginSearch(hits) ==
    /\ ~search.on
    /\ search' = [on |-> TRUE, hits |-> hits, opened |-> [p \in {} |-> Missing],
                  results |-> {}, held |-> Held]
    /\ UNCHANGED <<files, index, walk, edits>>

\* A file is opened at its first row; its later rows rely on that digest.
ConsiderRow(c) ==
    /\ search.on /\ c \in search.hits
    /\ LET opened == IF c[1] \in DOMAIN search.opened THEN search.opened
                     ELSE [p \in DOMAIN search.opened \cup {c[1]} |->
                             IF p = c[1] THEN Document(p) ELSE search.opened[p]]
       IN search' = [search EXCEPT
            !.hits = @ \ {c}, !.opened = opened,
            !.results = IF opened[c[1]] = c[2] THEN @ \cup {c} ELSE @]
    /\ UNCHANGED <<files, index, walk, edits>>

\* All rows are considered, or there are results enough.
EndSearch ==
    /\ search.on /\ (search.hits = {} \/ search.results # {})
    /\ search' = NoSearch
    /\ UNCHANGED <<files, index, walk, edits>>

KnowledgeNext ==
    \/ \E p \in Paths : \/ Visit(p)
                        \/ \E content \in FileContents : Edit(p, content)
    \/ BeginWalk \/ CommitIndex \/ UndoIndex \/ ClearKnowledge
    \/ \E hits \in SUBSET index.chunks : BeginSearch(hits)
    \/ search.on /\ \E c \in search.hits : ConsiderRow(c)
    \/ EndSearch

KnowledgeSpec == KnowledgeInit /\ [][KnowledgeNext]_knowledgeVars

-----------------------------------------------------------------------------
KnowledgeTypeOK ==
    /\ files \in [Paths -> FileContents]
    /\ index.rows \in [Paths -> Texts \cup {Missing}]
    /\ index.chunks \subseteq Paths \X Texts \X Nat
    /\ walk.on => walk.todo \cap walk.seen = {} /\ walk.tables.rows \in [Paths -> Texts \cup {Missing}]
    /\ search.on => search.hits \cap search.results = {}
    /\ edits \in 0..MaxEdits

\* The two tables agree: a file's chunks are those of the text its row names,
\* all of them and no others, and the quotas hold, whatever walk failed.
IndexIsWhole ==
    /\ index.chunks = UNION {Chunks(p, index.rows[p]) : p \in {q \in Paths : index.rows[q] # Missing}}
    /\ WithinQuota(index, {p \in Paths : index.rows[p] # Missing})

\* What a search returns was in the file while the search ran, however old the
\* index is and whoever indexes meanwhile ("Never serve stale, deleted or
\* newly symlinked files").
NothingStaleServed ==
    search.on => \A c \in search.results : c[2] \in search.held[c[1]]

\* An index that commits says of every file something that was true of it
\* during the walk.
IndexIsFresh ==
    [][walk.on /\ ~walk'.on /\ index' # index =>
          \A p \in Paths : index'.rows[p] \in walk.held[p]]_knowledgeVars

\* The index is whole, fresh when it commits, and never quoted once stale.
IndexIsTrue == [](IndexIsWhole /\ NothingStaleServed) /\ IndexIsFresh
=============================================================================
