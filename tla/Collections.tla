---------------------------- MODULE Collections ----------------------------
(***************************************************************************)
(* The collections of a workspace: a tree kept as parent pointers, changed *)
(* by requests of several authors and read by three programs that each     *)
(* walk it from the roots: the sidebar of the web client, the zip export   *)
(* and the MCP server.                                                     *)
(*                                                                         *)
(* PATCH writes whatever parent it is given, so the pointers need not form *)
(* a tree, and what no walk reaches is still there.                        *)
(***************************************************************************)
EXTENDS Integers, Sequences, FiniteSets, SequencesExt

CONSTANTS
  Ids,         \* ids of collections, each used once
  Pages,       \* ids of pages, each used once
  Workspaces,
  Names,       \* names of collections
  Titles,      \* titles of pages
  Slug,        \* slug of each name and title, or NoSlug where Slug::parse refuses it
  NoSlug,
  Segments,    \* what '/' makes of each name
  Requests,    \* POST /collections requests that may be open at a time
  Null         \* NULL: the root of the tree

ASSUME IdsAssumption == IsFiniteSet(Ids) /\ Null \notin Ids
\* Of a name without a slash, what the file system sees still tells its slug.
ASSUME SlashAssumption ==
  \A a, b \in Names :
    /\ Segments[a] \in Seq(Names) /\ Segments[a] # <<>>
    /\ /\ Slug[a] # NoSlug /\ Slug[b] # NoSlug
       /\ Len(Segments[a]) = 1 /\ Segments[a] = Segments[b]
       => Slug[a] = Slug[b]

VARIABLES
  coll,     \* the table collections: a row, "unused" or "deleted"
  page,     \* the table pages
  request,  \* POST /collections between its two statements
  strayed   \* history: collections whose parent is no place for them

treeVars == <<coll, page, request, strayed>>

Unused  == [state |-> "unused"]
Deleted == [state |-> "deleted"]
NoRequest == [open |-> FALSE]

-----------------------------------------------------------------------------
(* The tables *)

Valid(text) == Slug[text] # NoSlug   \* Slug::parse

Rows    == {c \in Ids : coll[c].state = "row"}
Written == {p \in Pages : page[p].state = "row"}

\* find_by_id, scoped to a workspace
Has(ws, c) == c \in Rows /\ coll[c].ws = ws

\* list_by_workspace
ListOf(ws) == {c \in Rows : coll[c].ws = ws}

\* list_by_collection: the pages of one collection, or all of them.
PagesIn(ws, c) == {p \in Written : page[p].ws = ws /\ page[p].collection = c}
PagesOf(ws)    == {p \in Written : page[p].ws = ws}

\* parent_id REFERENCES collections(id), whatever the workspace.
Refers(parent) == parent = Null \/ parent \in Rows

\* UNIQUE (workspace_id, parent_id, slug): NULLs are distinct.
Taken(ws, parent, slug, self) ==
  /\ parent # Null
  /\ \E c \in ListOf(ws) \ {self} :
       coll[c].parent = parent /\ Slug[coll[c].name] = slug

\* Among some rows, the least set that has some of them and every row that
\* points into it.
Reached(rows, from) ==
  {c \in rows : \A S \in SUBSET rows :
     /\ from \subseteq S
     /\ \A d \in rows : coll[d].parent \in S => d \in S
     => c \in S}

\* c and the rows that ON DELETE CASCADE reaches from it.
Below(c) == Reached(Rows, {c})

\* c and the rows its pointers lead to.
Above(c) == {d \in Rows : c \in Below(d)}

\* No walk from a root comes to c by such a parent.
Stray(c, ws, parent) ==
  parent # Null /\ (parent \in Below(c) \/ coll[parent].ws # ws)

-----------------------------------------------------------------------------
(* The requests *)

\* CreateCollectionUseCase, up to the lookup of the parent; a name whose slug
\* is no slug is refused.
FindParent(r, ws, parent, name) ==
  /\ ~ request[r].open
  /\ parent # Null => Has(ws, parent)
  /\ Valid(name)
  /\ request' = [request EXCEPT ![r] =
       [open |-> TRUE, ws |-> ws, parent |-> parent, name |-> name]]
  /\ UNCHANGED <<coll, page, strayed>>

\* Faulty variant of InsertCollection: the table has no foreign key.
InsertUnreferenced(r, c) ==
  /\ request[r].open /\ coll[c] = Unused
  /\ LET q == request[r]
         ok == ~ Taken(q.ws, q.parent, Slug[q.name], c)
     IN  coll' = IF ok THEN [coll EXCEPT ![c] = [state |-> "row", ws |-> q.ws,
                                                 parent |-> q.parent, name |-> q.name]]
                       ELSE coll
  /\ request' = [request EXCEPT ![r] = NoRequest]
  /\ UNCHANGED <<page, strayed>>

\* The INSERT: 409 if the slug is taken by now, 500 if the parent is gone.
InsertCollection(r, c) ==
  /\ request[r].open /\ coll[c] = Unused
  /\ LET q == request[r]
         ok == Refers(q.parent) /\ ~ Taken(q.ws, q.parent, Slug[q.name], c)
     IN  coll' = IF ok THEN [coll EXCEPT ![c] = [state |-> "row", ws |-> q.ws,
                                                 parent |-> q.parent, name |-> q.name]]
                       ELSE coll
  /\ request' = [request EXCEPT ![r] = NoRequest]
  /\ UNCHANGED <<page, strayed>>

\* The row after the UPDATE of the fields that were given.
Patched(c, name, parent) ==
  [coll[c] EXCEPT !.name = name, !.parent = IF parent = Null THEN @ ELSE parent]

\* Faulty variant of UpdateCollection: only a change of name is checked.
UpdateNameChecked(c, ws, name, parent) ==
  /\ Has(ws, c)
  /\ Valid(name)
  /\ LET row == Patched(c, name, parent)
     IN  /\ Refers(row.parent)
         /\ row.name # coll[c].name => ~ Taken(ws, row.parent, Slug[row.name], c)
         /\ coll' = [coll EXCEPT ![c] = row]
         /\ strayed' = IF parent = Null THEN strayed
                       ELSE IF Stray(c, ws, parent) THEN strayed \union {c}
                       ELSE strayed \ {c}
  /\ UNCHANGED <<page, request>>

\* PATCH: one UPDATE of the fields that were given (a name that is not stands
\* for the old one); null for the parent is read as a field that was not given.
\* Nothing looks at where the parent is.
UpdateCollection(c, ws, name, parent) ==
  /\ Has(ws, c)
  /\ Valid(name)
  /\ LET row == Patched(c, name, parent)
     IN  /\ Refers(row.parent)
         /\ ~ Taken(ws, row.parent, Slug[row.name], c)
         /\ coll' = [coll EXCEPT ![c] = row]
         /\ strayed' = IF parent = Null THEN strayed
                       ELSE IF Stray(c, ws, parent) THEN strayed \union {c}
                       ELSE strayed \ {c}
  /\ UNCHANGED <<page, request>>

\* DELETE: the row, those below it, and no page.
DeleteCollection(c, ws) ==
  /\ Has(ws, c)
  /\ coll' = [d \in Ids |-> IF d \in Below(c) THEN Deleted ELSE coll[d]]
  /\ page' = [p \in Pages |->
       IF p \in Written /\ page[p].collection \in Below(c)
         THEN [page[p] EXCEPT !.collection = Null] ELSE page[p]]
  /\ strayed' = strayed \ Below(c)
  /\ UNCHANGED request

\* POST /pages, as far as its place goes: the collection is not looked up, so
\* it may be one of another workspace; the foreign key only wants a row.
CreatePage(p, ws, c, title) ==
  /\ page[p] = Unused
  /\ Valid(title)
  /\ Refers(c)
  /\ c # Null => \A q \in PagesIn(ws, c) : page[q].slug # Slug[title]
  /\ page' = [page EXCEPT ![p] = [state |-> "row", ws |-> ws, collection |-> c,
                                  slug |-> Slug[title], published |-> FALSE]]
  /\ UNCHANGED <<coll, request, strayed>>

\* publish and draft
SetStatus(p, published) ==
  /\ p \in Written
  /\ page' = [page EXCEPT ![p].published = published]
  /\ UNCHANGED <<coll, request, strayed>>

TreeInit ==
  /\ coll = [c \in Ids |-> Unused]
  /\ page = [p \in Pages |-> Unused]
  /\ request = [r \in Requests |-> NoRequest]
  /\ strayed = {}

TreeNext ==
  \/ \E r \in Requests, ws \in Workspaces, parent \in Ids \union {Null}, name \in Names :
       FindParent(r, ws, parent, name)
  \/ \E r \in Requests, c \in Ids : InsertCollection(r, c)
  \/ \E c \in Ids, ws \in Workspaces :
       \/ \E name \in Names, parent \in Ids \union {Null} : UpdateCollection(c, ws, name, parent)
       \/ DeleteCollection(c, ws)
  \/ \E p \in Pages :
       \/ \E ws \in Workspaces, c \in Ids \union {Null}, title \in Titles :
            CreatePage(p, ws, c, title)
       \/ \E published \in BOOLEAN : SetStatus(p, published)

TreeSpec == TreeInit /\ [][TreeNext]_treeVars

-----------------------------------------------------------------------------
(* The readers *)

RootsIn(rows) == {c \in rows : coll[c].parent = Null}

\* buildTree: the nodes of the sidebar.
Tree(ws) == Reached(ListOf(ws), RootsIn(ListOf(ws)))

\* CollectionTree: the pages of each node, and those of no collection.
Sidebar(ws) == PagesIn(ws, Null) \union UNION {PagesIn(ws, c) : c \in Tree(ws)}

\* A recursive query over some rows comes to c from a root, parent by parent.
Walks(rows, c) ==
  {w \in SeqOf(rows, Cardinality(rows)) \ {<<>>} :
     /\ Last(w) = c
     /\ coll[w[1]].parent = Null
     /\ \A i \in DOMAIN w \ {1} : coll[w[i]].parent = w[i - 1]}

\* find_all_published: names joined with '/' and split again for the zip; a
\* page of no path is put under _uncategorized.
ExportPath(p) ==
  {FlattenSeq([i \in DOMAIN w |-> Segments[coll[w[i]].name]]) :
     w \in Walks(ListOf(page[p].ws), page[p].collection)}

Exported(ws) == {p \in PagesOf(ws) : page[p].published}

\* build_zip_entry_name, for one language
Entry(p) == <<ExportPath(p), page[p].slug>>

\* enrich_chunk_results: the walk is not limited to a workspace.
McpPath(p) ==
  {[i \in DOMAIN w |-> coll[w[i]].name] : w \in Walks(Rows, page[p].collection)}

-----------------------------------------------------------------------------
(* Properties *)

\* A page of no collection, or of one of its own workspace: POST /pages does
\* not look at whose collection it is given.
AtHome(p) == page[p].collection # Null => Has(page[p].ws, page[p].collection)

\* A page at home whose collections all stand where a walk can come.
Placed(p) ==
  /\ AtHome(p)
  /\ page[p].collection # Null => Above(page[p].collection) \intersect strayed = {}

\* Under any order of creations, renames, moves and deletions, a creation
\* overtaken by the deletion of its parent among them: a page is somewhere in
\* the sidebar, and the export and the MCP server give it the path of names
\* that leads there.  Two kinds of page are excepted: one that was created in
\* a collection of another workspace, and one with a collection above it that
\* was moved beneath itself or into another workspace.
EveryPageIsShown ==
  \A p \in Written : Placed(p) =>
    /\ p \in Sidebar(page[p].ws)
    /\ page[p].collection # Null =>
         /\ Cardinality(McpPath(p)) = 1
         /\ ExportPath(p) = {FlattenSeq([i \in DOMAIN path |-> Segments[path[i]]]) : path \in McpPath(p)}

\* No file of an exported zip overwrites another beneath one root collection:
\* the table keeps the slugs of siblings apart, and so the names.  It does so
\* neither among the roots nor among pages of no collection, and a name with a
\* '/' is two directories.
Plain(p) ==
  /\ Placed(p) /\ page[p].collection # Null
  /\ \A c \in Above(page[p].collection) : Len(Segments[coll[c].name]) = 1

RootsOf(p) == RootsIn(Above(page[p].collection))

EntriesApart ==
  \A ws \in Workspaces : \A p, q \in Exported(ws) :
    p # q /\ Plain(p) /\ Plain(q) /\ RootsOf(p) = RootsOf(q) => Entry(p) # Entry(q)

=============================================================================
