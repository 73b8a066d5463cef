------------------------------ MODULE Documents ------------------------------
(***************************************************************************)
(* The document service (document/service/service.go) of one node: records *)
(* in the storage engine and the index of document/index in memory.  A     *)
(* call of the engine is atomic and so is a call of the index, but nothing *)
(* holds the two together: between the steps of a call other calls run.    *)
(* A document is the set of its field-value pairs that are indexed.        *)
(* Whoever writes the keys of documents through the key-value interface is *)
(* left out.                                                               *)
(***************************************************************************)
EXTENDS Integers, Sequences, FiniteSets

CONSTANTS
    MaxId,    \* bound: identifiers, in the order of their strings
    Entry,    \* pairs of a field and a value
    Doc,      \* the documents clients store
    NoDoc,    \* no record
    Call,     \* calls of Create, Update and Delete
    Query,    \* calls of FindByField that may be under way at once
    MaxPage   \* bound: of limit and offset

ASSUME DocumentsAssumption ==
    /\ MaxId \in Nat /\ MaxPage \in Nat
    /\ Doc \subseteq SUBSET Entry
    /\ NoDoc \notin Doc

VARIABLES
    record,   \* record[id]: the document stored
    index,    \* the entries of the index
    call,     \* call[c]: a writer and the step it is at
    find,     \* find[q]: a query and what it has collected
    lacking,  \* history: documents the index may miss a pair of
    surplus   \* history: documents it may hold under a pair they do not have

past == <<lacking, surplus>>
vars == <<record, index, call, find, lacking, surplus>>

Id     == 1..MaxId
NoCall == [op |-> "none", pc |-> "new", id |-> 0, old |-> NoDoc, new |-> NoDoc]
NoFind == [pc |-> "idle", want |-> NoDoc, offset |-> 0, limit |-> 0, rest |-> {},
           matched |-> 0, seen |-> <<>>, results |-> <<>>, during |-> {}]

Active(c) == call[c].pc \notin {"new", "done"}
Under(id) == {c \in Call : Active(c) /\ call[c].id = id}

Pairs(doc, id) == doc \X {id}
Indexed(id)    == {e \in Entry : <<e, id>> \in index}

\* Mutated form of Reindexed: the new pairs are added before the old ones go.
ReindexedFirst(id, old, new) == (index \union Pairs(new, id)) \ Pairs(old, id)

Reindexed(id, old, new) == (index \ Pairs(old, id)) \union Pairs(new, id)

\* Mutated form of Lookup: the value is not compared.
LookupAny(e) == {id \in Id : Indexed(id) # {}}

Lookup(e) == {id \in Id : <<e, id>> \in index}

\* Mutated form of Within: one too many is skipped.
WithinToo(q) == q.matched <= q.offset

\* The query is still before its offset.
Within(q) == q.matched < q.offset

\* Mutated form of Missed: a document that is gone is taken like any other.
Taken(q, id) ==
    [q EXCEPT !.rest = @ \ {id},
              !.seen = Append(@, <<id, NoDoc>>),
              !.pc   = IF q.rest = {id} THEN "done" ELSE "fetch"]

\* Mutated form of Missed: the query ends at a document that is gone.
Stopped(q, id) == [q EXCEPT !.pc = "done"]

\* The query goes on after a document that is gone.
Missed(q, id) ==
    [q EXCEPT !.rest = @ \ {id},
              !.pc   = IF q.rest = {id} THEN "done" ELSE "fetch"]

\* The query goes on, or ends, with a document it was given.
Got(q, id, doc) ==
    LET take    == ~Within(q) /\ q.limit # 0
        results == IF take THEN Append(q.results, <<id, doc>>) ELSE q.results
        full    == ~Within(q) /\ Len(results) = q.limit
    IN  [q EXCEPT !.rest    = @ \ {id},
                  !.matched = IF take \/ Within(q) THEN @ + 1 ELSE @,
                  !.seen    = Append(@, <<id, doc>>),
                  !.results = results,
                  !.pc      = IF full \/ q.rest = {id} THEN "done" ELSE "fetch"]

----------------------------------------------------------------------------

Init ==
    /\ record = [id \in Id |-> NoDoc]
    /\ index = {}
    /\ call = [c \in Call |-> NoCall]
    /\ find = [q \in Query |-> NoFind]
    /\ lacking = {} /\ surplus = {}

\* A call c begins; the queries under way remember that it ran meanwhile.
Begin(c, begun) ==
    /\ call[c].pc = "new"
    /\ call' = [call EXCEPT ![c] = begun]
    /\ find' = [q \in Query |-> IF find[q].pc = "fetch"
                                THEN [find[q] EXCEPT !.during = @ \union {c}]
                                ELSE find[q]]

Goto(c, pc) == call' = [call EXCEPT ![c].pc = pc]

Updating(id) == \E c \in Under(id) : call[c].op = "update"

\* Nothing is stored or indexed under the identifier, or about to be.
Blank(id) == record[id] = NoDoc /\ Indexed(id) = {} /\ Under(id) = {}

Noted(ids, id, when) == IF when THEN ids \union {id} ELSE ids

\* The call ends alone and its document is the one stored: nothing is lacking.
Mended(c) ==
    IF Under(call[c].id) = {c} /\ record[call[c].id] = call[c].new
    THEN lacking \ {call[c].id} ELSE lacking

\* The engine stores the document, refuses it, or stores it and reports an
\* error because a checkpoint failed.
Put(id, doc, stored, ok) ==
    /\ ok => stored
    /\ record' = IF stored THEN [record EXCEPT ![id] = doc] ELSE record

\* CreateWithID: Put, then IndexDocument.  Any identifier will do, Create's new
\* one or that of a forwarded request, and what was stored under it before keeps
\* its pairs in the index.
Create(c, id, doc) ==
    /\ \E stored, ok \in BOOLEAN :
          /\ Put(id, doc, stored, ok)
          /\ Begin(c, [op |-> "create", pc |-> IF ok THEN "index" ELSE "done",
                       id |-> id, old |-> NoDoc, new |-> doc])
          /\ lacking' = Noted(lacking, id, stored /\ (~ok \/ Updating(id)))
          /\ surplus' = Noted(surplus, id, stored /\ ~Blank(id))
    /\ UNCHANGED index

IndexDocument(c) ==
    /\ call[c].pc = "index"
    /\ index' = index \union Pairs(call[c].new, call[c].id)
    /\ Goto(c, "done")
    /\ lacking' = Mended(c)
    /\ UNCHANGED <<record, find, surplus>>

\* Update: Get, then Put, then UpdateDocument.
Update(c, id, doc) ==
    /\ record[id] # NoDoc
    /\ Begin(c, [op |-> "update", pc |-> "put", id |-> id, old |-> record[id], new |-> doc])
    /\ lacking' = Noted(lacking, id, Updating(id))
    /\ surplus' = Noted(surplus, id, Under(id) # {})
    /\ UNCHANGED <<record, index>>

UpdatePut(c) ==
    LET id == call[c].id
    IN  /\ call[c].pc = "put"
        /\ \E stored, ok \in BOOLEAN :
              /\ Put(id, call[c].new, stored, ok)
              /\ Goto(c, IF ok THEN "reindex" ELSE "done")
              /\ lacking' = Noted(lacking, id, stored /\ ~ok)
              /\ surplus' = Noted(surplus, id, stored /\ ~ok)
        /\ UNCHANGED <<index, find>>

UpdateDocument(c) ==
    /\ call[c].pc = "reindex"
    /\ index' = Reindexed(call[c].id, call[c].old, call[c].new)
    /\ Goto(c, "done")
    /\ lacking' = Mended(c)
    /\ UNCHANGED <<record, find, surplus>>

\* Delete: Get, then RemoveDocument, then the record; on error IndexDocument.
Delete(c, id) ==
    /\ record[id] # NoDoc
    /\ Begin(c, [op |-> "delete", pc |-> "remove", id |-> id, old |-> record[id], new |-> NoDoc])
    /\ surplus' = Noted(surplus, id, Updating(id))
    /\ UNCHANGED <<record, index, lacking>>

RemoveDocument(c) ==
    /\ call[c].pc = "remove"
    /\ index' = index \ Pairs(call[c].old, call[c].id)
    /\ Goto(c, "delete")
    /\ UNCHANGED <<record, find, past>>

DeleteRecord(c) ==
    /\ call[c].pc = "delete"
    /\ \E stored, ok \in BOOLEAN :
          /\ Put(call[c].id, NoDoc, stored, ok)
          /\ Goto(c, IF ok THEN "done" ELSE "restore")
    /\ UNCHANGED <<index, find, past>>

RestoreIndex(c) ==
    /\ call[c].pc = "restore"
    /\ index' = index \union Pairs(call[c].old, call[c].id)
    /\ Goto(c, "done")
    /\ UNCHANGED <<record, find, past>>

----------------------------------------------------------------------------
(* FindByField: Lookup, then a Get for each identifier in order.           *)

FindByField(q, e, offset, limit) ==
    /\ find[q].pc # "fetch"
    /\ find' = [find EXCEPT ![q] =
                   [NoFind EXCEPT !.pc     = IF Lookup(e) = {} THEN "done" ELSE "fetch",
                                  !.want   = e,
                                  !.offset = offset,
                                  !.limit  = limit,
                                  !.rest   = Lookup(e),
                                  !.during = {c \in Call : Active(c)}]]
    /\ UNCHANGED <<record, index, call, past>>

Fetch(q) ==
    /\ find[q].pc = "fetch"
    /\ \E id \in find[q].rest :
          /\ \A other \in find[q].rest : id <= other
          /\ find' = [find EXCEPT ![q] = IF record[id] = NoDoc
                                         THEN Missed(@, id)
                                         ELSE Got(@, id, record[id])]
    /\ UNCHANGED <<record, index, call, past>>

\* A Get that fails for another reason ends the query without results.
FindFails(q) ==
    /\ find[q].pc = "fetch"
    /\ find' = [find EXCEPT ![q] = NoFind]
    /\ UNCHANGED <<record, index, call, past>>

\* The process starts again: the records are replayed, the index is new and
\* empty, and nothing fills it.
Restart ==
    /\ index' = {}
    /\ call' = [c \in Call |-> IF Active(c) THEN [call[c] EXCEPT !.pc = "done"] ELSE call[c]]
    /\ find' = [q \in Query |-> NoFind]
    /\ lacking' = {id \in Id : record[id] # NoDoc}
    /\ surplus' = {}
    /\ UNCHANGED record

Next ==
    \/ \E c \in Call, id \in Id :
          (\E doc \in Doc : Create(c, id, doc) \/ Update(c, id, doc)) \/ Delete(c, id)
    \/ \E c \in Call : \/ IndexDocument(c) \/ UpdatePut(c) \/ UpdateDocument(c)
                       \/ RemoveDocument(c) \/ DeleteRecord(c) \/ RestoreIndex(c)
    \/ \E q \in Query, e \in Entry, offset \in 0..MaxPage, limit \in -1..MaxPage :
          FindByField(q, e, offset, limit)
    \/ \E q \in Query : Fetch(q) \/ FindFails(q)
    \/ Restart

Spec == Init /\ [][Next]_vars

----------------------------------------------------------------------------
(* Properties.                                                             *)

Page == Seq(Id \X Doc)

\* Records, index, writers and queries keep their types.
TypeOK ==
    /\ record \in [Id -> Doc \union {NoDoc}]
    /\ index \subseteq Entry \X Id
    /\ call \in [Call -> [op  : {"none", "create", "update", "delete"},
                          pc  : {"new", "index", "put", "reindex", "remove", "delete",
                                 "restore", "done"},
                          id  : Id \union {0},
                          old : Doc \union {NoDoc},
                          new : Doc \union {NoDoc}]]
    /\ find \in [Query -> [pc : {"idle", "fetch", "done"}, want : Entry \union {NoDoc},
                           offset : Nat, limit : Nat \union {-1}, rest : SUBSET Id,
                           matched : Nat, seen : Page, results : Page,
                           during : SUBSET Call]]
    /\ lacking \subseteq Id /\ surplus \subseteq Id

\* When no writer of a document is under way the index holds all pairs it has and
\* no other, however creates, updates, deletes and their failures came before.
\* Two kinds of history are excepted, for there the code does part the two.
\*  - A pair can be missing after a Put that stored and reported an error, after
\*    a create or update that came while an update was under way, and after a
\*    restart, until a create or update that ends alone has indexed what is stored.
\*  - A pair of another document can stay when CreateWithID overwrites one, when
\*    an update stored and reported an error, or when it ran beside any writer,
\*    until the process starts again.
Agrees ==
    \A id \in Id :
        record[id] # NoDoc /\ Under(id) = {} =>
            /\ id \notin lacking => record[id] \subseteq Indexed(id)
            /\ id \notin surplus => Indexed(id) \subseteq record[id]

\* FindByField reads documents after the Lookup and does not compare them again:
\* one without the pair asked for is what a create or update beside the query
\* stored, or a document the index held under a pair it does not have.
FindsOnly ==
    \A q \in Query : \A i \in 1..Len(find[q].seen) :
        LET id  == find[q].seen[i][1]
            doc == find[q].seen[i][2]
        IN  \/ find[q].want \in doc
            \/ id \in surplus
            \/ \E c \in find[q].during : call[c].id = id /\ call[c].new = doc

\* A query that ends before its limit has seen every document with the pair
\* asked for that no writer touched while it ran, whatever else it found gone,
\* but for those Agrees says a pair may be missing of.
FindsAll ==
    [][\A q \in Query :
          LET f == find'[q]
          IN  f # find[q] /\ f.pc = "done" /\ Len(f.results) # f.limit =>
                 \A id \in Id \ lacking :
                    \/ record[id] = NoDoc
                    \/ f.want \notin record[id]
                    \/ \E c \in f.during : call[c].id = id
                    \/ \E i \in 1..Len(f.seen) : f.seen[i] = <<id, record[id]>>]_vars

\* The results of FindByField are the slice of the documents still there that
\* offset and limit name; documents that are gone count for neither.
PageIsSlice ==
    \A q \in Query :
        LET f == find[q]
        IN  /\ \A i \in 1..Len(f.results) : f.results[i] = f.seen[f.offset + i]
            /\ f.limit >= 0 => Len(f.results) <= f.limit
            /\ \/ Len(f.results) = f.limit
               \/ Len(f.results) = Len(f.seen) - f.offset
               \/ f.results = <<>> /\ Len(f.seen) <= f.offset
=============================================================================
