--------------------------- MODULE DocumentsProofs ---------------------------
(***************************************************************************)
(* Theorems about Documents, for any number of documents, writers and      *)
(* queries.                                                                *)
(***************************************************************************)
EXTENDS Documents, SequenceTheorems, TLAPS

Calls == [op  : {"none", "create", "update", "delete"},
          pc  : {"new", "index", "put", "reindex", "remove", "delete", "restore", "done"},
          id  : Id \union {0},
          old : Doc \union {NoDoc},
          new : Doc \union {NoDoc}]

Finds == [pc : {"idle", "fetch", "done"}, want : Entry \union {NoDoc},
          offset : Nat, limit : Nat \union {-1}, rest : SUBSET Id,
          matched : Nat, seen : Page, results : Page,
          during : SUBSET Call]

----------------------------------------------------------------------------
(* Types.                                                                  *)

LEMMA EmptyPage == <<>> \in Page
  BY EmptySeq DEF Page

LEMMA NoFindType == NoFind \in Finds
  BY EmptyPage DEF NoFind, Finds

\* A page with one document more.
LEMMA Longer ==
  ASSUME NEW s \in Page, NEW id \in Id, NEW doc \in Doc
  PROVE  /\ Append(s, <<id, doc>>) \in Page
         /\ Len(Append(s, <<id, doc>>)) = Len(s) + 1
         /\ \A i \in 1..Len(s) : Append(s, <<id, doc>>)[i] = s[i]
         /\ Append(s, <<id, doc>>)[Len(s) + 1] = <<id, doc>>
<1>1. <<id, doc>> \in Id \X Doc
  OBVIOUS
<1>2. s \in Seq(Id \X Doc)
  BY DEF Page
<1> QED BY <1>1, <1>2, AppendProperties DEF Page

LEMMA MissedType ==
  ASSUME NEW f \in Finds, NEW id \in Id
  PROVE  Missed(f, id) \in Finds
BY DEF Missed, Finds

\* What a Get that succeeds makes of a query.
LEMMA GotType ==
  ASSUME NEW f \in Finds, NEW id \in Id, NEW doc \in Doc
  PROVE  Got(f, id, doc) \in Finds
<1>1. /\ Append(f.results, <<id, doc>>) \in Page
      /\ Append(f.seen, <<id, doc>>) \in Page
  BY Longer DEF Finds
<1>2. f.matched + 1 \in Nat /\ f.rest \ {id} \subseteq Id
  BY DEF Finds
<1> QED BY <1>1, <1>2 DEF Got, Finds

LEMMA BeginType ==
  ASSUME TypeOK, NEW c \in Call, NEW begun \in Calls, Begin(c, begun)
  PROVE  call' \in [Call -> Calls] /\ find' \in [Query -> Finds]
<1>1. call \in [Call -> Calls] /\ find \in [Query -> Finds]
  BY DEF TypeOK, Calls, Finds
<1>2. call' \in [Call -> Calls]
  BY <1>1 DEF Begin
<1>3. ASSUME NEW q \in Query
      PROVE  [find[q] EXCEPT !.during = @ \union {c}] \in Finds
  BY <1>1 DEF Finds
<1> QED BY <1>1, <1>2, <1>3 DEF Begin

LEMMA GotoType ==
  ASSUME TypeOK, NEW c \in Call, NEW pc, Goto(c, pc),
         pc \in {"index", "put", "reindex", "remove", "delete", "restore", "done"}
  PROVE  call' \in [Call -> Calls]
<1>1. call \in [Call -> Calls]
  BY DEF TypeOK, Calls
<1>2. [call[c] EXCEPT !.pc = pc] \in Calls
  BY <1>1 DEF Calls
<1> QED BY <1>1, <1>2 DEF Goto

LEMMA PutType ==
  ASSUME TypeOK, NEW id \in Id, NEW doc \in Doc \union {NoDoc},
         NEW stored \in BOOLEAN, NEW ok \in BOOLEAN, Put(id, doc, stored, ok)
  PROVE  record' \in [Id -> Doc \union {NoDoc}]
BY DEF TypeOK, Put

LEMMA PairsType ==
  ASSUME NEW doc \in Doc, NEW id \in Id
  PROVE  Pairs(doc, id) \subseteq Entry \X Id
<1>1. doc \subseteq Entry
  BY DocumentsAssumption
<1> QED BY <1>1 DEF Pairs

----------------------------------------------------------------------------
(* The steps a writer takes.                                               *)

\* A writer that is under way is at a step of its own operation and knows the
\* document it works on and those its steps name.
Working ==
    \A c \in Call : Active(c) =>
        /\ call[c].id \in Id
        /\ \/ call[c].op = "create" /\ call[c].pc = "index" /\ call[c].new \in Doc
           \/ /\ call[c].op = "update" /\ call[c].pc \in {"put", "reindex"}
              /\ call[c].old \in Doc /\ call[c].new \in Doc
           \/ /\ call[c].op = "delete" /\ call[c].pc \in {"remove", "delete", "restore"}
              /\ call[c].old \in Doc

TInv == TypeOK /\ Working

LEMMA InitTypes == Init => TInv
<1> SUFFICES ASSUME Init PROVE TInv
  OBVIOUS
<1>1. NoCall \in Calls
  BY DEF NoCall, Calls
<1>2. TypeOK
  BY <1>1, NoFindType DEF Init, TypeOK, Calls, Finds
<1>3. Working
  BY DEF Init, Working, Active, NoCall
<1> QED BY <1>2, <1>3 DEF TInv

LEMMA StepTypes == TInv /\ [Next]_vars => TInv'
<1> SUFFICES ASSUME TInv, [Next]_vars PROVE TInv'
  OBVIOUS
<1> USE DEF TInv
<1>t. /\ record \in [Id -> Doc \union {NoDoc}] /\ index \subseteq Entry \X Id
      /\ lacking \subseteq Id /\ surplus \subseteq Id
      /\ call \in [Call -> Calls] /\ find \in [Query -> Finds]
  BY DEF TypeOK, Calls, Finds
<1>s. ASSUME /\ record' \in [Id -> Doc \union {NoDoc}] /\ index' \subseteq Entry \X Id
             /\ lacking' \subseteq Id /\ surplus' \subseteq Id
             /\ call' \in [Call -> Calls] /\ find' \in [Query -> Finds]
      PROVE  TypeOK'
  BY <1>s DEF TypeOK, Calls, Finds
<1>1. ASSUME NEW c \in Call, NEW id \in Id, NEW doc \in Doc, Create(c, id, doc)
      PROVE  TInv'
  <2>1. PICK stored \in BOOLEAN, ok \in BOOLEAN :
          /\ Put(id, doc, stored, ok)
          /\ Begin(c, [op |-> "create", pc |-> IF ok THEN "index" ELSE "done",
                       id |-> id, old |-> NoDoc, new |-> doc])
    BY <1>1 DEF Create
  <2>2. [op |-> "create", pc |-> IF ok THEN "index" ELSE "done",
         id |-> id, old |-> NoDoc, new |-> doc] \in Calls
    BY DEF Calls
  <2>3. call' \in [Call -> Calls] /\ find' \in [Query -> Finds]
    BY <2>1, <2>2, BeginType
  <2>4. record' \in [Id -> Doc \union {NoDoc}]
    BY <2>1, PutType
  <2>5. TypeOK'
    BY <2>3, <2>4, <1>t, <1>s, <1>1 DEF Create, Noted
  <2>6. Working'
    BY <2>1, <1>t DEF Begin, Working, Active
  <2> QED BY <2>5, <2>6
<1>2. ASSUME NEW c \in Call, NEW id \in Id, NEW doc \in Doc, Update(c, id, doc)
      PROVE  TInv'
  <2> DEFINE begun == [op |-> "update", pc |-> "put", id |-> id, old |-> record[id], new |-> doc]
  <2>1. Begin(c, begun)
    BY <1>2 DEF Update
  <2>2. begun \in Calls /\ record[id] \in Doc
    BY <1>t, <1>2 DEF Calls, Update
  <2>3. call' \in [Call -> Calls] /\ find' \in [Query -> Finds]
    <3> HIDE DEF begun
    <3> QED BY <2>1, <2>2, BeginType
  <2>5. TypeOK'
    BY <2>3, <1>t, <1>s, <1>2 DEF Update, Noted
  <2>6. Working'
    BY <2>1, <2>2, <1>2, <1>t DEF Update, Begin, Working, Active
  <2> QED BY <2>5, <2>6
<1>3. ASSUME NEW c \in Call, NEW id \in Id, Delete(c, id)
      PROVE  TInv'
  <2> DEFINE begun == [op |-> "delete", pc |-> "remove", id |-> id, old |-> record[id], new |-> NoDoc]
  <2>1. Begin(c, begun)
    BY <1>3 DEF Delete
  <2>2. begun \in Calls /\ record[id] \in Doc
    BY <1>t, <1>3 DEF Calls, Delete
  <2>3. call' \in [Call -> Calls] /\ find' \in [Query -> Finds]
    <3> HIDE DEF begun
    <3> QED BY <2>1, <2>2, BeginType
  <2>5. TypeOK'
    BY <2>3, <1>t, <1>s, <1>3 DEF Delete, Noted
  <2>6. Working'
    BY <2>1, <2>2, <1>3, <1>t DEF Delete, Begin, Working, Active
  <2> QED BY <2>5, <2>6
<1>4. ASSUME NEW c \in Call, IndexDocument(c) \/ UpdateDocument(c) \/ RemoveDocument(c) \/ RestoreIndex(c)
      PROVE  TInv'
  <2>1. PICK pc : Goto(c, pc) /\ (pc = "done" \/ (pc = "delete" /\ call[c].pc = "remove"))
    BY <1>4 DEF IndexDocument, UpdateDocument, RemoveDocument, RestoreIndex
  <2>2. call' \in [Call -> Calls]
    BY <2>1, GotoType
  <2>3. /\ Active(c) /\ call[c].id \in Id
        /\ call[c].pc \in {"index", "reindex"} => call[c].new \in Doc
        /\ call[c].pc \in {"reindex", "remove", "restore"} => call[c].old \in Doc
    BY <1>4 DEF IndexDocument, UpdateDocument, RemoveDocument, RestoreIndex, Working, Active
  <2>4. index' \subseteq Entry \X Id
    BY <2>3, <1>4, <1>t, PairsType
    DEF IndexDocument, UpdateDocument, RemoveDocument, RestoreIndex, Reindexed
  <2>5. UNCHANGED <<record, find, surplus>> /\ lacking' \subseteq lacking
    BY <1>4 DEF IndexDocument, UpdateDocument, RemoveDocument, RestoreIndex, Mended, past
  <2>6. TypeOK'
    BY <2>2, <2>4, <2>5, <1>t, <1>s
  <2>7. \A d \in Call : Active(d)' =>
          /\ Active(d) /\ call'[d].id = call[d].id /\ call'[d].op = call[d].op
          /\ call'[d].old = call[d].old /\ call'[d].new = call[d].new
          /\ \/ call'[d].pc = call[d].pc
             \/ call[d].pc = "remove" /\ call'[d].pc = "delete"
    BY <2>1, <1>4, <1>t
    DEF IndexDocument, UpdateDocument, RemoveDocument, RestoreIndex, Goto, Active, Calls
  <2>8. Working'
    BY <2>3, <2>7 DEF Working
  <2> QED BY <2>6, <2>8
<1>5. ASSUME NEW c \in Call, UpdatePut(c) \/ DeleteRecord(c)
      PROVE  TInv'
  <2>1. PICK stored \in BOOLEAN, ok \in BOOLEAN,
             pc \in {"reindex", "done", "restore"}, doc \in Doc \union {NoDoc} :
          /\ Put(call[c].id, doc, stored, ok)
          /\ Goto(c, pc)
          /\ \/ call[c].pc = "put" /\ doc = call[c].new /\ pc \in {"reindex", "done"}
             \/ call[c].pc = "delete" /\ doc = NoDoc /\ pc \in {"done", "restore"}
    BY <1>5, <1>t DEF UpdatePut, DeleteRecord, Calls
  <2>2. call' \in [Call -> Calls]
    BY <2>1, GotoType
  <2>3. call[c].id \in Id
    BY <1>5, <1>t DEF UpdatePut, DeleteRecord, Calls, Working, Active
  <2>4. record' \in [Id -> Doc \union {NoDoc}]
    BY <2>1, <2>3, PutType
  <2>5. /\ UNCHANGED <<index, find>>
        /\ lacking' \subseteq lacking \union {call[c].id}
        /\ surplus' \subseteq surplus \union {call[c].id}
    BY <1>5 DEF UpdatePut, DeleteRecord, Noted, past
  <2>6. TypeOK'
    BY <2>1, <2>2, <2>3, <2>4, <2>5, <1>t, <1>s
  <2>7. \A d \in Call : Active(d)' =>
          /\ Active(d) /\ call'[d].id = call[d].id /\ call'[d].op = call[d].op
          /\ call'[d].old = call[d].old /\ call'[d].new = call[d].new
          /\ \/ call'[d].pc = call[d].pc
             \/ call[d].pc = "put" /\ call'[d].pc = "reindex"
             \/ call[d].pc = "delete" /\ call'[d].pc = "restore"
    BY <2>1, <1>t DEF Goto, Active, Calls
  <2>8. Working'
    BY <2>7 DEF Working
  <2> QED BY <2>6, <2>8
<1>6. ASSUME NEW q \in Query, NEW e \in Entry, NEW offset \in 0..MaxPage, NEW limit \in -1..MaxPage,
             FindByField(q, e, offset, limit)
      PROVE  TInv'
  <2>1. offset \in Nat /\ limit \in Nat \union {-1} /\ Lookup(e) \subseteq Id
    BY DocumentsAssumption DEF Lookup
  <2>2. [NoFind EXCEPT !.pc     = IF Lookup(e) = {} THEN "done" ELSE "fetch",
                       !.want   = e,
                       !.offset = offset,
                       !.limit  = limit,
                       !.rest   = Lookup(e),
                       !.during = {c \in Call : Active(c)}] \in Finds
    BY <2>1, EmptyPage DEF NoFind, Finds
  <2>3. find' \in [Query -> Finds]
    BY <2>2, <1>6, <1>t DEF FindByField
  <2>4. UNCHANGED <<record, index, call, past>>
    BY <1>6 DEF FindByField
  <2> QED BY <2>3, <2>4, <1>t, <1>s DEF Working, Active, past
<1>7. ASSUME NEW q \in Query, Fetch(q)
      PROVE  TInv'
  <2>1. PICK id \in find[q].rest :
          find' = [find EXCEPT ![q] = IF record[id] = NoDoc
                                      THEN Missed(find[q], id)
                                      ELSE Got(find[q], id, record[id])]
    BY <1>7 DEF Fetch
  <2>2. id \in Id /\ find[q] \in Finds /\ (record[id] # NoDoc => record[id] \in Doc)
    BY <1>t DEF Finds
  <2>3. find' \in [Query -> Finds]
    BY <2>1, <2>2, <1>t, MissedType, GotType
  <2>4. UNCHANGED <<record, index, call, past>>
    BY <1>7 DEF Fetch
  <2> QED BY <2>3, <2>4, <1>t, <1>s DEF Working, Active, past
<1>8. ASSUME NEW q \in Query, FindFails(q)
      PROVE  TInv'
  <2>1. find' \in [Query -> Finds]
    BY <1>8, <1>t, NoFindType DEF FindFails
  <2> QED BY <2>1, <1>8, <1>t, <1>s DEF FindFails, Working, Active, past
<1>9. CASE Restart
  <2>1. find' \in [Query -> Finds]
    BY <1>9, NoFindType DEF Restart
  <2>2. \A c \in Call : [call[c] EXCEPT !.pc = "done"] \in Calls
    BY <1>t DEF Calls
  <2>3. call' \in [Call -> Calls]
    BY <2>2, <1>9, <1>t DEF Restart
  <2>4. TypeOK'
    BY <2>1, <2>3, <1>9, <1>t, <1>s DEF Restart
  <2>5. \A c \in Call : ~Active(c)'
    BY <1>9, <1>t DEF Restart, Active, Calls
  <2>6. Working'
    BY <2>5, <1>9 DEF Restart, Working
  <2> QED BY <2>4, <2>6
<1>10. CASE UNCHANGED vars
  BY <1>10, <1>t, <1>s DEF vars, Working, Active
<1> QED
  BY <1>1, <1>2, <1>3, <1>4, <1>5, <1>6, <1>7, <1>8, <1>9, <1>10 DEF Next

\* Type correctness, for any number of documents, writers and queries.
THEOREM TypeCorrect == Spec => []TypeOK
<1>1. TInv => TypeOK
  BY DEF TInv
<1> QED BY <1>1, InitTypes, StepTypes, PTL DEF Spec

----------------------------------------------------------------------------
(* Records and index, as two halves that break in different ways: pairs    *)
(* that are missing, and pairs that are too many.                          *)

\* The writer c will still put the entry into the index.
Adds(c, e) ==
    \/ call[c].pc \in {"index", "reindex"} /\ e \in call[c].new
    \/ call[c].pc \in {"delete", "restore"} /\ e \in call[c].old

\* What the index misses of a document a writer under way will add, for nobody
\* stores another one while an update is about to take pairs out.
Whole(id) ==
    /\ \A c, d \in Under(id) : call[c].op = "update" /\ call[d].op = "update" => c = d
    /\ \A c \in Under(id) : call[c].pc = "reindex" => record[id] \in {call[c].new, NoDoc}
    /\ record[id] # NoDoc =>
          \A e \in record[id] \ Indexed(id) : \E c \in Under(id) : Adds(c, e)

\* The writers of a document, of which an update is alone, add pairs of what is
\* stored only, and what the index has too much an update is about to take out.
Pure(id) ==
    /\ \A c \in Under(id) :
          /\ call[c].op = "update"  => Under(id) = {c}
          /\ call[c].pc = "put"     => record[id] = call[c].old
          /\ call[c].pc = "reindex" => record[id] = call[c].new
          /\ call[c].pc = "index"   => record[id] \in {call[c].new, NoDoc}
          /\ call[c].op = "delete"  => record[id] \in {call[c].old, NoDoc}
    /\ record[id] # NoDoc =>
          \A e \in Indexed(id) \ record[id] :
              \E c \in Under(id) : call[c].pc = "reindex" /\ e \in call[c].old

SInv ==
    /\ TInv
    /\ \A id \in Id \ lacking : Whole(id)
    /\ \A id \in Id \ surplus : Pure(id)

\* A step changes nothing of a document.
Untouched(id) ==
    /\ record'[id] = record[id]
    /\ \A e \in Entry : <<e, id>> \in index' <=> <<e, id>> \in index
    /\ Under(id)' = Under(id)
    /\ \A c \in Under(id) : call'[c] = call[c]

LEMMA Frame ==
  ASSUME NEW id \in Id, Untouched(id)
  PROVE  (Whole(id) => Whole(id)') /\ (Pure(id) => Pure(id)')
<1>1. Indexed(id)' = Indexed(id)
  BY DEF Untouched, Indexed
<1>2. \A c \in Under(id) : \A e : Adds(c, e)' <=> Adds(c, e)
  BY DEF Untouched, Adds
<1>3. Whole(id) => Whole(id)'
  BY <1>1, <1>2 DEF Untouched, Whole
<1>4. Pure(id) => Pure(id)'
  BY <1>1 DEF Untouched, Pure
<1> QED BY <1>3, <1>4

\* A step on one document: only that one is left to show.
LEMMA Elsewhere ==
  ASSUME SInv, TInv', NEW id0 \in Id,
         \A id \in Id \ {id0} : Untouched(id),
         lacking \ {id0} \subseteq lacking', surplus \ {id0} \subseteq surplus',
         id0 \notin lacking' => Whole(id0)', id0 \notin surplus' => Pure(id0)'
  PROVE  SInv'
<1>1. ASSUME NEW id \in Id \ lacking' PROVE Whole(id)'
  <2>1. CASE id = id0
    BY <1>1, <2>1
  <2>2. CASE id # id0
    <3>1. Whole(id) /\ Untouched(id)
      BY <1>1, <2>2 DEF SInv
    <3> QED BY <3>1, Frame
  <2> QED BY <2>1, <2>2
<1>2. ASSUME NEW id \in Id \ surplus' PROVE Pure(id)'
  <2>1. CASE id = id0
    BY <1>2, <2>1
  <2>2. CASE id # id0
    <3>1. Pure(id) /\ Untouched(id)
      BY <1>2, <2>2 DEF SInv
    <3> QED BY <3>1, Frame
  <2> QED BY <2>1, <2>2
<1> QED BY <1>1, <1>2 DEF SInv

\* A call that begins is the only new one under way.
LEMMA BeginUnder ==
  ASSUME call \in [Call -> Calls], NEW c \in Call, NEW begun, Begin(c, begun)
  PROVE  /\ call'[c] = begun
         /\ \A d \in Call \ {c} : call'[d] = call[d]
         /\ \A id : c \notin Under(id)
         /\ \A id : Under(id)' = Under(id) \union
              (IF begun.id = id /\ begun.pc \notin {"new", "done"} THEN {c} ELSE {})
<1>1. call'[c] = begun /\ \A d \in Call \ {c} : call'[d] = call[d]
  BY DEF Begin
<1>2. \A id : c \notin Under(id)
  BY DEF Begin, Under, Active
<1>3. \A d \in Call : Active(d)' <=> IF d = c THEN begun.pc \notin {"new", "done"} ELSE Active(d)
  BY <1>1 DEF Active
<1> QED BY <1>1, <1>2, <1>3 DEF Under

\* A call that goes on stays as it is but for its step.
LEMMA GotoUnder ==
  ASSUME call \in [Call -> Calls], NEW c \in Call, NEW pc, Goto(c, pc), pc # "new",
         Active(c)
  PROVE  /\ call'[c] = [call[c] EXCEPT !.pc = pc]
         /\ call'[c].pc = pc /\ call'[c].id = call[c].id /\ call'[c].op = call[c].op
         /\ call'[c].old = call[c].old /\ call'[c].new = call[c].new
         /\ \A d \in Call \ {c} : call'[d] = call[d]
         /\ \A id : id # call[c].id => c \notin Under(id) /\ Under(id)' = Under(id)
         /\ c \in Under(call[c].id)
         /\ Under(call[c].id)' = IF pc = "done" THEN Under(call[c].id) \ {c}
                                 ELSE Under(call[c].id)
<1>1. call'[c] = [call[c] EXCEPT !.pc = pc] /\ \A d \in Call \ {c} : call'[d] = call[d]
  BY DEF Goto
<1>2. /\ call'[c].pc = pc /\ call'[c].id = call[c].id /\ call'[c].op = call[c].op
      /\ call'[c].old = call[c].old /\ call'[c].new = call[c].new
  BY <1>1 DEF Calls
<1>3. \A d \in Call : Active(d)' <=> IF d = c THEN pc # "done" ELSE Active(d)
  BY <1>1, <1>2 DEF Active
<1>4. \A d \in Call : call'[d].id = call[d].id
  BY <1>1, <1>2
<1> QED BY <1>1, <1>2, <1>3, <1>4 DEF Under

\* Which steps go with which operation.
LEMMA Steps ==
  ASSUME TInv, NEW id, NEW c \in Under(id)
  PROVE  /\ c \in Call /\ Active(c) /\ call[c].id = id /\ id \in Id
         /\ call[c].pc \in {"put", "reindex"} <=> call[c].op = "update"
         /\ call[c].pc = "index" <=> call[c].op = "create"
         /\ call[c].pc \in {"remove", "delete", "restore"} <=> call[c].op = "delete"
         /\ call[c].op \in {"create", "update"} => call[c].new \in Doc /\ call[c].new # NoDoc
         /\ call[c].op \in {"delete", "update"} => call[c].old \in Doc /\ call[c].old # NoDoc
BY DocumentsAssumption DEF TInv, Working, Under

LEMMA CreateSteady ==
  ASSUME SInv, TInv', NEW c \in Call, NEW id0 \in Id, NEW doc \in Doc, Create(c, id0, doc)
  PROVE  SInv'
<1>t. /\ TInv /\ call \in [Call -> Calls] /\ record \in [Id -> Doc \union {NoDoc}]
      /\ NoDoc \notin Doc
  BY DocumentsAssumption DEF SInv, TInv, TypeOK, Calls
<1>1. PICK stored \in BOOLEAN, ok \in BOOLEAN :
        /\ Put(id0, doc, stored, ok)
        /\ Begin(c, [op |-> "create", pc |-> IF ok THEN "index" ELSE "done",
                     id |-> id0, old |-> NoDoc, new |-> doc])
        /\ lacking' = Noted(lacking, id0, stored /\ (~ok \/ Updating(id0)))
        /\ surplus' = Noted(surplus, id0, stored /\ ~Blank(id0))
  BY DEF Create
<1> DEFINE begun == [op |-> "create", pc |-> IF ok THEN "index" ELSE "done",
                     id |-> id0, old |-> NoDoc, new |-> doc]
<1>2. /\ begun.id = id0 /\ begun.op = "create" /\ begun.new = doc
      /\ begun.pc = (IF ok THEN "index" ELSE "done")
  OBVIOUS
<1> HIDE DEF begun
<1>3. /\ call'[c] = begun
      /\ \A d \in Call \ {c} : call'[d] = call[d]
      /\ \A id : c \notin Under(id)
      /\ \A id : Under(id)' = Under(id) \union
           (IF begun.id = id /\ begun.pc \notin {"new", "done"} THEN {c} ELSE {})
  <2>1. Begin(c, begun)
    BY <1>1 DEF begun
  <2> QED BY <2>1, <1>t, BeginUnder
<1>4. index' = index /\ \A id : Indexed(id)' = Indexed(id)
  BY DEF Create, Indexed
<1>5. \A id \in Id : \A d \in Under(id) : d # c /\ call'[d] = call[d]
  BY <1>3 DEF Under
<1>6. /\ Under(id0)' = Under(id0) \union (IF ok THEN {c} ELSE {})
      /\ \A id : id # id0 => Under(id)' = Under(id)
  BY <1>2, <1>3
<1>7. \A id \in Id \ {id0} : Untouched(id)
  BY <1>1, <1>4, <1>5, <1>6, <1>t DEF Put, Untouched
<1>8. lacking \subseteq lacking' /\ surplus \subseteq surplus'
  BY <1>1 DEF Noted
<1>9. CASE ~stored
  <2>1. Untouched(id0) /\ lacking' = lacking /\ surplus' = surplus
    BY <1>1, <1>4, <1>5, <1>6, <1>9, <1>t DEF Put, Untouched, Noted
  <2>2. (id0 \notin lacking => Whole(id0)) /\ (id0 \notin surplus => Pure(id0))
    BY DEF SInv
  <2>3. (id0 \notin lacking' => Whole(id0)') /\ (id0 \notin surplus' => Pure(id0)')
    BY <2>1, <2>2, Frame
  <2> QED BY <1>7, <1>8, <2>3, Elsewhere
<1>10. CASE stored
  <2>1. record'[id0] = doc
    BY <1>1, <1>10, <1>t DEF Put
  <2>2. ASSUME id0 \notin lacking' PROVE Whole(id0)'
    <3>1. ok /\ ~Updating(id0)
      BY <1>1, <1>10, <2>2 DEF Noted
    <3>2. \A d \in Under(id0)' : call'[d].op # "update"
      BY <1>2, <1>3, <1>5, <1>6, <3>1 DEF Updating
    <3>3. \A d \in Under(id0)' : call'[d].pc # "reindex"
      <4>1. \A d \in Under(id0) : call[d].pc # "reindex"
        BY <3>1, <1>t, Steps DEF Updating
      <4> QED BY <4>1, <1>2, <1>3, <1>5, <1>6, <3>1
    <3>4. c \in Under(id0)' /\ call'[c].pc = "index" /\ call'[c].new = doc
      BY <1>2, <1>3, <1>6, <3>1
    <3> QED BY <2>1, <3>2, <3>3, <3>4 DEF Whole, Adds
  <2>3. ASSUME id0 \notin surplus' PROVE Pure(id0)'
    <3>1. Under(id0) = {} /\ Indexed(id0) = {}
      BY <1>1, <1>10, <2>3 DEF Noted, Blank
    <3>2. \A d \in Under(id0)' : d = c /\ call'[d].op = "create" /\ call'[d].new = doc
                                 /\ call'[d].pc = "index"
      BY <1>2, <1>3, <1>6, <3>1
    <3> QED BY <1>4, <2>1, <3>1, <3>2 DEF Pure
  <2> QED BY <1>7, <1>8, <2>2, <2>3, Elsewhere
<1> QED BY <1>9, <1>10

\* An update or a delete that begins changes neither record nor index.
LEMMA UpdateSteady ==
  ASSUME SInv, TInv', NEW c \in Call, NEW id0 \in Id, NEW doc \in Doc, Update(c, id0, doc)
  PROVE  SInv'
<1>t. /\ TInv /\ call \in [Call -> Calls] /\ record \in [Id -> Doc \union {NoDoc}]
  BY DEF SInv, TInv, TypeOK, Calls
<1> DEFINE begun == [op |-> "update", pc |-> "put", id |-> id0, old |-> record[id0], new |-> doc]
<1>1. begun.id = id0 /\ begun.op = "update" /\ begun.pc = "put" /\ begun.old = record[id0]
  OBVIOUS
<1>2. /\ Begin(c, begun) /\ UNCHANGED <<record, index>> /\ record[id0] # NoDoc
      /\ lacking' = Noted(lacking, id0, Updating(id0))
      /\ surplus' = Noted(surplus, id0, Under(id0) # {})
  BY DEF Update
<1> HIDE DEF begun
<1>3. /\ call'[c] = begun
      /\ \A d \in Call \ {c} : call'[d] = call[d]
      /\ \A id : c \notin Under(id)
      /\ \A id : Under(id)' = Under(id) \union
           (IF begun.id = id /\ begun.pc \notin {"new", "done"} THEN {c} ELSE {})
  BY <1>2, <1>t, BeginUnder
<1>4. /\ \A id : Indexed(id)' = Indexed(id)
      /\ \A id \in Id : \A d \in Under(id) : d # c /\ call'[d] = call[d]
      /\ Under(id0)' = Under(id0) \union {c}
      /\ \A id : id # id0 => Under(id)' = Under(id)
  BY <1>1, <1>2, <1>3 DEF Indexed, Under
<1>5. \A id \in Id \ {id0} : Untouched(id)
  BY <1>2, <1>4 DEF Untouched
<1>6. ASSUME id0 \notin lacking' PROVE Whole(id0)'
  <2>1. ~Updating(id0) /\ Whole(id0)
    BY <1>2, <1>6 DEF Noted, SInv
  <2>2. \A d \in Under(id0) : call[d].op # "update"
    BY <2>1 DEF Updating
  <2>3. \A d \in Under(id0) : call[d].pc # "reindex"
    BY <2>2, <1>t, Steps
  <2>4. \A d \in Under(id0) : \A e : Adds(d, e) => Adds(d, e)'
    BY <1>4 DEF Adds
  <2> QED BY <1>1, <1>2, <1>3, <1>4, <2>1, <2>2, <2>3, <2>4 DEF Whole
<1>7. ASSUME id0 \notin surplus' PROVE Pure(id0)'
  <2>1. Under(id0) = {} /\ Pure(id0)
    BY <1>2, <1>7 DEF Noted, SInv
  <2>2. Indexed(id0) \subseteq record[id0]
    BY <2>1, <1>2 DEF Pure
  <2> QED BY <1>1, <1>2, <1>3, <1>4, <2>1, <2>2 DEF Pure
<1>8. lacking \ {id0} \subseteq lacking' /\ surplus \ {id0} \subseteq surplus'
  BY <1>2 DEF Noted
<1> QED BY <1>5, <1>6, <1>7, <1>8, Elsewhere

LEMMA DeleteSteady ==
  ASSUME SInv, TInv', NEW c \in Call, NEW id0 \in Id, Delete(c, id0)
  PROVE  SInv'
<1>t. /\ TInv /\ call \in [Call -> Calls] /\ record \in [Id -> Doc \union {NoDoc}]
  BY DEF SInv, TInv, TypeOK, Calls
<1> DEFINE begun == [op |-> "delete", pc |-> "remove", id |-> id0, old |-> record[id0], new |-> NoDoc]
<1>1. begun.id = id0 /\ begun.op = "delete" /\ begun.pc = "remove" /\ begun.old = record[id0]
  OBVIOUS
<1>2. /\ Begin(c, begun) /\ UNCHANGED <<record, index>> /\ record[id0] # NoDoc
      /\ lacking' = lacking /\ surplus' = Noted(surplus, id0, Updating(id0))
  BY DEF Delete
<1> HIDE DEF begun
<1>3. /\ call'[c] = begun
      /\ \A d \in Call \ {c} : call'[d] = call[d]
      /\ \A id : c \notin Under(id)
      /\ \A id : Under(id)' = Under(id) \union
           (IF begun.id = id /\ begun.pc \notin {"new", "done"} THEN {c} ELSE {})
  BY <1>2, <1>t, BeginUnder
<1>4. /\ \A id : Indexed(id)' = Indexed(id)
      /\ \A id \in Id : \A d \in Under(id) : d # c /\ call'[d] = call[d]
      /\ Under(id0)' = Under(id0) \union {c}
      /\ \A id : id # id0 => Under(id)' = Under(id)
  BY <1>1, <1>2, <1>3 DEF Indexed, Under
<1>5. \A id \in Id \ {id0} : Untouched(id)
  BY <1>2, <1>4 DEF Untouched
<1>6. ASSUME id0 \notin lacking' PROVE Whole(id0)'
  <2>1. Whole(id0)
    BY <1>2, <1>6 DEF SInv
  <2>2. \A d \in Under(id0) : \A e : Adds(d, e) => Adds(d, e)'
    BY <1>4 DEF Adds
  <2> QED BY <1>1, <1>2, <1>3, <1>4, <2>1, <2>2 DEF Whole
<1>7. ASSUME id0 \notin surplus' PROVE Pure(id0)'
  <2>1. ~Updating(id0) /\ Pure(id0)
    BY <1>2, <1>7 DEF Noted, SInv
  <2>2. \A d \in Under(id0) : call[d].op # "update" /\ call[d].pc \notin {"put", "reindex"}
    <3>1. \A d \in Under(id0) : call[d].op # "update"
      BY <2>1 DEF Updating
    <3> QED BY <3>1, <1>t, Steps
  <2>3. Indexed(id0) \subseteq record[id0]
    BY <2>1, <2>2, <1>2 DEF Pure
  <2>4. \A d \in Under(id0) :
           /\ call'[d].op # "update" /\ call'[d].pc \notin {"put", "reindex"}
           /\ call'[d].pc = "index"  => record[id0] \in {call'[d].new, NoDoc}
           /\ call'[d].op = "delete" => record[id0] \in {call'[d].old, NoDoc}
    BY <1>4, <2>1, <2>2 DEF Pure
  <2> QED BY <1>1, <1>2, <1>3, <1>4, <2>3, <2>4 DEF Pure
<1>8. lacking \ {id0} \subseteq lacking' /\ surplus \ {id0} \subseteq surplus'
  BY <1>2 DEF Noted
<1> QED BY <1>5, <1>6, <1>7, <1>8, Elsewhere

\* A writer's step that changes the index, not the record.
LEMMA IndexSteady ==
  ASSUME SInv, TInv', NEW c \in Call,
         IndexDocument(c) \/ UpdateDocument(c) \/ RemoveDocument(c) \/ RestoreIndex(c)
  PROVE  SInv'
<1>0. PICK id0 \in Id : id0 = call[c].id
  BY DEF SInv, TInv, Working, Active, IndexDocument, UpdateDocument, RemoveDocument, RestoreIndex
<1> DEFINE U == Under(id0)
<1>t. /\ TInv /\ call \in [Call -> Calls] /\ Active(c) /\ id0 \in Id /\ c \in U
      /\ record[id0] \in Doc \union {NoDoc}
  BY <1>0 DEF SInv, TInv, TypeOK, Calls, IndexDocument, UpdateDocument, RemoveDocument, RestoreIndex,
         Active, Working, Under
<1>1. PICK pc \in {"done", "delete"} : Goto(c, pc) /\ (pc = "delete" <=> call[c].pc = "remove")
  BY DEF IndexDocument, UpdateDocument, RemoveDocument, RestoreIndex
<1>2. /\ call'[c].pc = pc /\ call'[c].id = call[c].id /\ call'[c].op = call[c].op
      /\ call'[c].old = call[c].old /\ call'[c].new = call[c].new
      /\ \A d \in Call \ {c} : call'[d] = call[d]
      /\ \A id : id # id0 => c \notin Under(id) /\ Under(id)' = Under(id)
      /\ Under(id0)' = IF pc = "done" THEN U \ {c} ELSE U
  BY <1>0, <1>1, <1>t, GotoUnder
<1>3. /\ record' = record /\ surplus' = surplus /\ lacking \ {id0} \subseteq lacking'
      /\ call[c].pc \notin {"index", "reindex"} => lacking' = lacking
  BY <1>0 DEF IndexDocument, UpdateDocument, RemoveDocument, RestoreIndex, past, Mended
<1>4. \A d \in U \ {c} :
        /\ call'[d] = call[d]
        /\ \A e : Adds(d, e)' <=> Adds(d, e)
  BY <1>2 DEF Under, Adds
<1>5. /\ call[c].pc = "index"   => /\ Indexed(id0)' = Indexed(id0) \union call[c].new
                                   /\ call[c].op = "create" /\ call[c].new \in Doc
      /\ call[c].pc = "reindex" => /\ Indexed(id0)' = (Indexed(id0) \ call[c].old) \union call[c].new
                                   /\ call[c].op = "update" /\ call[c].new \in Doc
      /\ call[c].pc = "remove"  => /\ Indexed(id0)' = Indexed(id0) \ call[c].old
                                   /\ call[c].op = "delete"
      /\ call[c].pc = "restore" => /\ Indexed(id0)' = Indexed(id0) \union call[c].old
                                   /\ call[c].op = "delete"
      /\ call[c].pc \in {"index", "reindex", "remove", "restore"}
      /\ \A id \in Id \ {id0}, e \in Entry : <<e, id>> \in index' <=> <<e, id>> \in index
  <2>1. /\ call[c].pc \in {"index", "reindex"} => call[c].new \in Doc
        /\ call[c].pc \in {"reindex", "remove", "restore"} => call[c].old \in Doc
        /\ call[c].pc = "index" => call[c].op = "create"
        /\ call[c].pc = "reindex" => call[c].op = "update"
        /\ call[c].pc \in {"remove", "restore"} => call[c].op = "delete"
    BY <1>t, Steps
  <2>2. \A doc \in Doc : doc \subseteq Entry
    BY DocumentsAssumption
  <2> QED BY <1>0, <2>1, <2>2 DEF IndexDocument, UpdateDocument, RemoveDocument, RestoreIndex, Reindexed,
                            Indexed, Pairs
<1>6. \A id \in Id \ {id0} : Untouched(id)
  <2> SUFFICES ASSUME NEW id \in Id \ {id0} PROVE Untouched(id)
    OBVIOUS
  <2>1. \A d \in Under(id) : call'[d] = call[d]
    BY <1>2 DEF Under
  <2> QED BY <2>1, <1>2, <1>3, <1>5 DEF Untouched
<1>7. ASSUME id0 \notin lacking' PROVE Whole(id0)'
  <2>1. CASE id0 \in lacking
    <3>1. Under(id0) = {c} /\ record[id0] = call[c].new /\ call[c].pc \in {"index", "reindex"}
      BY <1>0, <1>3, <1>5, <1>7, <2>1
         DEF Mended, IndexDocument, UpdateDocument, RemoveDocument, RestoreIndex, past
    <3>2. Under(id0)' = {} /\ record'[id0] \subseteq Indexed(id0)'
      BY <1>1, <1>2, <1>3, <1>5, <3>1
    <3> QED BY <3>2 DEF Whole
  <2>2. CASE id0 \notin lacking
    <3> DEFINE R == record[id0]
    <3>1. /\ \A d, d2 \in U : call[d].op = "update" /\ call[d2].op = "update" => d = d2
          /\ \A d \in U : call[d].pc = "reindex" => R \in {call[d].new, NoDoc}
          /\ R # NoDoc => \A e \in R \ Indexed(id0) : \E d \in U : Adds(d, e)
      BY <1>t, <2>2 DEF SInv, Whole
    <3>2. \A d \in Under(id0)' : d \in U /\ call'[d].op = call[d].op
                                 /\ (call'[d].pc = "reindex" => d # c /\ call'[d] = call[d])
      BY <1>2, <1>4
    <3>3. ASSUME R # NoDoc, NEW e \in R \ Indexed(id0)'
          PROVE  \E d \in Under(id0)' : Adds(d, e)'
      <4>1. ASSUME e \notin Indexed(id0) PROVE \E d \in U : d # c /\ Adds(d, e)
        <5>1. PICK d \in U : Adds(d, e)
          BY <3>1, <3>3, <4>1
        <5>2. d # c
          BY <1>5, <3>3, <5>1 DEF Adds
        <5> QED BY <5>1, <5>2
      <4>2. CASE e \in Indexed(id0)
        <5>1. CASE call[c].pc = "remove"
          <6>1. e \in call[c].old /\ c \in Under(id0)' /\ call'[c].pc = "delete"
            BY <1>1, <1>2, <1>5, <1>t, <3>3, <4>2, <5>1
          <6> QED BY <6>1, <1>2 DEF Adds
        <5>2. CASE call[c].pc = "reindex"
          <6>1. R = call[c].new
            BY <1>t, <3>1, <3>3, <5>2
          <6> QED BY <6>1, <1>5, <3>3, <5>2
        <5> QED BY <1>5, <3>3, <4>2, <5>1, <5>2
      <4>3. CASE e \notin Indexed(id0)
        BY <4>1, <4>3, <1>2, <1>4
      <4> QED BY <4>2, <4>3
    <3> QED BY <1>3, <3>1, <3>2, <3>3 DEF Whole
  <2> QED BY <2>1, <2>2
<1>8. ASSUME id0 \notin surplus' PROVE Pure(id0)'
  <2> DEFINE R == record[id0]
  <2>1. /\ \A d \in U :
             /\ call[d].op = "update"  => U = {d}
             /\ call[d].pc = "put"     => R = call[d].old
             /\ call[d].pc = "reindex" => R = call[d].new
             /\ call[d].pc = "index"   => R \in {call[d].new, NoDoc}
             /\ call[d].op = "delete"  => R \in {call[d].old, NoDoc}
        /\ R # NoDoc => \A e \in Indexed(id0) \ R :
                           \E d \in U : call[d].pc = "reindex" /\ e \in call[d].old
    BY <1>t, <1>3, <1>8 DEF SInv, Pure
  <2>2. ASSUME NEW d \in Under(id0)'
        PROVE  /\ call'[d].op = "update"  => Under(id0)' = {d}
               /\ call'[d].pc = "put"     => R = call'[d].old
               /\ call'[d].pc = "reindex" => R = call'[d].new
               /\ call'[d].pc = "index"   => R \in {call'[d].new, NoDoc}
               /\ call'[d].op = "delete"  => R \in {call'[d].old, NoDoc}
    <3>1. d \in U /\ Under(id0)' \subseteq U
      BY <1>2
    <3>2. CASE d = c
      BY <1>1, <1>2, <1>5, <2>1, <3>1, <3>2
    <3>3. CASE d # c
      <4>1. call'[d] = call[d] /\ call[d].op # "update"
        BY <1>4, <1>t, <2>1, <3>1, <3>3
      <4> QED BY <4>1, <2>1, <3>1
    <3> QED BY <3>2, <3>3
  <2>3. ASSUME R # NoDoc, NEW e \in Indexed(id0)', e \notin R
        PROVE  \E d \in Under(id0)' : call'[d].pc = "reindex" /\ e \in call'[d].old
    <3>1. e \in Indexed(id0) /\ (call[c].pc = "reindex" => e \notin call[c].old)
      BY <1>5, <1>t, <2>1, <2>3
    <3>2. PICK d \in U : call[d].pc = "reindex" /\ e \in call[d].old
      BY <2>1, <2>3, <3>1
    <3>3. d # c
      BY <3>1, <3>2
    <3> QED BY <3>2, <3>3, <1>2, <1>4
  <2> QED BY <1>3, <2>2, <2>3 DEF Pure
<1>9. surplus \ {id0} \subseteq surplus'
  BY <1>3
<1> HIDE DEF U
<1> QED BY <1>3, <1>6, <1>7, <1>8, <1>9, <1>t, Elsewhere

LEMMA UpdatePutSteady ==
  ASSUME SInv, TInv', NEW c \in Call, UpdatePut(c)
  PROVE  SInv'
<1>0. PICK id0 \in Id : id0 = call[c].id
  BY DEF SInv, TInv, Working, Active, UpdatePut
<1> DEFINE U == Under(id0)
<1>t. /\ TInv /\ call \in [Call -> Calls] /\ record \in [Id -> Doc \union {NoDoc}]
      /\ Active(c) /\ id0 \in Id /\ c \in U
      /\ call[c].pc = "put" /\ call[c].op = "update" /\ call[c].new \in Doc
  BY <1>0 DEF SInv, TInv, TypeOK, Calls, UpdatePut, Active, Working, Under
<1>1. PICK stored \in BOOLEAN, ok \in BOOLEAN :
        /\ Put(id0, call[c].new, stored, ok)
        /\ Goto(c, IF ok THEN "reindex" ELSE "done")
        /\ lacking' = Noted(lacking, id0, stored /\ ~ok)
        /\ surplus' = Noted(surplus, id0, stored /\ ~ok)
  BY <1>0 DEF UpdatePut
<1> DEFINE pc == IF ok THEN "reindex" ELSE "done"
<1>2. /\ call'[c].pc = pc /\ call'[c].id = call[c].id /\ call'[c].op = call[c].op
      /\ call'[c].old = call[c].old /\ call'[c].new = call[c].new
      /\ \A d \in Call \ {c} : call'[d] = call[d]
      /\ \A id : id # id0 => c \notin Under(id) /\ Under(id)' = Under(id)
      /\ Under(id0)' = IF pc = "done" THEN U \ {c} ELSE U
  BY <1>0, <1>1, <1>t, GotoUnder
<1>3. index' = index /\ (\A id : Indexed(id)' = Indexed(id))
  BY DEF UpdatePut, Indexed
<1>4. \A d \in U \ {c} : call'[d] = call[d] /\ \A e : Adds(d, e)' <=> Adds(d, e)
  BY <1>2 DEF Under, Adds
<1>5. \A id \in Id \ {id0} : Untouched(id)
  <2> SUFFICES ASSUME NEW id \in Id \ {id0} PROVE Untouched(id)
    OBVIOUS
  <2>1. \A d \in Under(id) : call'[d] = call[d]
    BY <1>2 DEF Under
  <2> QED BY <2>1, <1>1, <1>2, <1>3, <1>t DEF Untouched, Put
<1>6. /\ stored => record'[id0] = call[c].new
      /\ ~stored => record'[id0] = record[id0] /\ ~ok
  BY <1>1, <1>t DEF Put
<1>7. ASSUME id0 \notin lacking' PROVE Whole(id0)'
  <2>1. /\ \A d, d2 \in U : call[d].op = "update" /\ call[d2].op = "update" => d = d2
        /\ record[id0] # NoDoc =>
              \A e \in record[id0] \ Indexed(id0) : \E d \in U : Adds(d, e)
    BY <1>1, <1>7, <1>t DEF SInv, Whole, Noted
  <2>2. \A d \in Under(id0)' : d \in U /\ call'[d].op = call[d].op
    BY <1>2, <1>4
  <2>3. \A d \in U \ {c} : call[d].pc # "reindex"
    BY <1>t, <2>1, Steps
  <2>4. CASE ok
    <3>1. Under(id0)' = U /\ record'[id0] = call[c].new
      BY <1>2, <1>6, <2>4
    <3>2. \A e \in record'[id0] : Adds(c, e)'
      BY <1>2, <2>4, <3>1 DEF Adds
    <3> QED BY <1>2, <1>4, <1>t, <2>1, <2>2, <2>3, <2>4, <3>1, <3>2 DEF Whole
  <2>5. CASE ~ok
    <3>1. ~stored /\ Under(id0)' = U \ {c} /\ record'[id0] = record[id0]
      BY <1>1, <1>2, <1>6, <1>7, <2>5 DEF Noted
    <3>2. \A e : ~Adds(c, e)
      BY <1>t DEF Adds
    <3> QED BY <1>3, <1>4, <2>1, <2>2, <2>3, <3>1, <3>2 DEF Whole
  <2> QED BY <2>4, <2>5
<1>8. ASSUME id0 \notin surplus' PROVE Pure(id0)'
  <2>1. U = {c} /\ record[id0] = call[c].old /\ Indexed(id0) \subseteq call[c].old
    <3>1. Pure(id0)
      BY <1>1, <1>8, <1>t DEF SInv, Noted
    <3>2. call[c].old # NoDoc
      BY <1>t, Steps
    <3> QED BY <1>t, <3>1, <3>2 DEF Pure
  <2>2. CASE ok
    <3>1. Under(id0)' = {c} /\ record'[id0] = call[c].new
      BY <1>2, <1>6, <2>1, <2>2
    <3> QED BY <1>2, <1>3, <1>t, <2>1, <2>2, <3>1 DEF Pure
  <2>3. CASE ~ok
    <3>1. ~stored /\ Under(id0)' = {} /\ record'[id0] = record[id0]
      BY <1>1, <1>2, <1>6, <1>8, <2>1, <2>3 DEF Noted
    <3> QED BY <1>3, <2>1, <3>1 DEF Pure
  <2> QED BY <2>2, <2>3
<1>9. lacking \ {id0} \subseteq lacking' /\ surplus \ {id0} \subseteq surplus'
  BY <1>1 DEF Noted
<1> HIDE DEF U
<1> QED BY <1>5, <1>7, <1>8, <1>9, <1>t, Elsewhere

LEMMA DeleteRecordSteady ==
  ASSUME SInv, TInv', NEW c \in Call, DeleteRecord(c)
  PROVE  SInv'
<1>0. PICK id0 \in Id : id0 = call[c].id
  BY DEF SInv, TInv, Working, Active, DeleteRecord
<1> DEFINE U == Under(id0)
<1>t. /\ TInv /\ call \in [Call -> Calls] /\ record \in [Id -> Doc \union {NoDoc}]
      /\ Active(c) /\ id0 \in Id /\ c \in U
      /\ call[c].pc = "delete" /\ call[c].op = "delete"
  BY <1>0 DEF SInv, TInv, TypeOK, Calls, DeleteRecord, Active, Working, Under
<1>1. PICK stored \in BOOLEAN, ok \in BOOLEAN :
        Put(id0, NoDoc, stored, ok) /\ Goto(c, IF ok THEN "done" ELSE "restore")
  BY <1>0 DEF DeleteRecord
<1> DEFINE pc == IF ok THEN "done" ELSE "restore"
<1>2. /\ call'[c].pc = pc /\ call'[c].id = call[c].id /\ call'[c].op = call[c].op
      /\ call'[c].old = call[c].old /\ call'[c].new = call[c].new
      /\ \A d \in Call \ {c} : call'[d] = call[d]
      /\ \A id : id # id0 => c \notin Under(id) /\ Under(id)' = Under(id)
      /\ Under(id0)' = IF pc = "done" THEN U \ {c} ELSE U
  BY <1>0, <1>1, <1>t, GotoUnder
<1>3. /\ index' = index /\ lacking' = lacking /\ surplus' = surplus
      /\ \A id : Indexed(id)' = Indexed(id)
  BY DEF DeleteRecord, Indexed, past
<1>4. \A d \in U \ {c} : call'[d] = call[d] /\ \A e : Adds(d, e)' <=> Adds(d, e)
  BY <1>2 DEF Under, Adds
<1>5. \A id \in Id \ {id0} : Untouched(id)
  <2> SUFFICES ASSUME NEW id \in Id \ {id0} PROVE Untouched(id)
    OBVIOUS
  <2>1. \A d \in Under(id) : call'[d] = call[d]
    BY <1>2 DEF Under
  <2> QED BY <2>1, <1>1, <1>2, <1>3, <1>t DEF Untouched, Put
<1>6. \/ record'[id0] = NoDoc
      \/ record'[id0] = record[id0] /\ ~ok /\ Under(id0)' = U
  BY <1>1, <1>2, <1>t DEF Put
<1>7. ASSUME id0 \notin lacking' PROVE Whole(id0)'
  <2>1. Whole(id0)
    BY <1>3, <1>7, <1>t DEF SInv
  <2>2. \A d \in Under(id0)' : d \in U /\ call'[d].op = call[d].op
                               /\ (call'[d].pc = "reindex" => d # c /\ call'[d] = call[d])
    BY <1>2, <1>4
  <2>3. ~ok => \A e : Adds(c, e) => Adds(c, e)'
    BY <1>2, <1>t DEF Adds
  <2>4. record'[id0] \in {record[id0], NoDoc}
    BY <1>6
  <2>5. record'[id0] # NoDoc =>
           \A e \in record'[id0] \ Indexed(id0)' : \E d \in Under(id0)' : Adds(d, e)'
    BY <1>3, <1>4, <1>6, <2>1, <2>3 DEF Whole
  <2>6. \A d \in Under(id0)' : call'[d].pc = "reindex" => record'[id0] \in {call'[d].new, NoDoc}
    BY <2>1, <2>2, <2>4 DEF Whole
  <2> QED BY <2>1, <2>2, <2>5, <2>6 DEF Whole
<1>8. ASSUME id0 \notin surplus' PROVE Pure(id0)'
  <2>1. Pure(id0)
    BY <1>3, <1>8, <1>t DEF SInv
  <2>2. \A d \in U : call[d].op # "update" /\ call[d].pc \notin {"put", "reindex"}
    <3>1. \A d \in U : call[d].op # "update"
      BY <1>t, <2>1 DEF Pure
    <3> QED BY <3>1, <1>t, Steps
  <2>3. \A d \in Under(id0)' :
           /\ d \in U /\ call'[d].op = call[d].op /\ call'[d].pc \notin {"put", "reindex"}
           /\ call'[d].old = call[d].old /\ call'[d].new = call[d].new
           /\ call'[d].pc = "index" => call[d].pc = "index"
    BY <1>2, <1>4, <2>2
  <2>4. record'[id0] \in {record[id0], NoDoc}
    BY <1>6
  <2>5. record[id0] # NoDoc => Indexed(id0) \subseteq record[id0]
    BY <2>1, <2>2 DEF Pure
  <2>6. \A d \in Under(id0)' : /\ call'[d].pc = "index" => record'[id0] \in {call'[d].new, NoDoc}
                               /\ call'[d].op = "delete" => record'[id0] \in {call'[d].old, NoDoc}
    BY <2>1, <2>3, <2>4 DEF Pure
  <2> QED BY <1>3, <2>2, <2>3, <2>4, <2>5, <2>6 DEF Pure
<1>9. lacking \ {id0} \subseteq lacking' /\ surplus \ {id0} \subseteq surplus'
  BY <1>3
<1> HIDE DEF U
<1> QED BY <1>5, <1>7, <1>8, <1>9, <1>t, Elsewhere

LEMMA StepSteady == SInv /\ [Next]_vars => SInv'
<1> SUFFICES ASSUME SInv, [Next]_vars PROVE SInv'
  OBVIOUS
<1>t. /\ TInv /\ TInv' /\ call \in [Call -> Calls]
  BY StepTypes DEF SInv, TInv, TypeOK, Calls
<1>1. ASSUME NEW c \in Call, NEW id \in Id, NEW doc \in Doc, Create(c, id, doc) \/ Update(c, id, doc)
      PROVE  SInv'
  BY <1>1, <1>t, CreateSteady, UpdateSteady
<1>2. ASSUME NEW c \in Call, NEW id \in Id, Delete(c, id)
      PROVE  SInv'
  BY <1>2, <1>t, DeleteSteady
<1>3. ASSUME NEW c \in Call, IndexDocument(c) \/ UpdateDocument(c) \/ RemoveDocument(c) \/ RestoreIndex(c)
      PROVE  SInv'
  BY <1>3, <1>t, IndexSteady
<1>4. ASSUME NEW c \in Call, UpdatePut(c) \/ DeleteRecord(c)
      PROVE  SInv'
  BY <1>4, <1>t, UpdatePutSteady, DeleteRecordSteady
<1>5. ASSUME UNCHANGED <<record, index, call, past>>
      PROVE  SInv'
  <2>1. \A id \in Id : Untouched(id)
    BY <1>5 DEF Untouched, Under, Active
  <2>2. lacking' = lacking /\ surplus' = surplus
    BY <1>5 DEF past
  <2> QED BY <2>1, <2>2, <1>t, Frame DEF SInv
<1>6. CASE Restart
  <2>1. \A id : Under(id)' = {} /\ Indexed(id)' = {}
    BY <1>6, <1>t DEF Restart, Under, Active, Indexed, Calls
  <2>2. \A id \in Id : id \notin lacking' => record'[id] = NoDoc
    BY <1>6 DEF Restart
  <2> QED BY <2>1, <2>2, <1>t DEF SInv, Whole, Pure
<1>7. (\E q \in Query : (\E e \in Entry, offset \in 0..MaxPage, limit \in -1..MaxPage :
                            FindByField(q, e, offset, limit)) \/ Fetch(q) \/ FindFails(q))
      \/ UNCHANGED vars => UNCHANGED <<record, index, call, past>>
  BY DEF FindByField, Fetch, FindFails, vars, past
<1> QED
  BY <1>1, <1>2, <1>3, <1>4, <1>5, <1>6, <1>7 DEF Next

LEMMA InitSteady == Init => SInv
<1> SUFFICES ASSUME Init PROVE SInv
  OBVIOUS
<1>1. TInv
  BY InitTypes
<1>2. \A id \in Id : Under(id) = {} /\ record[id] = NoDoc
  BY DEF Init, Under, Active, NoCall
<1> QED BY <1>1, <1>2 DEF SInv, Whole, Pure

\* A document no writer of which is under way is indexed under every pair it has
\* and no other, but for the histories Agrees names.
THEOREM Consistent == Spec => []Agrees
<1>1. SInv => Agrees
  BY DEF SInv, Whole, Pure, Agrees
<1> QED BY <1>1, InitSteady, StepSteady, PTL DEF Spec

----------------------------------------------------------------------------
(* Queries.                                                                *)

Touched(f, id) == \E c \in f.during : call[c].id = id
Seen(f, id)    == \E i \in 1..Len(f.seen) : f.seen[i] = <<id, record[id]>>

\* A writer beside the query stores, or has stored, the document.
Written(f, id, doc) == \E c \in f.during : call[c].id = id /\ call[c].new = doc

\* What has been seen has the pair, and its writers have begun.
Matching(f) ==
    /\ \A c \in f.during : call[c].pc # "new"
    /\ \A i \in 1..Len(f.seen) : \/ f.want \in f.seen[i][2]
                                 \/ f.seen[i][1] \in surplus
                                 \/ Written(f, f.seen[i][1], f.seen[i][2])

\* What is still to be fetched has the pair if it is there and not newly written,
\* and a document that has it and that nobody touched is still to be fetched or
\* was seen.
Ahead(f) ==
    /\ \A c \in Call : Active(c) => c \in f.during
    /\ \A id \in f.rest \ surplus :
          record[id] = NoDoc \/ f.want \in record[id] \/ Written(f, id, record[id])

Covered(f) ==
    \A id \in Id \ lacking :
        record[id] # NoDoc /\ f.want \in record[id] =>
            Touched(f, id) \/ id \in f.rest \/ Seen(f, id)

Meets(f) == Matching(f) /\ (f.pc = "fetch" => Ahead(f) /\ Covered(f))

FInv == SInv /\ \A q \in Query : Meets(find[q])

\* The step of a writer makes of a query f the query g: the same, but for the
\* writers it remembers, which are all those that changed a record or mended the
\* index.
Carries(f, g) ==
    /\ g.want = f.want /\ g.seen = f.seen /\ g.rest = f.rest /\ g.pc = f.pc
    /\ f.during \subseteq g.during
    /\ \A c \in g.during : call'[c].pc # "new"
    /\ \A c \in f.during : call'[c].id = call[c].id /\ call'[c].new = call[c].new
    /\ surplus \subseteq surplus'
    /\ f.pc = "fetch" => \A c \in Call : Active(c)' => c \in g.during
    /\ f.pc = "fetch" => \A id \in Id :
          /\ record'[id] # record[id] \/ id \in lacking \ lacking' =>
                \E c \in g.during : call'[c].id = id
          /\ record'[id] # record[id] =>
                \/ record'[id] = NoDoc
                \/ \E c \in g.during : call'[c].id = id /\ call'[c].new = record'[id]

\* Then g is in order afterwards.
MeetsNext(g) ==
    /\ \A c \in g.during : call'[c].pc # "new"
    /\ \A i \in 1..Len(g.seen) : \/ g.want \in g.seen[i][2]
                                 \/ g.seen[i][1] \in surplus'
                                 \/ \E c \in g.during : /\ call'[c].id = g.seen[i][1]
                                                        /\ call'[c].new = g.seen[i][2]
    /\ g.pc = "fetch" =>
         /\ \A c \in Call : Active(c)' => c \in g.during
         /\ \A id \in g.rest \ surplus' :
               \/ record'[id] = NoDoc
               \/ g.want \in record'[id]
               \/ \E c \in g.during : call'[c].id = id /\ call'[c].new = record'[id]
         /\ \A id \in Id \ lacking' :
               record'[id] # NoDoc /\ g.want \in record'[id] =>
                   \/ \E c \in g.during : call'[c].id = id
                   \/ id \in g.rest
                   \/ \E i \in 1..Len(g.seen) : g.seen[i] = <<id, record'[id]>>

LEMMA Carried ==
  ASSUME NEW f \in Finds, NEW g \in Finds, Meets(f), Carries(f, g)
  PROVE  MeetsNext(g)
<1> USE DEF Carries
<1>1. \A id, doc : Written(f, id, doc) =>
                     \E c \in g.during : call'[c].id = id /\ call'[c].new = doc
  BY DEF Written
<1>2. \A id : Touched(f, id) => \E c \in g.during : call'[c].id = id
  BY DEF Touched
<1>3. \A i \in 1..Len(g.seen) : \/ g.want \in g.seen[i][2]
                                \/ g.seen[i][1] \in surplus'
                                \/ \E c \in g.during : /\ call'[c].id = g.seen[i][1]
                                                       /\ call'[c].new = g.seen[i][2]
  BY <1>1 DEF Meets, Matching
<1>4. ASSUME g.pc = "fetch", NEW id \in g.rest \ surplus'
      PROVE  \/ record'[id] = NoDoc
             \/ g.want \in record'[id]
             \/ \E c \in g.during : call'[c].id = id /\ call'[c].new = record'[id]
  <2>1. id \in Id /\ id \in f.rest \ surplus
    BY <1>4 DEF Finds
  <2>2. record[id] = NoDoc \/ f.want \in record[id] \/ Written(f, id, record[id])
    BY <2>1, <1>4 DEF Meets, Ahead
  <2>3. CASE record'[id] = record[id]
    BY <2>2, <2>3, <1>1
  <2>4. CASE record'[id] # record[id]
    BY <2>1, <2>4, <1>4
  <2> QED BY <2>3, <2>4
<1>5. ASSUME g.pc = "fetch", NEW id \in Id \ lacking', record'[id] # NoDoc, g.want \in record'[id]
      PROVE  \/ \E c \in g.during : call'[c].id = id
             \/ id \in g.rest
             \/ \E i \in 1..Len(g.seen) : g.seen[i] = <<id, record'[id]>>
  <2>1. CASE record'[id] # record[id] \/ id \in lacking
    BY <2>1, <1>5
  <2>2. CASE record'[id] = record[id] /\ id \notin lacking
    <3>1. Touched(f, id) \/ id \in f.rest \/ Seen(f, id)
      BY <2>2, <1>5 DEF Meets, Covered
    <3> QED BY <3>1, <2>2, <1>2 DEF Seen
  <2> QED BY <2>1, <2>2
<1> QED BY <1>3, <1>4, <1>5 DEF MeetsNext

\* The step of writer c0 on document id0 leaves all queries in order.
LEMMA Writes ==
  ASSUME FInv, TInv', NEW c0 \in Call, NEW id0 \in Id,
         \A d \in Call \ {c0} : call'[d] = call[d],
         call'[c0].pc # "new", call'[c0].id = id0,
         \/ call[c0].pc = "new" /\ (\E begun : Begin(c0, begun))
         \/ /\ Active(c0) /\ find' = find
            /\ call'[c0].id = call[c0].id /\ call'[c0].new = call[c0].new,
         \A id \in Id \ {id0} : record'[id] = record[id],
         record'[id0] # record[id0] =>
             record'[id0] = NoDoc \/ call'[c0].new = record'[id0],
         lacking \ {id0} \subseteq lacking', surplus \subseteq surplus'
  PROVE  \A q \in Query : Meets(find[q])'
<1> SUFFICES ASSUME NEW q \in Query PROVE Meets(find[q])'
  OBVIOUS
<1>1. find[q] \in Finds /\ find'[q] \in Finds /\ Meets(find[q])
  BY DEF FInv, SInv, TInv, TypeOK, Finds
<1>2. /\ find'[q].want = find[q].want /\ find'[q].seen = find[q].seen
      /\ find'[q].rest = find[q].rest /\ find'[q].pc = find[q].pc
      /\ find[q].during \subseteq find'[q].during
      /\ find'[q].during \subseteq find[q].during \union {c0}
      /\ find[q].pc = "fetch" => \/ c0 \in find'[q].during
                                 \/ Active(c0) /\ find'[q] = find[q]
  BY <1>1 DEF Begin, Finds
<1>3. \A c \in find[q].during : call[c].pc # "new" /\ c \in Call
  BY <1>1 DEF Meets, Matching, Finds
<1>4. \A c \in find'[q].during : call'[c].pc # "new"
  BY <1>1, <1>2, <1>3 DEF Finds
<1>5. \A c \in find[q].during : call'[c].id = call[c].id /\ call'[c].new = call[c].new
  <2>1. \A c \in find[q].during : c # c0 => call'[c].id = call[c].id /\ call'[c].new = call[c].new
    BY <1>3
  <2>2. c0 \in find[q].during => call'[c0].id = call[c0].id /\ call'[c0].new = call[c0].new
    BY <1>3
  <2> QED BY <2>1, <2>2
<1>6. find[q].pc = "fetch" => \A c \in Call : Active(c) => c \in find[q].during
  BY <1>1 DEF Meets, Ahead
<1>7. find[q].pc = "fetch" => c0 \in find'[q].during
  BY <1>2, <1>6
<1>8. find[q].pc = "fetch" => \A c \in Call : Active(c)' => c \in find'[q].during
  <2>1. \A c \in Call \ {c0} : Active(c)' => Active(c)
    BY DEF Active
  <2> QED BY <2>1, <1>2, <1>6, <1>7
<1>9. find[q].pc = "fetch" => \A id \in Id :
          /\ record'[id] # record[id] \/ id \in lacking \ lacking' =>
                \E c \in find'[q].during : call'[c].id = id
          /\ record'[id] # record[id] =>
                \/ record'[id] = NoDoc
                \/ \E c \in find'[q].during : call'[c].id = id /\ call'[c].new = record'[id]
  BY <1>7
<1>10. Carries(find[q], find'[q])
  BY <1>1, <1>2, <1>4, <1>5, <1>8, <1>9 DEF Carries
<1>11. MeetsNext(find'[q])
  BY <1>1, <1>10, Carried
<1> QED BY <1>11 DEF MeetsNext, Meets, Matching, Ahead, Covered, Written, Touched, Seen

\* A Get keeps its query in order, whether the query ends with it or not.
LEMMA FetchMeets ==
  ASSUME FInv, NEW q \in Query, Fetch(q)
  PROVE  /\ Matching(find'[q]) /\ Covered(find'[q])
         /\ find'[q].pc = "fetch" => Ahead(find'[q])
         /\ find'[q].pc = "done" => find'[q].rest = {} \/ Len(find'[q].results) = find'[q].limit
         /\ \A p \in Query \ {q} : find'[p] = find[p]
<1>t. find \in [Query -> Finds] /\ record \in [Id -> Doc \union {NoDoc}]
  BY DEF FInv, SInv, TInv, TypeOK, Finds
<1> DEFINE f == find[q]  g == find'[q]
<1>1. PICK id \in f.rest : g = IF record[id] = NoDoc THEN Missed(f, id) ELSE Got(f, id, record[id])
  BY <1>t DEF Fetch
<1>2. f \in Finds /\ f.pc = "fetch" /\ Meets(f)
  BY <1>t DEF Fetch, FInv
<1>3. \A p \in Query \ {q} : find'[p] = find[p]
  BY <1>t DEF Fetch
<1> HIDE DEF f, g
<1>4. id \in Id /\ record[id] \in Doc \union {NoDoc}
  BY <1>t, <1>2 DEF Finds
<1>5. /\ g.want = f.want /\ g.during = f.during /\ g.rest = f.rest \ {id}
      /\ g.limit = f.limit
      /\ record[id] = NoDoc => g.seen = f.seen
      /\ record[id] # NoDoc => g.seen = Append(f.seen, <<id, record[id]>>)
      /\ g.pc = "done" => f.rest = {id} \/ Len(g.results) = f.limit
  BY <1>1, <1>2, <1>4 DEF Missed, Got, Finds
<1>6. /\ Matching(f) /\ Ahead(f) /\ Covered(f)
      /\ f.seen \in Page
  BY <1>2 DEF Meets, Finds
<1>7. record[id] # NoDoc =>
        /\ Len(g.seen) = Len(f.seen) + 1
        /\ \A i \in 1..Len(f.seen) : g.seen[i] = f.seen[i]
        /\ g.seen[Len(g.seen)] = <<id, record[id]>>
        /\ Len(f.seen) \in Nat
  <2>1. ASSUME record[id] # NoDoc PROVE record[id] \in Doc
    BY <2>1, <1>4
  <2>2. Len(f.seen) \in Nat
    BY <1>6, LenProperties DEF Page
  <2> QED BY <2>1, <2>2, <1>4, <1>5, <1>6, Longer
<1>8. /\ \A x, doc : Written(g, x, doc) <=> Written(f, x, doc)
      /\ \A x : Touched(g, x) <=> Touched(f, x)
  BY <1>5 DEF Written, Touched
<1>9. \A x : Seen(f, x) => Seen(g, x)
  <2>1. CASE record[id] = NoDoc
    BY <2>1, <1>5 DEF Seen
  <2>2. CASE record[id] # NoDoc
    <3>1. \A i \in 1..Len(f.seen) : i \in 1..Len(g.seen)
      BY <2>2, <1>7
    <3> QED BY <3>1, <2>2, <1>7 DEF Seen
  <2> QED BY <2>1, <2>2
<1>10. Matching(g)
  <2>1. CASE record[id] = NoDoc
    BY <2>1, <1>5, <1>6, <1>8 DEF Matching
  <2>2. CASE record[id] # NoDoc
    <3>1. f.want \in record[id] \/ id \in surplus \/ Written(f, id, record[id])
      BY <2>2, <1>6 DEF Ahead
    <3>2. \A i \in 1..Len(g.seen) : i \in 1..Len(f.seen) \/ i = Len(g.seen)
      BY <2>2, <1>7
    <3>3. \A i \in 1..Len(g.seen) : \/ g.want \in g.seen[i][2]
                                    \/ g.seen[i][1] \in surplus
                                    \/ Written(g, g.seen[i][1], g.seen[i][2])
      <4> SUFFICES ASSUME NEW i \in 1..Len(g.seen)
                   PROVE  \/ g.want \in g.seen[i][2]
                          \/ g.seen[i][1] \in surplus
                          \/ Written(g, g.seen[i][1], g.seen[i][2])
        OBVIOUS
      <4>1. CASE i \in 1..Len(f.seen)
        BY <4>1, <2>2, <1>5, <1>6, <1>7, <1>8 DEF Matching
      <4>2. CASE i = Len(g.seen)
        <5>1. g.seen[i] = <<id, record[id]>>
          BY <4>2, <2>2, <1>7
        <5>2. g.seen[i][1] = id /\ g.seen[i][2] = record[id]
          BY <5>1
        <5> QED BY <5>2, <3>1, <1>5, <1>8
      <4> QED BY <4>1, <4>2, <3>2
    <3> QED BY <3>3, <1>5, <1>6 DEF Matching
  <2> QED BY <2>1, <2>2
<1>11. Covered(g)
  <2> SUFFICES ASSUME NEW x \in Id \ lacking, record[x] # NoDoc, g.want \in record[x]
               PROVE  Touched(g, x) \/ x \in g.rest \/ Seen(g, x)
    BY DEF Covered
  <2>1. Touched(f, x) \/ x \in f.rest \/ Seen(f, x)
    BY <1>5, <1>6 DEF Covered
  <2>2. x = id => Seen(g, x)
    <3>1. x = id => Len(g.seen) \in 1..Len(g.seen) /\ g.seen[Len(g.seen)] = <<x, record[x]>>
      BY <1>7
    <3> QED BY <3>1 DEF Seen
  <2> QED BY <2>1, <2>2, <1>5, <1>8, <1>9
<1>12. Ahead(g)
  BY <1>5, <1>6, <1>8 DEF Ahead
<1>13. g.pc = "done" => g.rest = {} \/ Len(g.results) = g.limit
  BY <1>5
<1> QED BY <1>3, <1>10, <1>11, <1>12, <1>13 DEF g

\* What a query begins with.
LEMMA LookupMeets ==
  ASSUME FInv, NEW q \in Query, NEW e \in Entry, NEW offset, NEW limit,
         FindByField(q, e, offset, limit)
  PROVE  /\ Matching(find'[q]) /\ Covered(find'[q]) /\ Ahead(find'[q])
         /\ find'[q].pc = "done" => find'[q].rest = {}
         /\ \A p \in Query \ {q} : find'[p] = find[p]
<1>t. find \in [Query -> Finds]
  BY DEF FInv, SInv, TInv, TypeOK, Finds
<1> DEFINE g == find'[q]
<1>1. /\ g.want = e /\ g.rest = Lookup(e) /\ g.during = {c \in Call : Active(c)} /\ g.seen = <<>>
      /\ g.pc = IF Lookup(e) = {} THEN "done" ELSE "fetch"
  BY <1>t DEF FindByField, NoFind
<1>2. \A p \in Query \ {q} : find'[p] = find[p]
  BY <1>t DEF FindByField
<1> HIDE DEF g
<1>3. /\ TInv /\ \A id \in Id \ lacking : Whole(id)
      /\ \A id \in Id \ surplus : Pure(id)
  BY DEF FInv, SInv
<1>4. Matching(g)
  <2>1. Len(g.seen) = 0
    BY <1>1
  <2> QED BY <1>1, <2>1 DEF Matching, Active
<1>5. \A c \in Call : Active(c) => c \in g.during
  BY <1>1
<1>6. ASSUME NEW id \in Lookup(e) \ surplus, record[id] # NoDoc, e \notin record[id]
      PROVE  Written(g, id, record[id])
  <2>1. Pure(id) /\ e \in Indexed(id)
    BY <1>3, <1>6 DEF Lookup, Indexed
  <2>2. PICK c \in Under(id) : call[c].pc = "reindex"
    BY <2>1, <1>6 DEF Pure
  <2>3. call[c].new = record[id]
    BY <2>1, <2>2 DEF Pure
  <2> QED BY <2>2, <2>3, <1>5 DEF Written, Under
<1>7. Ahead(g)
  BY <1>1, <1>5, <1>6 DEF Ahead
<1>8. Covered(g)
  <2> SUFFICES ASSUME NEW id \in Id \ lacking, record[id] # NoDoc, e \in record[id]
               PROVE  Touched(g, id) \/ id \in g.rest
    BY <1>1 DEF Covered
  <2>1. CASE Under(id) = {}
    <3>1. record[id] \subseteq Indexed(id)
      BY <2>1, <1>3 DEF Whole
    <3> QED BY <3>1, <1>1 DEF Indexed, Lookup
  <2>2. CASE Under(id) # {}
    BY <2>2, <1>1 DEF Under, Touched
  <2> QED BY <2>1, <2>2
<1>9. g.pc = "done" => g.rest = {}
  BY <1>1
<1> QED BY <1>2, <1>4, <1>7, <1>8, <1>9 DEF g

\* A step that leaves records and writers alone leaves in order what it made of
\* the queries.
LEMMA MeetsFrame ==
  ASSUME NEW q \in Query, Meets(find'[q]), UNCHANGED <<record, call, past>>
  PROVE  Meets(find[q])'
<1>1. \A id, doc : Written(find[q], id, doc)' <=> Written(find'[q], id, doc)
  BY DEF Written
<1>2. \A id : Touched(find[q], id)' <=> Touched(find'[q], id)
  BY DEF Touched
<1>3. \A id : Seen(find[q], id)' <=> Seen(find'[q], id)
  BY DEF Seen
<1>4. \A c : Active(c)' <=> Active(c)
  BY DEF Active
<1>5. Matching(find[q])'
  <2>1. Matching(find'[q])
    BY DEF Meets
  <2>2. \A c \in find'[q].during : call'[c].pc # "new"
    BY <2>1 DEF Matching
  <2>3. \A i \in 1..Len(find'[q].seen) : \/ find'[q].want \in find'[q].seen[i][2]
                                         \/ find'[q].seen[i][1] \in surplus'
                                         \/ Written(find'[q], find'[q].seen[i][1],
                                                    find'[q].seen[i][2])
    BY <2>1 DEF Matching, past
  <2>4. \A i \in 1..Len(find'[q].seen) : \/ find'[q].want \in find'[q].seen[i][2]
                                         \/ find'[q].seen[i][1] \in surplus'
                                         \/ Written(find[q], find[q].seen[i][1],
                                                    find[q].seen[i][2])'
    BY <2>3 DEF Written
  <2> QED BY <2>2, <2>4 DEF Matching
<1>6. ASSUME find'[q].pc = "fetch" PROVE Ahead(find[q])'
  <2>1. Ahead(find'[q])
    BY <1>6 DEF Meets
  <2> QED BY <2>1, <1>1, <1>4 DEF Ahead, past
<1>7. ASSUME find'[q].pc = "fetch" PROVE Covered(find[q])'
  <2>1. Covered(find'[q])
    BY <1>7 DEF Meets
  <2> QED BY <2>1, <1>2, <1>3 DEF Covered, past
<1> QED BY <1>5, <1>6, <1>7 DEF Meets

LEMMA StepMeets == FInv /\ [Next]_vars => FInv'
<1> SUFFICES ASSUME FInv, [Next]_vars PROVE FInv'
  OBVIOUS
<1>t. /\ SInv /\ SInv' /\ TInv /\ TInv'
      /\ record \in [Id -> Doc \union {NoDoc}] /\ call \in [Call -> Calls]
      /\ find \in [Query -> Finds]
      /\ \A q \in Query : Meets(find[q])
  BY StepSteady DEF FInv, SInv, TInv, TypeOK, Calls, Finds
<1>s. ASSUME \A q \in Query : Meets(find[q])'
      PROVE  FInv'
  BY <1>s, <1>t DEF FInv
<1>1. ASSUME NEW c \in Call, NEW id \in Id, NEW doc \in Doc, Create(c, id, doc)
      PROVE  FInv'
  <2>1. PICK stored \in BOOLEAN, ok \in BOOLEAN :
          /\ Put(id, doc, stored, ok)
          /\ Begin(c, [op |-> "create", pc |-> IF ok THEN "index" ELSE "done",
                       id |-> id, old |-> NoDoc, new |-> doc])
    BY <1>1 DEF Create
  <2>2. /\ call[c].pc = "new" /\ \E begun : Begin(c, begun)
        /\ call'[c].id = id /\ call'[c].pc # "new"
        /\ call'[c].new = doc
        /\ \A d \in Call \ {c} : call'[d] = call[d]
    BY <2>1, <1>t DEF Begin
  <2>3. /\ \A x \in Id \ {id} : record'[x] = record[x]
        /\ record'[id] # record[id] => record'[id] = doc
        /\ lacking \subseteq lacking' /\ surplus \subseteq surplus'
    BY <2>1, <1>1, <1>t DEF Put, Create, Noted
  <2> QED BY <2>2, <2>3, <1>t, <1>s, Writes
<1>2. ASSUME NEW c \in Call, NEW id \in Id,
             (\E doc \in Doc : Update(c, id, doc)) \/ Delete(c, id)
      PROVE  FInv'
  <2>1. PICK begun : Begin(c, begun) /\ begun.id = id /\ begun.pc # "new"
    <3>1. CASE Delete(c, id)
      BY <3>1 DEF Delete
    <3>2. ASSUME NEW doc \in Doc, Update(c, id, doc)
          PROVE  \E begun : Begin(c, begun) /\ begun.id = id /\ begun.pc # "new"
      BY <3>2 DEF Update
    <3> QED BY <1>2, <3>1, <3>2
  <2>2. /\ call[c].pc = "new" /\ call'[c] = begun
        /\ \A d \in Call \ {c} : call'[d] = call[d]
    BY <2>1, <1>t DEF Begin
  <2>3. record' = record /\ lacking \subseteq lacking' /\ surplus \subseteq surplus'
    BY <1>2 DEF Update, Delete, Noted
  <2> QED BY <2>1, <2>2, <2>3, <1>t, <1>s, Writes
<1>3. ASSUME NEW c \in Call, IndexDocument(c) \/ UpdateDocument(c) \/ RemoveDocument(c) \/ RestoreIndex(c)
      PROVE  FInv'
  <2>1. PICK pc \in {"done", "delete"} : Goto(c, pc)
    BY <1>3 DEF IndexDocument, UpdateDocument, RemoveDocument, RestoreIndex
  <2>2. /\ UNCHANGED <<record, find, surplus>> /\ lacking \ {call[c].id} \subseteq lacking'
        /\ Active(c) /\ call[c].id \in Id
    BY <1>3, <1>t DEF IndexDocument, UpdateDocument, RemoveDocument, RestoreIndex, Active,
                      TInv, Working, Mended, past
  <2>3. /\ call'[c] = [call[c] EXCEPT !.pc = pc]
        /\ \A d \in Call \ {c} : call'[d] = call[d]
    BY <2>1, <1>t DEF Goto
  <2>4. call'[c].pc # "new" /\ call'[c].id = call[c].id /\ call'[c].new = call[c].new
    BY <2>3, <1>t DEF Calls
  <2> QED BY <2>2, <2>3, <2>4, <1>t, <1>s, Writes
<1>4. ASSUME NEW c \in Call, UpdatePut(c) \/ DeleteRecord(c)
      PROVE  FInv'
  <2>1. PICK stored \in BOOLEAN, ok \in BOOLEAN, pc \in {"reindex", "done", "restore"},
             doc \in Doc \union {NoDoc} :
          /\ Put(call[c].id, doc, stored, ok)
          /\ Goto(c, pc)
          /\ \/ call[c].pc = "put" /\ doc = call[c].new
             \/ call[c].pc = "delete" /\ doc = NoDoc
          /\ lacking \subseteq lacking' /\ surplus \subseteq surplus'
    BY <1>4, <1>t DEF UpdatePut, DeleteRecord, Calls, Noted, past
  <2>2. find' = find /\ Active(c) /\ call[c].id \in Id
    BY <2>1, <1>4, <1>t DEF UpdatePut, DeleteRecord, Active, TInv, Working, TypeOK
  <2>3. /\ call'[c] = [call[c] EXCEPT !.pc = pc]
        /\ \A d \in Call \ {c} : call'[d] = call[d]
    BY <2>1, <1>t DEF Goto
  <2>4. call'[c].pc # "new" /\ call'[c].id = call[c].id /\ call'[c].new = call[c].new
    BY <2>3, <1>t DEF Calls
  <2>5. \A x \in Id \ {call[c].id} : record'[x] = record[x]
    BY <2>1, <1>t DEF Put
  <2>6. record'[call[c].id] # record[call[c].id] =>
           record'[call[c].id] = NoDoc \/ call'[c].new = record'[call[c].id]
    BY <2>1, <2>2, <2>4, <1>t DEF Put
  <2> QED BY <2>1, <2>2, <2>3, <2>4, <2>5, <2>6, <1>t, <1>s, Writes
<1>5. ASSUME NEW q \in Query, NEW e \in Entry, NEW offset \in 0..MaxPage, NEW limit \in -1..MaxPage,
             FindByField(q, e, offset, limit)
      PROVE  FInv'
  <2>1. /\ Meets(find'[q])
        /\ \A p \in Query \ {q} : find'[p] = find[p]
    BY <1>5, <1>t, LookupMeets DEF Meets
  <2>2. UNCHANGED <<record, call, past>>
    BY <1>5 DEF FindByField
  <2>3. \A p \in Query : Meets(find'[p])
    BY <2>1, <1>t
  <2>4. \A p \in Query : Meets(find[p])'
    BY <2>2, <2>3, MeetsFrame
  <2> QED BY <2>4, <1>s
<1>6. ASSUME NEW q \in Query, Fetch(q)
      PROVE  FInv'
  <2>1. /\ Meets(find'[q])
        /\ \A p \in Query \ {q} : find'[p] = find[p]
    BY <1>6, <1>t, FetchMeets DEF Meets
  <2>2. UNCHANGED <<record, call, past>>
    BY <1>6 DEF Fetch
  <2>3. \A p \in Query : Meets(find'[p])
    BY <2>1, <1>t
  <2>4. \A p \in Query : Meets(find[p])'
    BY <2>2, <2>3, MeetsFrame
  <2> QED BY <2>4, <1>s
<1>7. ASSUME \A q \in Query : find'[q] = find[q] \/ find'[q] = NoFind,
             UNCHANGED <<record, call, past>> \/ Restart
      PROVE  FInv'
  <2> SUFFICES ASSUME NEW q \in Query PROVE Meets(find[q])'
    BY <1>s
  <2>1. CASE find'[q] = NoFind
    <3>1. /\ find'[q].during = {} /\ Len(find'[q].seen) = 0 /\ find'[q].pc = "idle"
      BY <2>1 DEF NoFind
    <3> QED BY <3>1 DEF Meets, Matching
  <2>2. CASE find'[q] = find[q] /\ UNCHANGED <<record, call, past>>
    <3>1. Meets(find'[q])
      BY <2>2, <1>t
    <3> QED BY <2>2, <3>1, MeetsFrame
  <2>3. CASE Restart
    <3>1. find'[q] = NoFind
      BY <2>3 DEF Restart
    <3> QED BY <2>1, <3>1
  <2> QED BY <2>1, <2>2, <2>3, <1>7
<1>8. ASSUME NEW q \in Query, FindFails(q)
      PROVE  FInv'
  <2>1. \A p \in Query : find'[p] = find[p] \/ find'[p] = NoFind
    BY <1>8, <1>t DEF FindFails
  <2> QED BY <2>1, <1>7, <1>8 DEF FindFails
<1>9. CASE Restart
  <2>1. \A p \in Query : find'[p] = NoFind
    BY <1>9 DEF Restart
  <2> QED BY <2>1, <1>7, <1>9
<1>10. CASE UNCHANGED vars
  BY <1>7, <1>10 DEF vars, past
<1> QED
  BY <1>1, <1>2, <1>3, <1>4, <1>5, <1>6, <1>8, <1>9, <1>10 DEF Next

LEMMA InitMeets == Init => FInv
<1> SUFFICES ASSUME Init PROVE FInv
  OBVIOUS
<1>1. ASSUME NEW q \in Query PROVE Meets(find[q])
  <2>1. find[q].during = {} /\ Len(find[q].seen) = 0 /\ find[q].pc = "idle"
    BY DEF Init, NoFind
  <2> QED BY <2>1 DEF Meets, Matching
<1> QED BY <1>1, InitSteady DEF FInv

\* A document without the pair asked for is returned only if a writer beside the
\* query stored it, or if the index held it under a pair it does not have.
THEOREM Sound == Spec => []FindsOnly
<1>1. FInv => FindsOnly
  <2> SUFFICES ASSUME FInv, NEW q \in Query, NEW i \in 1..Len(find[q].seen)
               PROVE  \/ find[q].want \in find[q].seen[i][2]
                      \/ find[q].seen[i][1] \in surplus
                      \/ \E c \in find[q].during : /\ call[c].id = find[q].seen[i][1]
                                                   /\ call[c].new = find[q].seen[i][2]
    BY DEF FindsOnly
  <2> QED BY DEF FInv, Meets, Matching, Written
<1> QED BY <1>1, InitMeets, StepMeets, PTL DEF Spec

\* A query that ends before its limit has seen every document that has the pair
\* asked for, lacks nothing in the index and had no writer while the query ran.
THEOREM Complete == Spec => FindsAll
<1>1. ASSUME FInv, Next, NEW q \in Query, find'[q] # find[q], find'[q].pc = "done",
             Len(find'[q].results) # find'[q].limit, NEW id \in Id \ lacking,
             record[id] # NoDoc, find'[q].want \in record[id]
      PROVE  \/ \E c \in find'[q].during : call[c].id = id
             \/ \E i \in 1..Len(find'[q].seen) : find'[q].seen[i] = <<id, record[id]>>
  <2>t. find \in [Query -> Finds]
    BY <1>1 DEF FInv, SInv, TInv, TypeOK, Finds
  <2>1. ASSUME find'[q].rest = {}, Covered(find'[q])
        PROVE  Touched(find'[q], id) \/ Seen(find'[q], id)
    BY <2>1, <1>1 DEF Covered
  <2>2. CASE Fetch(q)
    <3>1. find'[q].rest = {} /\ Covered(find'[q])
      BY <2>2, <1>1, FetchMeets
    <3> QED BY <3>1, <2>1 DEF Touched, Seen
  <2>3. ASSUME NEW e \in Entry, NEW offset, NEW limit, FindByField(q, e, offset, limit)
        PROVE  Touched(find'[q], id) \/ Seen(find'[q], id)
    <3>1. find'[q].rest = {} /\ Covered(find'[q])
      BY <2>3, <1>1, LookupMeets
    <3> QED BY <3>1, <2>1
  <2>4. Fetch(q) \/ \E e \in Entry, offset \in 0..MaxPage, limit \in -1..MaxPage :
                       FindByField(q, e, offset, limit)
    <3>1. ASSUME NEW c \in Call, NEW begun, Begin(c, begun) PROVE FALSE
      <4>1. find[q].pc = "fetch" /\ find'[q].pc = find[q].pc
        BY <3>1, <2>t, <1>1 DEF Begin, Finds
      <4> QED BY <4>1, <1>1
    <3>2. ASSUME NEW p \in Query, p # q,
                 \/ Fetch(p) \/ FindFails(p)
                 \/ \E e \in Entry, offset \in 0..MaxPage, limit \in -1..MaxPage :
                       FindByField(p, e, offset, limit)
          PROVE  FALSE
      BY <3>2, <2>t, <1>1 DEF Fetch, FindFails, FindByField
    <3>3. ~FindFails(q) /\ ~Restart
      BY <2>t, <1>1 DEF FindFails, Restart, NoFind
    <3>4. ASSUME NEW c \in Call, NEW id0 \in Id,
                 (\E doc \in Doc : Create(c, id0, doc) \/ Update(c, id0, doc)) \/ Delete(c, id0)
          PROVE  FALSE
      BY <3>1, <3>4 DEF Create, Update, Delete
    <3>5. ASSUME NEW c \in Call, \/ IndexDocument(c) \/ UpdatePut(c) \/ UpdateDocument(c)
                                 \/ RemoveDocument(c) \/ DeleteRecord(c) \/ RestoreIndex(c)
          PROVE  FALSE
      BY <3>5, <1>1 DEF IndexDocument, UpdatePut, UpdateDocument, RemoveDocument, DeleteRecord,
                        RestoreIndex
    <3> QED BY <1>1, <3>2, <3>3, <3>4, <3>5 DEF Next
  <2>5. Touched(find'[q], id) \/ Seen(find'[q], id)
    BY <2>2, <2>3, <2>4 DEF Touched, Seen
  <2> QED BY <2>5 DEF Touched, Seen
<1>2. FInv /\ [Next]_vars =>
        [\A q \in Query :
            LET f == find'[q]
            IN  f # find[q] /\ f.pc = "done" /\ Len(f.results) # f.limit =>
                   \A id \in Id \ lacking :
                      \/ record[id] = NoDoc
                      \/ f.want \notin record[id]
                      \/ \E c \in f.during : call[c].id = id
                      \/ \E i \in 1..Len(f.seen) : f.seen[i] = <<id, record[id]>>]_vars
  BY <1>1
<1> QED BY <1>2, InitMeets, StepMeets, PTL DEF Spec, FindsAll

----------------------------------------------------------------------------
(* Pages.                                                                  *)

\* The results of a query that goes on are all it has seen after its offset.
Sliced(f) ==
    /\ Len(f.results) # 0 => Len(f.results) <= Len(f.seen) - f.offset
    /\ \A i \in 1..Len(f.results) : f.results[i] = f.seen[f.offset + i]
    /\ f.pc = "fetch" =>
         /\ f.matched = Len(f.seen)
         /\ Len(f.results) = IF Len(f.seen) <= f.offset THEN 0 ELSE Len(f.seen) - f.offset
         /\ f.limit = 0 => Len(f.results) = 0
         /\ f.limit > 0 => Len(f.results) < f.limit
    /\ f.limit >= 0 => Len(f.results) <= f.limit
    /\ \/ Len(f.results) = f.limit
       \/ Len(f.results) = Len(f.seen) - f.offset
       \/ Len(f.results) = 0 /\ Len(f.seen) <= f.offset

PInv == TInv /\ \A q \in Query : Sliced(find[q])

LEMMA SlicedStart ==
  ASSUME NEW f, f.seen = <<>>, f.results = <<>>, f.matched = 0, f.offset \in Nat,
         f.limit \in Nat \union {-1}
  PROVE  Sliced(f)
<1>1. Len(f.seen) = 0 /\ Len(f.results) = 0
  OBVIOUS
<1> QED BY <1>1 DEF Sliced

\* A document that is gone changes nothing of a page.
LEMMA SlicedMissed ==
  ASSUME NEW f \in Finds, Sliced(f), f.pc = "fetch", NEW id \in Id
  PROVE  Sliced(Missed(f, id))
<1> DEFINE g == Missed(f, id)
<1>1. /\ g.seen = f.seen /\ g.results = f.results /\ g.matched = f.matched
      /\ g.offset = f.offset /\ g.limit = f.limit
  BY DEF Missed, Finds
<1> HIDE DEF g
<1>2. Sliced(g)
  BY <1>1 DEF Sliced
<1> QED BY <1>2 DEF g

\* A document that is there is skipped, taken, or the end of the page.
LEMMA SlicedGot ==
  ASSUME NEW f \in Finds, Sliced(f), f.pc = "fetch", NEW id \in Id, NEW doc \in Doc
  PROVE  Sliced(Got(f, id, doc))
<1> DEFINE g == Got(f, id, doc)
           s == Append(f.seen, <<id, doc>>)
           r == Append(f.results, <<id, doc>>)
<1>1. /\ g.seen = s /\ g.offset = f.offset /\ g.limit = f.limit
      /\ g.results = IF ~Within(f) /\ f.limit # 0 THEN r ELSE f.results
      /\ g.matched = IF Within(f) \/ f.limit # 0 THEN f.matched + 1 ELSE f.matched
      /\ ~Within(f) /\ Len(g.results) = f.limit => g.pc = "done"
  BY DEF Got, Finds
<1>2. /\ f.seen \in Page /\ f.results \in Page /\ f.offset \in Nat /\ f.matched \in Nat
      /\ f.limit \in Nat \union {-1}
  BY DEF Finds
<1>3. /\ s \in Page /\ Len(s) = Len(f.seen) + 1 /\ s[Len(f.seen) + 1] = <<id, doc>>
      /\ \A i \in 1..Len(f.seen) : s[i] = f.seen[i]
  BY <1>2, Longer
<1>4. /\ r \in Page /\ Len(r) = Len(f.results) + 1 /\ r[Len(f.results) + 1] = <<id, doc>>
      /\ \A i \in 1..Len(f.results) : r[i] = f.results[i]
  BY <1>2, Longer
<1>5. Len(f.seen) \in Nat /\ Len(f.results) \in Nat
  BY <1>2, LenProperties DEF Page
<1>6. /\ f.matched = Len(f.seen)
      /\ Len(f.results) = IF Len(f.seen) <= f.offset THEN 0 ELSE Len(f.seen) - f.offset
      /\ f.limit = 0 => Len(f.results) = 0
      /\ f.limit > 0 => Len(f.results) < f.limit
      /\ Within(f) <=> Len(f.seen) < f.offset
      /\ \A i \in 1..Len(f.results) : f.results[i] = f.seen[f.offset + i]
  BY DEF Sliced, Within
<1> HIDE DEF g, s, r
<1>7. ASSUME Within(f) PROVE Sliced(g)
  <2>1. g.results = f.results /\ Len(f.results) = 0
    BY <1>1, <1>2, <1>5, <1>6, <1>7
  <2> QED BY <2>1, <1>1, <1>2, <1>3, <1>5, <1>6, <1>7 DEF Sliced
<1>8. ASSUME ~Within(f) /\ f.limit = 0 PROVE Sliced(g)
  <2>1. g.results = f.results /\ Len(f.results) = 0 /\ g.pc = "done"
    BY <1>1, <1>6, <1>8
  <2> QED BY <2>1, <1>1, <1>8 DEF Sliced
<1>9. ASSUME ~Within(f) /\ f.limit # 0 PROVE Sliced(g)
  <2>1. /\ g.results = r /\ g.matched = f.matched + 1
        /\ Len(f.results) = Len(f.seen) - f.offset
    BY <1>1, <1>2, <1>5, <1>6, <1>9
  <2>2. ASSUME NEW i \in 1..Len(r) PROVE r[i] = s[f.offset + i]
    <3>1. CASE i = Len(r)
      <4>1. f.offset + i = Len(f.seen) + 1
        BY <3>1, <2>1, <1>2, <1>4, <1>5
      <4> QED BY <4>1, <3>1, <1>3, <1>4
    <3>2. CASE i # Len(r)
      <4>0. f.offset \in Nat /\ Len(r) = Len(f.results) + 1
        BY <1>2, <1>4
      <4>1. i \in 1..Len(f.results) /\ f.offset + i \in 1..Len(f.seen)
        BY <3>2, <4>0, <2>1, <1>5
      <4> QED BY <4>1, <1>3, <1>4, <1>6
    <3> QED BY <3>1, <3>2
  <2>3. Len(r) = Len(s) - f.offset
    BY <2>1, <1>2, <1>3, <1>4, <1>5
  <2>4. Len(s) > f.offset
    BY <1>2, <1>3, <1>5, <1>6, <1>9
  <2>5. /\ f.limit > 0 => Len(r) <= f.limit
        /\ f.limit > 0 /\ Len(r) # f.limit => Len(r) < f.limit
    BY <1>2, <1>4, <1>5, <1>6
  <2>6. Len(r) # f.limit \/ g.pc = "done"
    BY <2>1, <1>1, <1>9
  <2>7. /\ g.seen = s /\ g.offset = f.offset /\ g.limit = f.limit /\ g.results = r
        /\ Len(s) \in Nat /\ Len(r) \in Nat /\ f.offset \in Nat
        /\ f.limit > 0 \/ f.limit = -1
        /\ g.matched = Len(s)
    BY <2>1, <1>1, <1>2, <1>3, <1>4, <1>5, <1>6, <1>9
  <2>8. g.pc = "fetch" => /\ Len(g.results) = IF Len(g.seen) <= g.offset THEN 0 ELSE Len(g.seen) - g.offset
                          /\ g.limit = 0 => Len(g.results) = 0
                          /\ g.limit > 0 => Len(g.results) < g.limit
    BY <2>3, <2>4, <2>5, <2>6, <2>7
  <2>9. /\ Len(g.results) # 0 => Len(g.results) <= Len(g.seen) - g.offset
        /\ g.limit >= 0 => Len(g.results) <= g.limit
        /\ Len(g.results) = Len(g.seen) - g.offset
    BY <2>3, <2>5, <2>7
  <2> QED BY <2>2, <2>7, <2>8, <2>9 DEF Sliced
<1>10. Sliced(g)
  BY <1>7, <1>8, <1>9, <1>2
<1> QED BY <1>10 DEF g

LEMMA StepSliced == PInv /\ [Next]_vars => PInv'
<1> SUFFICES ASSUME PInv, [Next]_vars PROVE PInv'
  OBVIOUS
<1>t. /\ TInv' /\ find \in [Query -> Finds] /\ record \in [Id -> Doc \union {NoDoc}]
      /\ \A q \in Query : Sliced(find[q])
  BY StepTypes DEF PInv, TInv, TypeOK, Finds
<1>s. ASSUME \A q \in Query : Sliced(find'[q])
      PROVE  PInv'
  BY <1>s, <1>t DEF PInv, Sliced
<1>1. Sliced(NoFind)
  <2>1. /\ NoFind.seen = <<>> /\ NoFind.results = <<>> /\ NoFind.matched = 0
        /\ NoFind.offset = 0 /\ NoFind.limit = 0
    BY DEF NoFind
  <2> QED BY <2>1, SlicedStart
<1>2. ASSUME NEW c \in Call, NEW begun, Begin(c, begun)
      PROVE  PInv'
  <2>1. ASSUME NEW q \in Query PROVE Sliced(find'[q])
    <3>1. /\ find'[q].seen = find[q].seen /\ find'[q].results = find[q].results
          /\ find'[q].offset = find[q].offset /\ find'[q].limit = find[q].limit
          /\ find'[q].matched = find[q].matched /\ find'[q].pc = find[q].pc
      BY <1>2, <1>t DEF Begin, Finds
    <3> QED BY <3>1, <1>t DEF Sliced
  <2> QED BY <2>1, <1>s
<1>3. CASE find' = find
  BY <1>3, <1>t, <1>s
<1>4. ASSUME NEW q \in Query, NEW e \in Entry, NEW offset \in 0..MaxPage, NEW limit \in -1..MaxPage,
             FindByField(q, e, offset, limit)
      PROVE  PInv'
  <2>1. /\ find'[q].seen = <<>> /\ find'[q].results = <<>> /\ find'[q].matched = 0
        /\ find'[q].offset = offset /\ find'[q].limit = limit
        /\ \A p \in Query \ {q} : find'[p] = find[p]
    BY <1>4, <1>t DEF FindByField, NoFind
  <2>2. Sliced(find'[q])
    <3>1. offset \in Nat /\ limit \in Nat \union {-1}
      BY DocumentsAssumption
    <3> QED BY <2>1, <3>1, SlicedStart
  <2> QED BY <2>1, <2>2, <1>t, <1>s
<1>5. ASSUME NEW q \in Query, Fetch(q)
      PROVE  PInv'
  <2>1. PICK id \in find[q].rest :
          find' = [find EXCEPT ![q] = IF record[id] = NoDoc
                                      THEN Missed(find[q], id)
                                      ELSE Got(find[q], id, record[id])]
    BY <1>5 DEF Fetch
  <2>2. id \in Id /\ find[q] \in Finds /\ find[q].pc = "fetch" /\ Sliced(find[q])
    BY <1>5, <1>t DEF Fetch, Finds
  <2>3. Sliced(find'[q])
    <3>1. CASE record[id] = NoDoc
      BY <3>1, <2>1, <2>2, <1>t, SlicedMissed
    <3>2. CASE record[id] # NoDoc
      BY <3>2, <2>1, <2>2, <1>t, SlicedGot
    <3> QED BY <3>1, <3>2
  <2> QED BY <2>1, <2>3, <1>t, <1>s
<1>6. ASSUME \A q \in Query : find'[q] = find[q] \/ find'[q] = NoFind
      PROVE  PInv'
  BY <1>1, <1>6, <1>t, <1>s
<1>7. ASSUME NEW c \in Call, NEW id \in Id,
             (\E doc \in Doc : Create(c, id, doc) \/ Update(c, id, doc)) \/ Delete(c, id)
      PROVE  PInv'
  BY <1>2, <1>7 DEF Create, Update, Delete
<1>8. ASSUME NEW c \in Call, \/ IndexDocument(c) \/ UpdatePut(c) \/ UpdateDocument(c)
                             \/ RemoveDocument(c) \/ DeleteRecord(c) \/ RestoreIndex(c)
      PROVE  PInv'
  BY <1>3, <1>8 DEF IndexDocument, UpdatePut, UpdateDocument, RemoveDocument, DeleteRecord, RestoreIndex
<1>9. ASSUME (\E q \in Query : FindFails(q)) \/ Restart
      PROVE  PInv'
  <2>1. \A q \in Query : find'[q] = find[q] \/ find'[q] = NoFind
    BY <1>9, <1>t DEF FindFails, Restart
  <2> QED BY <2>1, <1>6
<1>10. CASE UNCHANGED vars
  BY <1>3, <1>10 DEF vars
<1> QED
  BY <1>4, <1>5, <1>7, <1>8, <1>9, <1>10 DEF Next

\* The results are the slice of what was found that offset and limit name.
THEOREM Paging == Spec => []PageIsSlice
<1>1. Init => PInv
  <2> SUFFICES ASSUME Init PROVE PInv
    OBVIOUS
  <2>1. ASSUME NEW q \in Query PROVE Sliced(find[q])
    <3>1. /\ find[q].seen = <<>> /\ find[q].results = <<>> /\ find[q].matched = 0
          /\ find[q].offset = 0 /\ find[q].limit = 0
      BY DEF Init, NoFind
    <3> QED BY <3>1, SlicedStart
  <2> QED BY <2>1, InitTypes DEF PInv
<1>2. PInv => PageIsSlice
  <2> SUFFICES ASSUME PInv, NEW q \in Query
               PROVE  /\ \A i \in 1..Len(find[q].results) :
                            find[q].results[i] = find[q].seen[find[q].offset + i]
                      /\ find[q].limit >= 0 => Len(find[q].results) <= find[q].limit
                      /\ \/ Len(find[q].results) = find[q].limit
                         \/ Len(find[q].results) = Len(find[q].seen) - find[q].offset
                         \/ find[q].results = <<>> /\ Len(find[q].seen) <= find[q].offset
    BY DEF PageIsSlice
  <2>1. find[q].results \in Seq(Id \X Doc)
    BY DEF PInv, TInv, TypeOK, Page
  <2>2. Len(find[q].results) = 0 => find[q].results = <<>>
    BY <2>1, EmptySeq
  <2> QED BY <2>2 DEF PInv, Sliced
<1> QED BY <1>1, <1>2, StepSliced, PTL DEF Spec
=============================================================================
