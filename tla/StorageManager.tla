--------------------------- MODULE StorageManager ---------------------------
(****************************************************************************)
(* The table directory (storage/storage_engine.c) and the table lists of    *)
(* the engines it dispatches to.  The two kinds of list are written one     *)
(* after the other, and an allocation may fail between them.  A table       *)
(* object is known by the number of the call that passed it.                *)
(*                                                                          *)
(* Who frees what: an engine allocates the table's data and hangs it on     *)
(* engine_specific_data; the engine frees it, and destroy_table does too.   *)
(* storage_engine_register is left out: nothing calls it once there are     *)
(* tables.                                                                  *)
(****************************************************************************)
EXTENDS Integers, Sequences, FiniteSets, SequencesExt

CONSTANTS
    Name,       \* table names
    Engine,     \* the storage engines, three in the code
    MaxCreates  \* bound: tables passed to create in a run

DirectoryAssumption == MaxCreates \in Nat

VARIABLES
    tables,     \* manager->tables
    lists,      \* lists[e]: the tables in the data of engine e
    created,    \* number of table objects passed to create so far
    proc        \* how the process is doing

vars == <<tables, lists, created, proc>>

Table == [obj : 1..MaxCreates, name : Name, engine : Engine]

TypeOK ==
    /\ tables \in Seq(Table)
    /\ lists \in [Engine -> Seq(Table)]
    /\ created \in 0..MaxCreates
    /\ proc \in {"ok", "aborted", "undefined", "destroyed"}

Init ==
    /\ tables = <<>>
    /\ lists = [e \in Engine |-> <<>>]
    /\ created = 0
    /\ proc = "ok"

\* The name is on the list (both searches compare names only).
Has(list, name) == \E i \in DOMAIN list : list[i].name = name

\* The first entry with the name.
Entry(list, name) == list[SelectInSeq(list, LAMBDA t : t.name = name)]

Without(list, name) == RemoveAt(list, SelectInSeq(list, LAMBDA t : t.name = name))

\* Slip: the engine does not look for the name.
EngineAcceptsAny(t) == t.engine \in Engine

\* row_engine_create_table, memory_engine_create_table.
EngineAccepts(t) == ~Has(lists[t.engine], t.name)

\* The engine appends the table; growing the directory may then fail, with
\* the engine not told.
CreateTable(name, e) ==
    LET t == [obj |-> created + 1, name |-> name, engine |-> e]
    IN  /\ proc = "ok"
        /\ created < MaxCreates
        /\ created' = created + 1
        /\ IF ~Has(tables, name) /\ EngineAccepts(t)
             THEN \/ /\ lists' = [lists EXCEPT ![e] = Append(@, t)]
                     /\ tables' \in {Append(tables, t), tables}
                  \/ UNCHANGED <<lists, tables>>
             ELSE UNCHANGED <<lists, tables>>
        /\ UNCHANGED proc

\* The engine frees the table's data, the manager frees it once more.
DropTable(name) ==
    /\ proc = "ok"
    /\ Has(tables, name)
    /\ LET e == Entry(tables, name).engine
       IN  IF Has(lists[e], name)
             THEN /\ lists' = [lists EXCEPT ![e] = Without(@, name)]
                  /\ tables' = Without(tables, name)
                  /\ proc' = "aborted"
             ELSE UNCHANGED <<lists, tables, proc>>
    /\ UNCHANGED created

\* The directory's tables, with their data, are freed before the engines walk
\* over their lists.
Destroy ==
    /\ proc = "ok"
    /\ proc' = IF tables = <<>> THEN "destroyed" ELSE "undefined"
    /\ UNCHANGED <<tables, lists, created>>

Next ==
    \/ \E name \in Name, e \in Engine : CreateTable(name, e)
    \/ \E name \in Name : DropTable(name)
    \/ Destroy

Spec == Init /\ [][Next]_vars

\* storage_engine_get_table: the directory says which engine to ask.
GetTable(name) ==
    LET e == Entry(tables, name).engine
    IN  IF Has(tables, name) /\ Has(lists[e], name) THEN Entry(lists[e], name).obj ELSE 0

-----------------------------------------------------------------------------
(* Properties.                                                              *)

\* What the directory lists is what its engine answers for the name, the same
\* table object, although a create that failed may have left other tables of
\* that name with other engines (storage_engine.c:61-97, 146-161).
DirectoryAgreesWithEngines ==
    \A i \in DOMAIN tables : GetTable(tables[i].name) = tables[i].obj

=============================================================================
