------------------------------ MODULE Metadata ------------------------------
(****************************************************************************)
(* The catalogue (metadata/metadata.c): a list of objects - tables, columns *)
(* and indexes of one schema - and a file for each.                         *)
(*                                                                          *)
(* An object has a name of its own and points to data, which hold the name  *)
(* once more and, of a column or an index, the name of its table.  Lookups  *)
(* use one name or the other: renaming changes the name in the data, then   *)
(* looks for an object of the new name to hang the data on.  So two objects *)
(* can come to share data, and data can be freed where they are in use: the *)
(* heap of data is modelled, and what C leaves undefined ends the run.      *)
(*                                                                          *)
(* Left out: metadata_load, which reads nothing, the failure of mkdir,      *)
(* which has the effect of one of fopen, and that of strdup.  With a        *)
(* schema, whose name is a directory below that of the type, mkdir fails    *)
(* unless others made the directory of the type (metadata.c:376): files are *)
(* written without a schema, or where these directories are.  The status of *)
(* a dropped object, OBJECT_STATUS_DELETED, is declared nowhere; it is      *)
(* taken to be one that is not OBJECT_STATUS_ACTIVE.                        *)
(****************************************************************************)
EXTENDS Integers, Sequences, SequencesExt

CONSTANTS
    TableName, ColumnName, IndexName,
    CloneName,            \* CloneName[n]: the name of an index n with _clone
    NoTable,              \* the table of a table's data
    Unreliable,           \* bound: names of indexes whose files may fail to be
                          \* written or removed
    MaxObjects,           \* bound: objects in the list
    MaxRenames            \* bound: calls that rename

MetadataAssumption ==
    /\ MaxObjects \in Nat /\ MaxRenames \in Nat
    /\ \A n \in DOMAIN CloneName : n \in IndexName /\ CloneName[n] \in IndexName
    /\ NoTable \notin TableName
    /\ Unreliable \subseteq IndexName

VARIABLES
    cat,    \* the manager and what it points to
    files,  \* the files of objects, by type and name
    renames \* the number of calls that renamed

vars == <<cat, files, renames>>

Part == {"column", "index"}
PartName(type) == IF type = "column" THEN ColumnName ELSE IndexName
FileName == ({"table"} \X TableName) \cup ({"column"} \X ColumnName) \cup ({"index"} \X IndexName)
Name == TableName \cup ColumnName \cup IndexName

\* The heap: blocks that hold data, or are free.  An object always has data.
Block == 1..(2 * MaxObjects + 1)
Freed == [name |-> NoTable, owner |-> NoTable]

TypeOK ==
    /\ cat.objects \in Seq([type : {"table"} \cup Part, name : Name,
                            active : BOOLEAN, data : Block])
    /\ cat.data \in [Block -> [name : Name,
                               owner : TableName \cup {NoTable}] \cup {Freed}]
    /\ cat.dirty \in BOOLEAN
    /\ cat.proc \in {"ok", "undefined", "aborted", "destroyed"}
    /\ files \subseteq FileName /\ renames \in 0..MaxRenames

\* What is left of the catalogue when the process is like that.
Empty(how) == [objects |-> <<>>, data |-> [d \in Block |-> Freed], dirty |-> FALSE,
               proc |-> how]

Init ==
    /\ cat = Empty("ok")
    /\ files = {} /\ renames = 0

-----------------------------------------------------------------------------
(* Looking up and changing a catalogue c.                                   *)

Ok == cat.proc = "ok"
Faulty == Empty("undefined")
KeyOf(o) == <<o.type, o.name>>
DataOf(c, i) == c.data[c.objects[i].data]

\* The block of data allocated next.  One that an object still points to after
\* it was freed is not used again, so that the use of freed memory shows.
Fresh(c) ==
    CHOOSE d \in 1..(Len(c.objects) + 1) :
       /\ \A i \in DOMAIN c.objects : c.objects[i].data # d
       /\ \A e \in 1..(d - 1) : \E i \in DOMAIN c.objects : c.objects[i].data = e

\* metadata_get: by the object's own name.  0 is NULL.
Lookup(c, type, name) ==
    SelectInSeq(c.objects, LAMBDA o : o.type = type /\ o.active /\ o.name = name)

\* Object i is a column or an index that belongs to table t, by its data.
BelongsTo(c, i, t) ==
    c.objects[i].type \in Part /\ c.objects[i].active /\ DataOf(c, i).owner = t

\* metadata_get_column, metadata_get_index: by the names in the data.
LookupPart(c, type, name, t) ==
    SelectInSeq([i \in DOMAIN c.objects |-> i],
                LAMBDA i : /\ c.objects[i].type = type
                           /\ BelongsTo(c, i, t) /\ DataOf(c, i).name = name)

\* A walk over the active objects of a type, up to object i, reads freed data.
ReadsFreed(c, type, i) ==
    \E j \in DOMAIN c.objects : /\ j <= i \/ i = 0
                                /\ c.objects[j].type = type /\ c.objects[j].active
                                /\ DataOf(c, j) = Freed

\* metadata_update: the object's data are freed and data d take their place.
Attached(c, type, name, d) ==
    LET i == Lookup(c, type, name)
    IN  IF i = 0 THEN c
        ELSE IF DataOf(c, i) = Freed THEN Faulty
        ELSE [c EXCEPT !.data[c.objects[i].data] = Freed,
                       !.objects[i].data = d, !.dirty = TRUE]

\* metadata_delete, but for the file: the object stays on the list.
Deleted(c, type, name) ==
    LET i == Lookup(c, type, name)
    IN  IF i = 0 THEN c ELSE [c EXCEPT !.objects[i].active = FALSE, !.dirty = TRUE]

\* Slip: a deleted object gives its name away.
FreeAmongActive(c, type, name) == Lookup(c, type, name) = 0

\* What metadata_create asks: no object has the name, a deleted one neither.
IsFree(c, type, name) ==
    \A i \in DOMAIN c.objects : KeyOf(c.objects[i]) # <<type, name>>

\* metadata_create.
Created(c, type, name, owner) ==
    IF ~IsFree(c, type, name) THEN c
    ELSE [c EXCEPT !.data[Fresh(c)] = [name |-> name, owner |-> owner],
                   !.objects = Append(@, [type |-> type, name |-> name, active |-> TRUE,
                                          data |-> Fresh(c)]),
                   !.dirty = TRUE]

\* op on object i, if it is of the type and belongs to table t.
OnPart(c, i, type, t, op(_, _)) ==
    IF c = Faulty \/ c.objects[i].type # type \/ ~c.objects[i].active THEN c
    ELSE IF DataOf(c, i) = Freed THEN Faulty
    ELSE IF BelongsTo(c, i, t) THEN op(c, i) ELSE c

\* The loops over a table's columns, then over its indexes.
ForParts(c, t, op(_, _)) ==
    LET loop(d, type) == FoldLeftDomain(LAMBDA e, i : OnPart(e, i, type, t, op), d, d.objects)
    IN  loop(loop(c, "column"), "index")

-----------------------------------------------------------------------------
(* Operations.                                                              *)

MayFail == {"index"} \X Unreliable

\* The files of the objects in new are written, those in gone removed; nothing
\* is told of a failure.
Write(new, gone) ==
    \E skip \in SUBSET (MayFail \cap (new \cup gone)) :
       files' = (files \ (gone \ skip)) \cup (new \ skip)

\* The catalogue becomes c, with files for new objects and none for deleted ones.
Become(c) ==
    LET new == {KeyOf(c.objects[i]) : i \in DOMAIN c.objects \ DOMAIN cat.objects}
        gone == {KeyOf(cat.objects[i]) :
                   i \in {j \in DOMAIN cat.objects : cat.objects[j].active
                                                     /\ ~c.objects[j].active}}
    IN  /\ Len(c.objects) <= MaxObjects
        /\ cat' = c
        /\ IF c = Faulty THEN UNCHANGED files ELSE Write(new, gone)

\* metadata_create_table, _column and _index.  The table of a column is not
\* looked for.
Create(type, name, owner) ==
    /\ Ok
    /\ IsFree(cat, type, name)
    /\ Become(Created(cat, type, name, owner))

\* The list is lost when it cannot be enlarged.
CreateFails(type, name) ==
    /\ Ok
    /\ IsFree(cat, type, name)
    /\ cat.objects # <<>>
    /\ Become(Faulty)

\* metadata_update_table, _column and _index, with data of the caller's that name
\* the same table.  They are given the block of the data they replace if nothing
\* else points to it.
Update(type, name) ==
    LET i == Lookup(cat, type, name)
        old == cat.objects[i].data
        d == IF \E j \in DOMAIN cat.objects : j # i /\ cat.objects[j].data = old
               THEN Fresh(cat) ELSE old
    IN  /\ Ok
        /\ i # 0
        /\ Become(IF DataOf(cat, i) = Freed THEN Faulty
                  ELSE [cat EXCEPT !.data[old] = Freed,
                                   !.data[d] = [DataOf(cat, i) EXCEPT !.name = name],
                                   !.objects[i].data = d, !.dirty = TRUE])

\* To drop or rename what is not found has no effect, unless freed data are read.
DropPart(type, name, t) ==
    LET i == LookupPart(cat, type, name, t)
    IN  /\ Ok
        /\ \/ ReadsFreed(cat, type, i) /\ Become(Faulty)
           \/ i # 0 /\ ~ReadsFreed(cat, type, i) /\ Become(Deleted(cat, type, name))

\* Slip: the table's indexes stay.
DropTableKeepsIndexes(t) ==
    LET drop(c, i) == IF c.objects[i].type = "index" THEN c
                      ELSE Deleted(c, c.objects[i].type, DataOf(c, i).name)
    IN  /\ Ok
        /\ Become(Deleted(ForParts(cat, t, drop), "table", t))

\* The parts are found by the data and deleted by the name the data hold.
DropTable(t) ==
    LET drop(c, i) == Deleted(c, c.objects[i].type, DataOf(c, i).name)
    IN  /\ Ok
        /\ Become(Deleted(ForParts(cat, t, drop), "table", t))

\* metadata_rename_column, metadata_rename_index: the object keeps its name.
RenamePart(type, t, old, new) ==
    LET i == LookupPart(cat, type, old, t)
        d == cat.objects[i].data
    IN  /\ Ok
        /\ \/ ReadsFreed(cat, type, i) /\ Become(Faulty)
           \/ /\ i # 0 /\ ~ReadsFreed(cat, type, i)
              /\ Become(Attached([cat EXCEPT !.data[d].name = new], type, new, d))

\* The update succeeds only if there is a table of the new name, whose data are
\* lost then; the parts follow only in that case, each freeing its own data.
RenameTable(old, new) ==
    LET i == Lookup(cat, "table", old)
        d == cat.objects[i].data
        renamed == [cat EXCEPT !.data[d].name = new]
        follow(c, j) == Attached([c EXCEPT !.data[c.objects[j].data].owner = new],
                                 c.objects[j].type, DataOf(c, j).name, c.objects[j].data)
    IN  /\ Ok
        /\ i # 0
        /\ Become(IF DataOf(cat, i) = Freed THEN Faulty
                  ELSE IF Lookup(cat, "table", new) = 0 THEN renamed
                  ELSE ForParts(Attached(renamed, "table", new, d), old, follow))

\* A column keeps its name, an index gets a new one; what cannot be created, or
\* allocated, is left out.
CloneTable(source, target) ==
    LET copies(S) ==
          LET copy(c, i) ==
                LET o == DataOf(c, i)
                IN  IF i \notin S THEN c
                    ELSE IF c.objects[i].type = "column" THEN Created(c, "column", o.name, target)
                    ELSE Created(c, "index", CloneName[o.name], target)
          IN  ForParts(Created(cat, "table", target, NoTable), source, copy)
        i == Lookup(cat, "table", source)
        parts == {j \in DOMAIN cat.objects : BelongsTo(cat, j, source)}
    IN  /\ Ok
        /\ i # 0
        /\ IF DataOf(cat, i) = Freed THEN Become(Faulty)
           ELSE /\ IsFree(cat, "table", target)
                /\ \A j \in parts : cat.objects[j].type = "index"
                                    => DataOf(cat, j).name \in DOMAIN CloneName
                /\ \E S \in SUBSET parts : Become(copies(S))

\* Slip: the file of a deleted object is written again.
SavedAll == {KeyOf(cat.objects[i]) : i \in DOMAIN cat.objects}

Saved == {KeyOf(cat.objects[i]) : i \in {j \in DOMAIN cat.objects : cat.objects[j].active}}

\* metadata_save succeeds whichever of the files could not be written.
Save ==
    /\ Ok
    /\ IF \E type \in {"table"} \cup Part : ReadsFreed(cat, type, 0)
         THEN cat' = Faulty /\ UNCHANGED files
         ELSE cat' = [cat EXCEPT !.dirty = FALSE] /\ Write(Saved, {})

\* metadata_manager_destroy, which saves what is not saved yet and frees the
\* data of every object.
Destroy ==
    LET twice == \E i, j \in DOMAIN cat.objects :
                    \/ DataOf(cat, i) = Freed
                    \/ i # j /\ cat.objects[i].data = cat.objects[j].data
    IN  /\ Ok
        /\ cat' = Empty(IF twice THEN "aborted" ELSE "destroyed")
        /\ IF cat.dirty THEN Write(Saved, {}) ELSE UNCHANGED files

Manage ==
    \/ \E t \in TableName : \/ Create("table", t, NoTable) \/ Update("table", t)
                            \/ CreateFails("table", t) \/ DropTable(t)
    \/ \E s, t \in TableName : CloneTable(s, t)

ManagePart ==
    \E type \in Part : \E n \in PartName(type) :
       \/ CreateFails(type, n) \/ Update(type, n)
       \/ \E t \in TableName : Create(type, n, t) \/ DropPart(type, n, t)

Rename ==
    \/ \E s, t \in TableName : RenameTable(s, t)
    \/ \E type \in Part : \E m, n \in PartName(type), t \in TableName : RenamePart(type, t, n, m)

Next ==
    \/ (Manage \/ ManagePart \/ Save \/ Destroy) /\ UNCHANGED renames
    \/ renames < MaxRenames /\ Rename /\ renames' = renames + 1

Spec == Init /\ [][Next]_vars

-----------------------------------------------------------------------------
(* Properties.                                                              *)

\* No two objects of a type have one name, whatever was dropped, renamed and
\* cloned before: a lookup and a file mean one object (metadata.c:623-629).
NamesUnique ==
    \A i, j \in DOMAIN cat.objects : KeyOf(cat.objects[i]) = KeyOf(cat.objects[j]) => i = j

\* The files are those of the objects that were not dropped, through every
\* save, unless a file cannot be written or removed (metadata.c:603, 769-773,
\* 944).
FilesOfActive ==
    Ok => files \ MayFail
            = {KeyOf(cat.objects[i]) : i \in {j \in DOMAIN cat.objects : cat.objects[j].active}}
              \ MayFail

\* Objects whose data still have the object's name.
Unrenamed(c) == \A i \in DOMAIN c.objects : DataOf(c, i).name = c.objects[i].name

\* A step: a table that is dropped takes its columns and indexes with it, those
\* it got by cloning too, as long as nothing was renamed (metadata.c:996-1027).
UnrenamedDropTakesParts ==
    \A t \in TableName :
       cat'.proc = "ok" /\ Unrenamed(cat) /\ DropTable(t)
       => \A i \in DOMAIN cat'.objects : ~BelongsTo(cat', i, t)

\* A step: whatever was renamed before, a table that is dropped takes its columns
\* and indexes with it, as metadata.c:995 says.
DropTakesParts ==
    \A t \in TableName :
       cat'.proc = "ok" /\ DropTable(t)
       => \A i \in DOMAIN cat'.objects : ~BelongsTo(cat', i, t)

=============================================================================
