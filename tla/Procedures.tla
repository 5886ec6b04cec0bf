----------------------------- MODULE Procedures -----------------------------
(****************************************************************************)
(* procedure/procedure.c: procedures and triggers, each kind in an array of *)
(* fixed size.  The optional parts of an object are assigned only when they *)
(* are given: what is not given stays as it is in the slot, and a slot that *)
(* a drop left keeps the pointers of what was in it.  Of the parts of a     *)
(* procedure the schema is one, which searches read, and the parameters and *)
(* the return type, which only drops free, are another.                     *)
(*                                                                          *)
(* A parameter is given with its default value, without which its pointer   *)
(* is never written.  An allocation that fails, which the code does not     *)
(* look at, is left out.  Executing and firing do nothing but log, and so   *)
(* does, in the end, the flag that trigger_enable sets.                     *)
(****************************************************************************)
EXTENDS Integers, Sequences, SequencesExt, FiniteSetsExt

CONSTANTS
    ObjectName, Schema,
    NoSchema,     \* NULL
    MaxObjects,   \* MAX_PROCEDURES, MAX_TRIGGERS
    MaxCreated    \* bound: objects created in a run

ProceduresAssumption ==
    /\ NoSchema \notin Schema /\ ObjectName # {}
    /\ MaxObjects \in Nat \ {0} /\ MaxCreated \in Nat

VARIABLES
    slots,        \* slots[kind]: the array
    inUse,        \* procedure_count, trigger_count
    schemaOf,     \* the schema each object was created in
    liveSchemas,  \* the objects whose schema is allocated
    liveParts,    \* those whose other parts are
    process,      \* how the process is doing
    created,      \* history: objects created so far
    whole,        \* history: each of them was given all its parts
    there         \* history: those that were not dropped

heapVars == <<schemaOf, liveSchemas, liveParts>>
pastVars == <<created, whole, there>>
procedureVars == <<slots, inUse, heapVars, process, pastVars>>

ObjectKind == {"procedure", "trigger"}

Id == 1..MaxCreated

\* A pointer is known by the object it was allocated for.
Null == 0
Wild == -1  \* what happens to be in memory that was never written
Pointer == {Wild, Null} \cup Id

Slot == [id : {Null} \cup Id, name : ObjectName, schema : Pointer, part : Pointer]

ProceduresTypeOK ==
    /\ slots \in [ObjectKind -> [1..MaxObjects -> Slot]]
    /\ inUse \in [ObjectKind -> 0..MaxObjects]
    /\ schemaOf \in [Id -> Schema \cup {NoSchema}]
    /\ liveSchemas \subseteq Id /\ liveParts \subseteq Id
    /\ process \in {"ok", "undefined", "destroyed"}
    /\ created \in {0} \cup Id /\ whole \in BOOLEAN

\* procedure_manager_create.  The arrays come from malloc.
ProceduresInit ==
    /\ \E p \in {Null, Wild} :
          slots = [kind \in ObjectKind |-> [i \in 1..MaxObjects |->
                     [id |-> Null, name |-> CHOOSE n \in ObjectName : TRUE,
                      schema |-> p, part |-> IF kind = "trigger" THEN Null ELSE p]]]
    /\ inUse = [kind \in ObjectKind |-> 0]
    /\ schemaOf = [id \in Id |-> NoSchema]
    /\ liveSchemas = {} /\ liveParts = {}
    /\ process = "ok"
    /\ created = 0 /\ whole = TRUE /\ there = {}

Used(kind) == SubSeq(slots[kind], 1, inUse[kind])

\* A search reads the schema of a slot with the name, unless none is asked for.
ReadsFreed(o, n, s) ==
    o.name = n /\ s # NoSchema /\ o.schema \notin liveSchemas \cup {Null}

Matches(o, n, s) ==
    o.name = n /\ (s = NoSchema \/ o.schema = Null \/ schemaOf[o.schema] = s)

\* The place at which a search ends, 0 when nothing is found.
FindObject(kind, n, s) ==
    SelectInSeq(Used(kind), LAMBDA o : ReadsFreed(o, n, s) \/ Matches(o, n, s))

Undefined == process' = "undefined" /\ UNCHANGED <<slots, inUse, heapVars, pastVars>>

\* A search meets a schema that was freed or never written.
SearchFails ==
    /\ process = "ok"
    /\ \E kind \in ObjectKind, n \in ObjectName, s \in Schema :
          LET i == FindObject(kind, n, s)
          IN  i # 0 /\ ReadsFreed(slots[kind][i], n, s)
    /\ Undefined

\* procedure_create, trigger_create, which has no other part.
CreateObject(kind, n, s, part) ==
    LET id == created + 1
        i == inUse[kind] + 1
    IN  /\ process = "ok"
        /\ FindObject(kind, n, s) = 0
        /\ inUse[kind] < MaxObjects /\ created < MaxCreated
        /\ part => kind = "procedure"
        /\ slots' = [slots EXCEPT ![kind][i] =
                       [id |-> id, name |-> n,
                        schema |-> IF s = NoSchema THEN @.schema ELSE id,
                        part |-> IF part THEN id ELSE @.part]]
        /\ inUse' = [inUse EXCEPT ![kind] = i]
        /\ schemaOf' = [schemaOf EXCEPT ![id] = s]
        /\ liveSchemas' = liveSchemas \cup IF s = NoSchema THEN {} ELSE {id}
        /\ liveParts' = liveParts \cup IF part THEN {id} ELSE {}
        /\ created' = id
        /\ whole' = (whole /\ s # NoSchema /\ (part <=> kind = "procedure"))
        /\ there' = there \cup {id}
        /\ UNCHANGED process

\* Slip: one object less is moved.
MovedShort(array, i, used) ==
    [j \in DOMAIN array |-> IF i <= j /\ j < used - 1 THEN array[j + 1] ELSE array[j]]

\* The memmove of a drop: the slot after the last keeps what is in it.
Moved(array, i, used) ==
    [j \in DOMAIN array |-> IF i <= j /\ j < used THEN array[j + 1] ELSE array[j]]

\* procedure_drop, trigger_drop
DropObject(kind, n, s) ==
    LET i == FindObject(kind, n, s)
        o == slots[kind][i]
    IN  /\ process = "ok"
        /\ i # 0 /\ ~ReadsFreed(o, n, s)
        /\ IF o.schema \in liveSchemas \cup {Null} /\ o.part \in liveParts \cup {Null}
             THEN /\ slots' = [slots EXCEPT ![kind] = Moved(@, i, inUse[kind])]
                  /\ inUse' = [inUse EXCEPT ![kind] = @ - 1]
                  /\ liveSchemas' = liveSchemas \ {o.schema}
                  /\ liveParts' = liveParts \ {o.part}
                  /\ there' = there \ {o.id}
                  /\ UNCHANGED <<schemaOf, process, created, whole>>
             ELSE Undefined

\* procedure_manager_destroy frees the parts of all objects.
DestroyManager ==
    LET all == Used("procedure") \o Used("trigger")
        Apart(field, alive) ==
          /\ \A i \in DOMAIN all : all[i][field] \in alive \cup {Null}
          /\ \A i, j \in DOMAIN all :
                all[i][field] = all[j][field] => i = j \/ all[i][field] = Null
    IN  /\ process = "ok"
        /\ IF Apart("schema", liveSchemas) /\ Apart("part", liveParts)
             THEN /\ process' = "destroyed"
                  /\ liveSchemas' = liveSchemas \ {all[i].schema : i \in DOMAIN all}
                  /\ liveParts' = liveParts \ {all[i].part : i \in DOMAIN all}
                  /\ UNCHANGED <<slots, inUse, schemaOf, pastVars>>
             ELSE Undefined

ProceduresNext ==
    \/ \E kind \in ObjectKind, n \in ObjectName, s \in Schema \cup {NoSchema} :
          DropObject(kind, n, s) \/ \E part \in BOOLEAN : CreateObject(kind, n, s, part)
    \/ SearchFails \/ DestroyManager

ProceduresSpec == ProceduresInit /\ [][ProceduresNext]_procedureVars

-----------------------------------------------------------------------------
(* Properties.                                                              *)

\* As long as all objects are created with all their parts, no pointer is used
\* that does not point to what was allocated for its object, through any drops
\* and slots used again, and nothing is lost: what is allocated belongs to the
\* objects there are (procedure.c:40-72, 92-123, 126-154, 186-239).
PartsOwned ==
    whole =>
      /\ process # "undefined"
      /\ process = "ok" =>
           /\ liveSchemas = there
           /\ \A kind \in ObjectKind, i \in 1..MaxObjects :
                i <= inUse[kind] => slots[kind][i].schema = slots[kind][i].id
           /\ liveParts = {o.part : o \in ToSet(Used("procedure"))}
      /\ process = "destroyed" => liveSchemas = {} /\ liveParts = {}

\* Then a search finds, among the objects that were created and not dropped, the
\* one with the name and the schema, and without a schema the first that was
\* created (procedure.c:171-183, 273-285).
SearchesExact ==
    whole =>
      \A kind \in ObjectKind, n \in ObjectName, s \in Schema \cup {NoSchema} :
         LET found == {o \in ToSet(Used(kind)) : o.name = n /\ s \in {NoSchema, schemaOf[o.id]}}
             i == FindObject(kind, n, s)
         IN  process = "ok" =>
               /\ {o.id : o \in ToSet(Used("procedure")) \cup ToSet(Used("trigger"))} = there
               /\ IF found = {} THEN i = 0
                  ELSE slots[kind][i].id = Min({o.id : o \in found})
               /\ s # NoSchema => Cardinality(found) <= 1
=============================================================================
