----------------------------- MODULE TableStore -----------------------------
(****************************************************************************)
(* What a table of a storage engine promises (the interface of struct       *)
(* StorageEngine, storage/storage_engine.h): rows are known by numbers.  An *)
(* insertion appends, an update or a deletion touches the row with its      *)
(* number only, and an optimization drops rows that are gone, which changes *)
(* the numbers of those behind them.                                        *)
(****************************************************************************)
EXTENDS Integers, Sequences, FiniteSets

CONSTANTS
    Value,     \* contents of a row
    Gone,      \* what is found under a number that has no row any more
    MaxBatch   \* the most rows of one insertion

VARIABLE content  \* content[id]: the row under id, or Gone

Init == content = <<>>

\* A number may be used up by an insertion that fails.
Insert ==
    LET old == content
    IN  content' \in {old \o batch :
                        batch \in UNION {[1..n -> Value \cup {Gone}] : n \in 1..MaxBatch}}

Update ==
    LET old == content
    IN  \E id \in DOMAIN old, v \in Value : content' = [old EXCEPT ![id] = v]

Delete ==
    LET old == content
    IN  content' \in {[old EXCEPT ![id] = Gone] : id \in DOMAIN old}

\* Rows that are gone, all or some, are dropped.
Optimize ==
    \E S \in SUBSET {id \in DOMAIN content : content[id] = Gone} :
       LET kept == DOMAIN content \ S
           place(id) == Cardinality({j \in kept : j <= id})
       IN  content' = [n \in 1..Cardinality(kept) |->
                         content[CHOOSE id \in kept : place(id) = n]]

Next == Insert \/ Update \/ Delete \/ Optimize

Spec == Init /\ [][Next]_content
=============================================================================
