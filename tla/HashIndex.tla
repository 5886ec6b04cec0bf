------------------------------ MODULE HashIndex ------------------------------
(****************************************************************************)
(* index/hash_index.c: buckets with chains of nodes, the newest first.  The *)
(* number of buckets never changes.  The hash function is a constant.  A    *)
(* call whose allocation fails leaves the index as it is, and is not seen.  *)
(****************************************************************************)
EXTENDS Integers, Sequences, SequencesExt

CONSTANTS
    Key, Value,
    Buckets,  \* as many as bucket_count
    Hash      \* hash_function: the bucket of a key

HashAssumption == Hash \in [Key -> Buckets]

VARIABLES
    chains,     \* the nodes of each bucket
    itemCount,  \* item_count
    stored      \* history: what was inserted last under a key and not deleted

vars == <<chains, itemCount, stored>>

Node == [key : Key, val : Value]

TypeOK ==
    /\ chains \in [Buckets -> Seq(Node)]
    /\ itemCount \in Nat
    /\ DOMAIN stored \subseteq Key /\ \A k \in DOMAIN stored : stored[k] \in Value

Init ==
    /\ chains = [b \in Buckets |-> <<>>]
    /\ itemCount = 0
    /\ stored = <<>>

\* The place of the key in its chain, 0 when it is not there.
Find(k) == SelectInSeq(chains[Hash[k]], LAMBDA n : n.key = k)

\* A new node comes to the head of the chain.
Insert(k, v) ==
    /\ chains' = [chains EXCEPT ![Hash[k]] =
                    IF Find(k) # 0 THEN [@ EXCEPT ![Find(k)].val = v]
                    ELSE <<[key |-> k, val |-> v]>> \o @]
    /\ itemCount' = itemCount + IF Find(k) = 0 THEN 1 ELSE 0
    /\ stored' = [x \in DOMAIN stored \cup {k} |-> IF x = k THEN v ELSE stored[x]]

\* Slip: the head is linked to what follows the node.
DeleteCutsChain(k) ==
    /\ Find(k) # 0
    /\ chains' = [chains EXCEPT ![Hash[k]] = SubSeq(@, Find(k) + 1, Len(@))]
    /\ itemCount' = itemCount - 1
    /\ stored' = [x \in DOMAIN stored \ {k} |-> stored[x]]

Delete(k) ==
    /\ Find(k) # 0
    /\ chains' = [chains EXCEPT ![Hash[k]] = RemoveAt(@, Find(k))]
    /\ itemCount' = itemCount - 1
    /\ stored' = [x \in DOMAIN stored \ {k} |-> stored[x]]

\* hash_index_get: the values it may answer, none for a key that is not there.
Get(k) == IF Find(k) = 0 THEN {} ELSE {chains[Hash[k]][Find(k)].val}

Next == \E k \in Key : Delete(k) \/ \E v \in Value : Insert(k, v)

Spec == Init /\ [][Next]_vars

-----------------------------------------------------------------------------
(* Properties.                                                              *)

\* The index answers with what was inserted last under the key, also for keys
\* that share a chain, and counts the keys (hash_index.c:95-189).
AnswersLast ==
    /\ \A k \in Key : Get(k) = IF k \in DOMAIN stored THEN {stored[k]} ELSE {}
    /\ itemCount = FoldFunction(LAMBDA c, n : n + Len(c), 0, chains)
    /\ \A k \in Key : Find(k) # 0 <=> k \in DOMAIN stored
=============================================================================
