----------------------------- MODULE MCZoteroItem -----------------------------
(***************************************************************************)
(* Instances of ZoteroItem for TLC.  MaxRetry is 1 or 2 here and 3 in the  *)
(* program: what matters is that an exchange can be sent again at all and   *)
(* that it can run out of attempts.                                        *)
(***************************************************************************)
EXTENDS ZoteroItem

CONSTANTS k1, k2, coll

MCFields == {"collections", "relations"}
OneField == {"collections"}
MCElems == Keys \union {coll}
AnyStart == SUBSET MCElems
NoElements == {{}}

Do(kind, k, f, x) == [kind |-> kind, key |-> k, field |-> f, elem |-> x]

\* The four patchItemDerived operations and TrashItem, on one item.
EditOps == {Do(kind, k1, "collections", x) : kind \in {"add", "remove"}, x \in {coll}}
             \union {Do("trash", k1, "collections", coll)}

\* Linking one pair from either end, unlinking it, next to an edit of another field or
\* to the item's deletion.
LinkOps == {Do("link", k1, "relations", k2), Do("link", k2, "relations", k1),
            Do("link", k1, "relations", k1), Do("unlink", k1, "relations", k2),
            Do("add", k1, "collections", coll), Do("trash", k1, "collections", coll)}

\* Linking and unlinking, next to other programs writing the same array.
RelationOps == {Do("link", k1, "relations", k2), Do("unlink", k1, "relations", k2)}
=============================================================================
