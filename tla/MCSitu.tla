-------------------------------- MODULE MCSitu --------------------------------
(* The two environments in which the stdio interposer's invariants hold: file *)
(* and exec hooks that use stdio, with opens that succeed; and opens that     *)
(* may fail, with exec hooks alone that use stdio. Also every configuration  *)
(* of up to four lines over the kinds of line the loader tells apart, for a   *)
(* program that opens no file.                                              *)
EXTENDS MCSimpleSitu

VARIABLE part

(* At most one cut or bad text per file; four lines overfill the table. *)
MCLine ==
    [form : {"whole"}, pattern : {pa, pb}, lib : MCLib]
        \cup [form : {"cut", "bad"}, pattern : {pb}, lib : {l1, weird}]
MCTables ==
    UNION {[1..n -> MCLine] : n \in 0..3}
        \cup {<<x, y, x, z>> : x, y \in {Whole(p, l) : p \in {pa, pb}, l \in {l1, l2}},
                               z \in MCLine}
MCAllConfigs == MCConfigs \cup MCTables

Failing == INSTANCE SimpleSitu WITH OpensFail <- TRUE, Reentrant <- {"exec"}, MaxDepth <- 3

SituParts ==
    /\ Init
    /\ part \in IF cfg \in MCConfigs THEN {"nesting", "failing"} ELSE {"table"}

NextPart ==
    /\ CASE part = "nesting" -> Next
         [] part = "failing" -> Failing!Next
         [] part = "table" -> FprocNext /\ UNCHANGED situVars
    /\ UNCHANGED part

SituSpec == SituParts /\ [][NextPart]_<<vars, part>>

=============================================================================
