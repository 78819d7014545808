----------------------------- MODULE MCPosixSitu -----------------------------
(* Two environments.  Partial: writes are interrupted and cut short.  Errors: *)
(* they fail as well, descriptors are closed without close(), somebody       *)
(* writes to descriptor 0, and one of the names is below /dev.  One library  *)
(* for the program's output and one that also matches what the first writes. *)
EXTENDS PosixSitu

CONSTANTS pa, pb, l1, l2, out, log, dev, tty

Whole(p, l) == [form |-> "whole", pattern |-> p, lib |-> l]

MCPattern == {pa, pb}
MCLib == {l1, l2}
MCName == {out, log, dev, tty}
MCOutside == {dev}
MCGlob == {<<pa, out>>, <<pa, dev>>, <<pb, out>>, <<pb, log>>}
MCExports == [l \in MCLib |-> IF l = l1 THEN {"exec", "file", "finish"} ELSE {"exec"}]
MCConfigs == {<<Whole(pa, l1), Whole(pb, l2)>>}
Partial == [fds |-> 3, opens |-> {out, log}, sizes |-> {2},
            faults |-> {"partial"}, stdin |-> FALSE, bypass |-> FALSE]
Errors == [fds |-> 1, opens |-> {out, dev}, sizes |-> {1, 2},
           faults |-> {"partial", "error"}, stdin |-> TRUE, bypass |-> TRUE]
MCEnvironments == {Partial, Errors}

=============================================================================
