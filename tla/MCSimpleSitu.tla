---------------------------- MODULE MCSimpleSitu ----------------------------
(* Instances of SimpleSitu: one or two libraries in two entries, so that a    *)
(* library may be shared, over three names: one that two entries match, one  *)
(* that one entry matches and one under /tmp; and a full table of patterns   *)
(* that match nothing.                                                      *)
EXTENDS SimpleSitu

CONSTANTS pa, pb, pn, l1, l2, weird, gone, both, one, tmp

Whole(p, l) == [form |-> "whole", pattern |-> p, lib |-> l]

MCPattern == {pa, pb, pn}
MCLib == {l1, l2, weird, gone}
MCName == {both, one, tmp}
MCTmp == {tmp}
MCGlob == {<<pa, both>>, <<pb, both>>, <<pb, one>>, <<pb, tmp>>}
MCLoadable == {l1, l2, weird}
MCExports ==
    [l \in MCLib |-> CASE l = l1 -> {"exec", "file", "finish"}
                       [] l = weird -> {"metadata"}
                       [] OTHER -> {"exec", "finish"}]
MCConfigs == {<<Whole(pa, l1), Whole(pb, l1)>>, <<Whole(pa, l1), Whole(pb, l2)>>,
              <<Whole(pn, l1), Whole(pn, l2), Whole(pn, l1)>>}

MCFPs == {"f1", "f2", "f3"}
MCReFileExec == {"file", "exec"}
MCReAll == {"file", "exec", "finish"}

=============================================================================
