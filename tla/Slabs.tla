-------------------------------- MODULE Slabs --------------------------------
(* What a processor that works on slabs promises, whatever the sizes of the   *)
(* writes it is called with: a file's bytes come out in slabs of S bytes, in  *)
(* the order in which they were written, none left out, repeated or from      *)
(* another file. A byte is the file it was written to and its place there.    *)
(* Silo and Isosurf implement this specification.                             *)
EXTENDS Integers, Sequences

CONSTANTS Files, S, NULL

VARIABLES
    owner,      \* the file whose bytes are taken, or NULL
    base,       \* where in the file the current slab begins
    taken,      \* how many bytes of it have been taken
    out         \* the slabs that have been handed on

slabVars == <<owner, base, taken, out>>

Slab(f, from) == [b \in 0 .. S - 1 |-> <<f, from + b>>]

SlabsInit == owner = NULL /\ base = 0 /\ taken = 0 /\ out = <<>>

Begin(f) ==
    /\ owner = NULL
    /\ owner' = f
    /\ base' = 0 /\ taken' = 0 /\ out' = <<>>

Take(n) ==
    /\ owner # NULL
    /\ taken + n < S
    /\ taken' = taken + n
    /\ UNCHANGED <<owner, base, out>>

Complete ==
    /\ owner # NULL
    /\ out' = Append(out, Slab(owner, base))
    /\ base' = base + S
    /\ taken' = 0
    /\ UNCHANGED owner

End ==
    /\ owner # NULL
    /\ owner' = NULL
    /\ base' = 0 /\ taken' = 0 /\ out' = <<>>

SlabsNext ==
    \/ \E f \in Files : Begin(f)
    \/ \E n \in 1 .. S - 1 : Take(n)
    \/ Complete
    \/ End

SlabsSpec == SlabsInit /\ [][SlabsNext]_slabVars

=============================================================================
