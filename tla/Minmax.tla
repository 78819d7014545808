-------------------------------- MODULE Minmax -------------------------------
(* The range printer of the tutorial (processors/minmax/minmax.c and          *)
(* mminit.c): one static pair for all files, set by file, narrowed by exec,    *)
(* printed by finish.                                                          *)
EXTENDS Program

CONSTANTS
    Values,         \* the integers a program writes
    INT_MAX, INT_MIN

ASSUME MinmaxAssumption ==
    /\ INT_MIN \in Int /\ INT_MAX \in Int /\ INT_MIN <= INT_MAX
    /\ \A v \in Values : v \in Int /\ INT_MIN <= v /\ v <= INT_MAX

VARIABLES
    minmax,     \* the static pair
    printed,    \* what finish printed last: [file, range], or NULL
    values,     \* history: the integers written to each file since it was opened
    disturbed   \* history: the files during whose life another open was announced

minmaxVars == <<minmax, printed, values, disturbed>>

Unset == <<INT_MAX, INT_MIN>>
Flag == <<-42, -42>>
SizeofInt == 4

\* exec's loop over a write's integers.
Narrowed(range, seen) ==
    <<CHOOSE v \in seen \cup {range[1]} : \A w \in seen \cup {range[1]} : v <= w,
      CHOOSE v \in seen \cup {range[2]} : \A w \in seen \cup {range[2]} : v >= w>>

MinmaxInit ==
    /\ ProgramInit
    /\ minmax = <<0, 0>>
    /\ printed = NULL
    /\ values = [f \in Files |-> {}]
    /\ disturbed = {}

\* The two histories at an open.
Announced(f) ==
    \/ /\ Opens(f)
       /\ values' = [values EXCEPT ![f] = {}]
       /\ disturbed' = IF live = {} THEN disturbed \ {f} ELSE disturbed \cup live'
    \/ /\ Refuses(f)
       /\ disturbed' = disturbed \cup live
       /\ UNCHANGED values

\* Mutant: the pair is set up once only.
MinmaxFileOnce(f) ==
    /\ Announced(f)
    /\ minmax' = IF minmax = <<0, 0>> THEN Unset ELSE minmax
    /\ UNCHANGED <<printed, dead>>

MinmaxFile(f) ==
    /\ Announced(f)
    /\ minmax' = Unset
    /\ UNCHANGED <<printed, dead>>

\* exec: the whole integers of a write; bytes after the last are not looked at.
MinmaxExec(f, n) ==
    /\ Writes(f, n)
    /\ \E seen \in {s \in SUBSET Values :
                       IF n < SizeofInt THEN s = {} ELSE s # {}} :
          /\ minmax' = Narrowed(minmax, seen)
          /\ values' = [values EXCEPT ![f] = @ \cup seen]
    /\ UNCHANGED <<printed, disturbed, dead>>

\* finish; minmax.c sets the pair to the red flag, mminit.c leaves it.
MinmaxFinish(f) ==
    /\ Closes(f)
    /\ printed' = [file |-> f, range |-> minmax]
    /\ minmax' \in {Flag, minmax}
    /\ UNCHANGED <<values, disturbed, dead>>

MinmaxNext ==
    \/ \E f \in Files : MinmaxFile(f) \/ MinmaxFinish(f)
    \/ \E f \in Files, n \in WriteSizes : MinmaxExec(f, n)

MinmaxSpec == MinmaxInit /\ [][MinmaxNext]_<<programVars, minmaxVars>>

-----------------------------------------------------------------------------

\* The range printed for a file is that of its own integers, whichever files came
\* before it, unless the file hook ran for another open, a failed one perhaps,
\* while it was being written (minmax.c's shared pair).
RangeOfItsFile ==
    printed # NULL /\ printed.file \notin live \cup disturbed =>
        printed.range = Narrowed(Unset, values[printed.file])

=============================================================================
