---------------------------- MODULE FprocProofs ----------------------------
(* The safety of the processor table, for every configuration, every set of *)
(* libraries and every table size.                                          *)
EXTENDS Fproc, TLAPS

EntryOf(k) == [pattern |-> cfg[k].pattern, lib |-> cfg[k].lib]

(* Every installed entry holds the reference its own line obtained. *)
EntryHeld ==
    \A e \in Entry : tlibs[e].pattern # NULL =>
        e \in refs /\ e \in 1..Len(cfg) /\ tlibs[e] = EntryOf(e)

(* Before the exit, exactly the lines before i are installed. *)
PrefixInstalled ==
    phase \in {"loading", "running"} =>
        /\ \A e \in Entry : e < i => /\ e \in 1..Len(cfg) /\ Good(e)
                                     /\ tlibs[e] = EntryOf(e)
        /\ \A e \in Entry : e >= i => tlibs[e] = NoProc
        /\ phase = "running" /\ i \in Entry /\ i <= Len(cfg) => ~Good(i)

(* During the exit nothing is left before i, and no hole beyond it. *)
RestInstalled ==
    phase \in {"unloading", "closing", "done"} =>
        /\ \A e \in Entry : e < i => tlibs[e].pattern = NULL
        /\ \A e, d \in Entry : i <= d /\ d <= e /\ tlibs[e].pattern # NULL
                                   => tlibs[d].pattern # NULL

(* A reference belongs to an installed entry or to the line given up on. *)
RefsOwned ==
    \A k \in refs :
        \/ k \in Entry /\ tlibs[k].pattern # NULL
        \/ ~Good(k) /\ phase # "loading" /\ \A j \in 1..(k - 1) : Good(j)

Progress ==
    /\ phase = "closing" => i \in Entry /\ tlibs[i].pattern # NULL
    /\ phase = "done" => i > MAX_FREEPROCS

FprocInv ==
    /\ FprocTypeOK
    /\ EntryHeld
    /\ PrefixInstalled
    /\ RestInstalled
    /\ RefsOwned
    /\ Progress

-----------------------------------------------------------------------------

(* A line of a configuration names a pattern and a library, never NULL. *)
LEMMA LineFacts ==
    ASSUME FprocTypeOK, NEW k \in 1..Len(cfg)
    PROVE  /\ cfg[k].pattern \in Pattern /\ cfg[k].lib \in Lib
           /\ cfg[k].pattern # NULL
           /\ EntryOf(k) \in [pattern : Pattern \cup {NULL}, lib : Lib \cup {NULL}]
           /\ EntryOf(k).pattern # NULL
           /\ EntryOf(k).lib = cfg[k].lib
<1>1. cfg \in Seq(Line)
  BY FprocAssumption DEF FprocTypeOK
<1>2. cfg[k] \in Line
  BY <1>1
<1> QED
  BY <1>2, FprocAssumption DEF Line, EntryOf

LEMMA LenFact == ASSUME FprocTypeOK PROVE Len(cfg) \in Nat
BY FprocAssumption DEF FprocTypeOK

(* The table starts empty. *)
LEMMA FprocInitInv == FprocInit => FprocInv
BY FprocAssumption
DEF FprocInit, FprocInv, FprocTypeOK, EntryHeld, PrefixInstalled, RestInstalled,
    RefsOwned, Progress, NoProc, Entry

(* Every step of the loader keeps the invariant. *)
LEMMA FprocStepInv == FprocInv /\ [FprocNext]_fprocVars => FprocInv'
<1> SUFFICES ASSUME FprocInv, [FprocNext]_fprocVars PROVE FprocInv'
  OBVIOUS
<1> USE FprocAssumption DEF Entry, Full, AtEnd
<1>0. Len(cfg) \in Nat
  BY LenFact DEF FprocInv
<1>1. CASE LoadEntry
  <2>1. /\ i \in Entry /\ i \in 1..Len(cfg) /\ cfg' = cfg /\ phase' = phase
        /\ tlibs' = [tlibs EXCEPT ![i] = EntryOf(i)]
        /\ refs' = refs \cup {i} /\ i' = i + 1 /\ phase = "loading" /\ Good(i)
    BY <1>0, <1>1 DEF LoadEntry, FprocInv, FprocTypeOK, EntryOf
  <2>2. /\ EntryOf(i) \in [pattern : Pattern \cup {NULL}, lib : Lib \cup {NULL}]
        /\ EntryOf(i).pattern # NULL
    BY <2>1, LineFacts DEF FprocInv
  <2>3. \A k : (EntryOf(k))' = EntryOf(k) /\ (Good(k))' = Good(k)
    BY <2>1 DEF EntryOf, Good, Opens, Truncated
  <2>4. FprocTypeOK'
    BY <2>1, <2>2 DEF FprocInv, FprocTypeOK
  <2>5. EntryHeld'
    BY <2>1, <2>2, <2>3 DEF FprocInv, EntryHeld, FprocTypeOK
  <2>6. PrefixInstalled'
    BY <2>1, <2>2, <2>3 DEF FprocInv, PrefixInstalled, FprocTypeOK
  <2>7. RefsOwned'
    BY <2>1, <2>2, <2>3 DEF FprocInv, RefsOwned, FprocTypeOK
  <2> QED
    BY <2>1, <2>4, <2>5, <2>6, <2>7 DEF FprocInv, RestInstalled, Progress
<1>2. CASE LoadGiveUp
  <2>1. /\ i \in Entry /\ i \in 1..Len(cfg) /\ cfg' = cfg /\ phase' = "running"
        /\ tlibs' = tlibs /\ i' = i /\ refs' \subseteq refs \cup {i}
        /\ refs \subseteq refs' /\ phase = "loading" /\ ~Good(i)
    BY <1>0, <1>2 DEF LoadGiveUp, FprocInv, FprocTypeOK
  <2>2. \A k : (EntryOf(k))' = EntryOf(k) /\ (Good(k))' = Good(k)
    BY <2>1 DEF EntryOf, Good, Opens, Truncated
  <2>3. FprocTypeOK' /\ EntryHeld'
    BY <2>1, <2>2 DEF FprocInv, FprocTypeOK, EntryHeld
  <2>4. PrefixInstalled'
    BY <2>1, <2>2 DEF FprocInv, PrefixInstalled
  <2>5. \A j \in 1..(i - 1) : Good(j)
    BY <2>1 DEF FprocInv, FprocTypeOK, PrefixInstalled
  <2>6. RefsOwned'
    BY <2>1, <2>2, <2>5 DEF FprocInv, RefsOwned
  <2> QED
    BY <2>1, <2>3, <2>4, <2>6 DEF FprocInv, RestInstalled, Progress
<1>3. CASE LoadEnd
  <2>1. /\ cfg' = cfg /\ phase' = "running" /\ tlibs' = tlibs /\ i' = i
        /\ refs' = refs /\ phase = "loading" /\ ~(i \in Entry /\ i <= Len(cfg))
    BY <1>0, <1>3 DEF LoadEnd, FprocInv, FprocTypeOK
  <2>2. \A k : (EntryOf(k))' = EntryOf(k) /\ (Good(k))' = Good(k)
    BY <2>1 DEF EntryOf, Good, Opens, Truncated
  <2> QED
    BY <2>1, <2>2
    DEF FprocInv, FprocTypeOK, EntryHeld, PrefixInstalled, RestInstalled, RefsOwned, Progress
<1>4. CASE UnloadBegin
  <2>1. /\ cfg' = cfg /\ phase' = "unloading" /\ tlibs' = tlibs /\ i' = 1
        /\ refs' = refs /\ phase = "running"
    BY <1>4 DEF UnloadBegin
  <2>2. \A k : (EntryOf(k))' = EntryOf(k) /\ (Good(k))' = Good(k)
    BY <2>1 DEF EntryOf, Good, Opens, Truncated
  <2>3. \A e \in Entry : tlibs[e].pattern # NULL <=> e < i
    BY <2>1, LineFacts DEF FprocInv, FprocTypeOK, PrefixInstalled, NoProc
  <2>4. RestInstalled'
    BY <2>1, <2>3 DEF RestInstalled, FprocInv, FprocTypeOK
  <2> QED
    BY <2>1, <2>2, <2>4
    DEF FprocInv, FprocTypeOK, EntryHeld, PrefixInstalled, RefsOwned, Progress
<1>5. CASE UnloadSkip
  <2>1. /\ cfg' = cfg /\ phase' = phase /\ tlibs' = tlibs /\ i' = i + 1 /\ i \in Entry
        /\ refs' = refs /\ phase = "unloading" /\ tlibs[i].pattern = NULL
    BY <1>5 DEF UnloadSkip, FprocInv, FprocTypeOK
  <2>2. \A k : (EntryOf(k))' = EntryOf(k) /\ (Good(k))' = Good(k)
    BY <2>1 DEF EntryOf, Good, Opens, Truncated
  <2> QED
    BY <2>1, <2>2
    DEF FprocInv, FprocTypeOK, EntryHeld, PrefixInstalled, RestInstalled, RefsOwned, Progress
<1>6. CASE UnloadClose
  <2>1. /\ cfg' = cfg /\ phase' = "closing" /\ tlibs' = tlibs /\ i' = i /\ i \in Entry
        /\ refs' = refs /\ phase = "unloading" /\ tlibs[i].pattern # NULL
    BY <1>6 DEF UnloadClose, FprocInv, FprocTypeOK
  <2>2. \A k : (EntryOf(k))' = EntryOf(k) /\ (Good(k))' = Good(k)
    BY <2>1 DEF EntryOf, Good, Opens, Truncated
  <2> QED
    BY <2>1, <2>2
    DEF FprocInv, FprocTypeOK, EntryHeld, PrefixInstalled, RestInstalled, RefsOwned, Progress
<1>7. CASE UnloadFree
  <2>1. /\ cfg' = cfg /\ phase' = "unloading" /\ i' = i + 1 /\ i \in Entry
        /\ tlibs' = [tlibs EXCEPT ![i].pattern = NULL]
        /\ refs' = refs \ {i} /\ phase = "closing"
    BY <1>7 DEF UnloadFree, FprocInv, Progress
  <2>2. \A k : (EntryOf(k))' = EntryOf(k) /\ (Good(k))' = Good(k)
    BY <2>1 DEF EntryOf, Good, Opens, Truncated
  <2>3. /\ tlibs'[i].pattern = NULL
        /\ \A e \in Entry \ {i} : tlibs'[e] = tlibs[e]
    BY <2>1 DEF FprocInv, FprocTypeOK
  <2>4. FprocTypeOK'
    <3>1. [tlibs[i] EXCEPT !.pattern = NULL]
            \in [pattern : Pattern \cup {NULL}, lib : Lib \cup {NULL}]
      BY <2>1 DEF FprocInv, FprocTypeOK
    <3>2. tlibs' \in [Entry -> [pattern : Pattern \cup {NULL}, lib : Lib \cup {NULL}]]
      BY <2>1, <3>1 DEF FprocInv, FprocTypeOK
    <3> QED
      BY <2>1, <3>2 DEF FprocInv, FprocTypeOK
  <2>5. EntryHeld'
    BY <2>1, <2>2, <2>3 DEF FprocInv, EntryHeld
  <2>6. RestInstalled'
    BY <2>1, <2>3 DEF FprocInv, FprocTypeOK, RestInstalled
  <2>7. RefsOwned'
    BY <2>1, <2>2, <2>3 DEF FprocInv, RefsOwned
  <2> QED
    BY <2>1, <2>4, <2>5, <2>6, <2>7 DEF FprocInv, PrefixInstalled, Progress
<1>8. CASE UnloadEnd
  <2>1. /\ cfg' = cfg /\ phase' = "done" /\ tlibs' = tlibs /\ i' = i
        /\ refs' = refs /\ phase = "unloading" /\ i > MAX_FREEPROCS
    BY <1>8 DEF UnloadEnd
  <2>2. \A k : (EntryOf(k))' = EntryOf(k) /\ (Good(k))' = Good(k)
    BY <2>1 DEF EntryOf, Good, Opens, Truncated
  <2> QED
    BY <2>1, <2>2
    DEF FprocInv, FprocTypeOK, EntryHeld, PrefixInstalled, RestInstalled, RefsOwned, Progress
<1>9. CASE UNCHANGED fprocVars
  BY <1>9 DEF fprocVars, FprocInv, FprocTypeOK, EntryHeld, PrefixInstalled,
              RestInstalled, RefsOwned, Progress, EntryOf, Good, Opens, Truncated
<1> QED
  BY <1>1, <1>2, <1>3, <1>4, <1>5, <1>6, <1>7, <1>8, <1>9 DEF FprocNext, Load, Unload

-----------------------------------------------------------------------------
(* What the invariant says of the properties. *)

LEMMA InvVisibleMapped == FprocInv => VisibleMapped
<1> SUFFICES ASSUME FprocInv, NEW e \in Visible PROVE Mapped(tlibs[e].lib)
  BY DEF VisibleMapped
<1>1. e \in Entry /\ tlibs[e].pattern # NULL
  BY FprocAssumption DEF Visible, Entry
<1>2. e \in refs /\ cfg[e].lib = tlibs[e].lib
  BY <1>1, LineFacts DEF FprocInv, EntryHeld
<1> QED
  BY <1>2 DEF Mapped

LEMMA InvLongestPrefix == FprocInv => LongestPrefix
<1> SUFFICES ASSUME FprocInv, phase = "running", NEW e \in Entry
             PROVE  IF e <= Len(cfg) /\ \A k \in 1..e : Good(k)
                    THEN tlibs[e] = EntryOf(e)
                    ELSE tlibs[e] = NoProc
  BY DEF LongestPrefix, EntryOf
<1>1. i \in 1..(MAX_FREEPROCS + 1) /\ Len(cfg) \in Nat
  BY LenFact DEF FprocInv, FprocTypeOK
<1>2. CASE e < i
  BY <1>1, <1>2, FprocAssumption DEF FprocInv, PrefixInstalled, Entry
<1>3. CASE e >= i
  BY <1>1, <1>3, FprocAssumption DEF FprocInv, PrefixInstalled, Entry
<1> QED
  BY <1>1, <1>2, <1>3, FprocAssumption DEF Entry

LEMMA InvAllOrNothing == FprocInv => AllOrNothing
<1> SUFFICES ASSUME FprocInv
             PROVE  Visible \in {{}, {e \in Entry : tlibs[e].pattern # NULL}}
  BY DEF AllOrNothing
<1> USE FprocAssumption DEF Entry
<1>1. i \in 1..(MAX_FREEPROCS + 1) /\ 1 \in Entry
  BY DEF FprocInv, FprocTypeOK
<1>2. CASE tlibs[1].pattern = NULL
  BY <1>1, <1>2 DEF Visible
<1>3. CASE tlibs[1].pattern # NULL
  <2>1. \A e, d \in Entry : d <= e /\ tlibs[e].pattern # NULL => tlibs[d].pattern # NULL
    <3>1. CASE phase \in {"loading", "running"}
      BY <1>1, <3>1, LineFacts DEF FprocInv, PrefixInstalled, NoProc
    <3>2. CASE phase \in {"unloading", "closing", "done"}
      <4>1. i = 1
        BY <1>1, <1>3, <3>2 DEF FprocInv, RestInstalled
      <4> QED
        BY <4>1, <3>2 DEF FprocInv, RestInstalled
    <3> QED
      BY <3>1, <3>2 DEF FprocInv, FprocTypeOK
  <2> QED
    BY <2>1 DEF Visible
<1> QED
  BY <1>2, <1>3

LEMMA InvReferencesReturned == FprocInv => ReferencesReturned
<1> SUFFICES ASSUME FprocInv, phase = "done", NEW k \in refs
             PROVE  ~Good(k) /\ \A j \in 1..(k - 1) : Good(j)
  BY DEF ReferencesReturned
<1>1. \A e \in Entry : tlibs[e].pattern = NULL
  BY FprocAssumption DEF FprocInv, FprocTypeOK, RestInstalled, Progress, Entry
<1> QED
  BY <1>1 DEF FprocInv, RefsOwned

-----------------------------------------------------------------------------

THEOREM FprocInvariant == FprocSpec => []FprocInv
<1>1. FprocInit => FprocInv
  BY FprocInitInv
<1>2. FprocInv /\ [FprocNext]_fprocVars => FprocInv'
  BY FprocStepInv
<1> QED
  BY <1>1, <1>2, PTL DEF FprocSpec

(* Every state of the loader is well typed: the index never leaves the table *)
(* by more than one, however long the configuration file is.                 *)
THEOREM FprocTyped == FprocSpec => []FprocTypeOK
<1>1. FprocInv => FprocTypeOK
  BY DEF FprocInv
<1> QED
  BY <1>1, FprocInvariant, PTL

(* No dispatch, in any phase, reaches an entry whose library dlclose has     *)
(* unmapped (fproc.c:119-132 against the loops of 134-190).                  *)
THEOREM NeverIntoUnmapped == FprocSpec => []VisibleMapped
BY InvVisibleMapped, FprocInvariant, PTL

(* What runs is the longest installable prefix of the configuration.         *)
THEOREM RunsLongestPrefix == FprocSpec => []LongestPrefix
BY InvLongestPrefix, FprocInvariant, PTL

(* A scan reaches every installed entry or none (fproc.c:119-190).           *)
THEOREM ScanAllOrNothing == FprocSpec => []AllOrNothing
BY InvAllOrNothing, FprocInvariant, PTL

(* The two together: while entries are taken down one at a time, no dispatch  *)
(* meets half a table or a library that is gone.                             *)
THEOREM DispatchAlwaysSafe == FprocSpec => []DispatchSafe
<1>1. VisibleMapped /\ AllOrNothing => DispatchSafe
  BY DEF DispatchSafe
<1> QED
  BY <1>1, NeverIntoUnmapped, ScanAllOrNothing, PTL

(* At exit only the line loading gave up on can keep its library.            *)
THEOREM ExitReturnsReferences == FprocSpec => []ReferencesReturned
BY InvReferencesReturned, FprocInvariant, PTL

(* However many lines the configuration has and wherever loading gives up in  *)
(* it, what precedes that line runs, and at exit no other is still mapped.   *)
THEOREM TableStaysRight == FprocSpec => []TableRight
<1>1. LongestPrefix /\ ReferencesReturned => TableRight
  BY DEF TableRight
<1> QED
  BY <1>1, RunsLongestPrefix, ExitReturnsReferences, PTL

-----------------------------------------------------------------------------
(* The table as Tee's processors see it.                                      *)

(* Whoever matches is streamed to.                                            *)
AllStream == \A e \in Entry : tlibs[e].pattern # NULL => "exec" \in Exports[tlibs[e].lib]

LEMMA StreamInit == FprocInit => AllStream
BY DEF FprocInit, AllStream, NoProc

LEMMA StreamStep ==
    ASSUME FprocInv, AllStream, [FprocNext]_fprocVars
    PROVE  AllStream'
<1> USE DEF AllStream
<1>0. tlibs \in [Entry -> [pattern : Pattern \cup {NULL}, lib : Lib \cup {NULL}]]
  BY DEF FprocInv, FprocTypeOK
<1>1. CASE UNCHANGED tlibs
  BY <1>1
<1>2. CASE LoadEntry
  <2> DEFINE new == [pattern |-> cfg[i].pattern, lib |-> cfg[i].lib]
  <2>1. tlibs' = [tlibs EXCEPT ![i] = new] /\ "exec" \in Exports[new.lib]
    BY <1>2 DEF LoadEntry, Good
  <2> HIDE DEF new
  <2> QED
    BY <1>0, <2>1
<1>3. CASE UnloadFree
  <2>1. \A e \in Entry : tlibs'[e].pattern # NULL => tlibs'[e] = tlibs[e]
    BY <1>0, <1>3 DEF UnloadFree
  <2> QED
    BY <2>1
<1> QED
  BY <1>1, <1>2, <1>3 DEF FprocNext, Load, LoadGiveUp, LoadEnd, UnloadBegin, Unload,
                          UnloadSkip, UnloadClose, UnloadEnd, fprocVars

(* A name that matches has a processor to be streamed to.                     *)
LEMMA MatchesStream ==
    ASSUME AllStream, NEW name \in Name, matches(name)
    PROVE  Listening["exec"][name] # {}
<1>1. PICK e \in Visible : patternmatch(e, name)
  BY DEF matches
<1>2. e \in Entry /\ tlibs[e].pattern # NULL
  BY <1>1, FprocAssumption DEF Visible, Entry
<1>3. e \in Called("exec", name)
  BY <1>1, <1>2 DEF Called, AllStream
<1> QED
  BY <1>3 DEF Listening

LEMMA CalledEntries == ASSUME NEW h, NEW n PROVE Called(h, n) \subseteq Entry
BY DEF Called, Visible

LEMMA ListeningStays ==
    ASSUME cfg' = cfg, tlibs' = tlibs
    PROVE  Listening' = Listening
BY DEF Listening, Called, Visible, patternmatch

LEMMA StageStays == UNCHANGED phase => Stage' = Stage
BY DEF Stage

(* The loader installs; nobody who listens stops to.                          *)
LEMMA LoadInstalls ==
    ASSUME FprocInv, Load
    PROVE  /\ Stage = "starting" /\ Stage' \in {"starting", "running"}
           /\ \A h \in {"file", "exec", "finish"}, n \in Name :
                 Listening[h][n] \subseteq Listening'[h][n]
<1>1. phase = "loading" /\ phase' \in {"loading", "running"}
  BY DEF Load, LoadEntry, LoadGiveUp, LoadEnd
<1>2. Stage = "starting" /\ Stage' \in {"starting", "running"}
  BY <1>1 DEF Stage
<1>3. \A e \in Visible : e \in Visible' /\ tlibs'[e] = tlibs[e]
  <2>1. CASE UNCHANGED tlibs
    BY <2>1, FprocAssumption DEF Visible, Entry
  <2>2. CASE LoadEntry
    <3>1. i \in Entry /\ tlibs[i].pattern = NULL
      BY <2>2, <1>1, FprocAssumption
         DEF LoadEntry, Full, FprocInv, FprocTypeOK, PrefixInstalled, NoProc, Entry
    <3>2. \A e \in Visible : \A d \in 1 .. e : d # i /\ d \in Entry
      BY <3>1, FprocAssumption DEF Visible, Entry
    <3>3. \A d \in Entry : d # i => tlibs'[d] = tlibs[d]
      BY <2>2 DEF LoadEntry, FprocInv, FprocTypeOK
    <3>4. ASSUME NEW e \in Visible PROVE e \in Visible' /\ tlibs'[e] = tlibs[e]
      <4>1. e \in Entry /\ e \in 1 .. e /\ \A d \in 1 .. e : tlibs[d].pattern # NULL
        BY FprocAssumption DEF Visible, Entry
      <4>2. \A d \in 1 .. e : tlibs'[d] = tlibs[d]
        BY <3>2, <3>3
      <4> QED
        BY <4>1, <4>2 DEF Visible
    <3> QED
      BY <3>4
  <2> QED
    BY <2>1, <2>2 DEF Load, LoadGiveUp, LoadEnd
<1>4. \A h, n : Called(h, n) \subseteq Called(h, n)'
  BY <1>3 DEF Called, patternmatch
<1> QED
  BY <1>2, <1>4 DEF Listening

(* The unloader leaves everybody or nobody.                                   *)
LEMMA UnloadTakesDown ==
    ASSUME FprocInv, Unload
    PROVE  /\ Stage = "ending" /\ Stage' = "ending"
           /\ \/ Listening' = Listening
              \/ Listening' = [h \in {"file", "exec", "finish"} |-> [n \in Name |-> {}]]
<1>1. phase \in {"unloading", "closing"} /\ phase' \in {"unloading", "closing", "done"}
  BY DEF Unload, UnloadSkip, UnloadClose, UnloadFree, UnloadEnd
<1>2. Stage = "ending" /\ Stage' = "ending"
  BY <1>1 DEF Stage
<1>3. CASE cfg' = cfg /\ tlibs' = tlibs
  BY <1>2, <1>3, ListeningStays
<1>4. CASE UnloadFree
  <2>1. i \in Entry /\ phase = "closing" /\ i \in Nat /\ 1 \in Entry
    BY <1>4, FprocAssumption DEF UnloadFree, FprocInv, Progress, Entry
  <2>2. \A e \in Entry : e <= i => tlibs'[e].pattern = NULL
    BY <1>4, <2>1, FprocAssumption
       DEF UnloadFree, FprocInv, FprocTypeOK, RestInstalled, Entry
  <2>3. Visible' = {}
    BY <2>1, <2>2, FprocAssumption DEF Visible, Entry
  <2>4. \A h, n : Called(h, n)' = {}
    BY <2>3 DEF Called
  <2> QED
    BY <1>2, <2>4 DEF Listening
<1> QED
  BY <1>3, <1>4 DEF Unload, UnloadSkip, UnloadClose, UnloadEnd

LEMMA ExitEnds ==
    ASSUME UnloadBegin
    PROVE  Stage = "running" /\ Stage' = "ending" /\ Listening' = Listening
BY ListeningStays DEF UnloadBegin, Stage

=============================================================================
