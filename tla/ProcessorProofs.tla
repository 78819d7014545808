--------------------------- MODULE ProcessorProofs ---------------------------
(* Proofs about the processors, each loaded into a program with any number of *)
(* files. The silo and the isosurf processor implement Slabs for every size   *)
(* of grid and slice and every sequence of opens, failed ones too, and writes; *)
(* silo holds nothing back, and what isosurf runs between is always two slices *)
(* in a row. Then the small ones: which output a write goes to, which names   *)
(* are in the log, which images are drawn over, in which order a rank's files  *)
(* hold its writes, which range is printed.                                   *)
EXTENDS Silo, Isosurf, Provenance, Nek5k, Writers, Minmax, WellFoundedInduction, TLAPS


Byte == (Files \X Nat) \cup {NULL}
Buffer == [0 .. Volume - 1 -> Byte]
Call == [file : Files, from : Nat, n : Nat]

SiloTyped ==
    /\ overlap \in BOOLEAN /\ dead \in BOOLEAN
    /\ live \subseteq Files
    /\ sent \in [Files -> Nat]
    /\ slf \in Files \cup {NULL}
    /\ data \in Buffer \cup {NULL}
    /\ filled \in 0 .. Volume - 1
    /\ call \in Call \cup {NULL}
    /\ dumped \in Seq(Buffer)

Running == ~overlap /\ ~dead

(* With one file open at a time the buffer is in use only when there is a     *)
(* Silo file, this file's or one left from an open that failed.               *)
OneFile ==
    Running =>
        /\ \A f, g \in live : f = g
        /\ slf = NULL \/ live = {} => filled = 0 /\ dumped = <<>> /\ call = NULL
        /\ slf = NULL => \A f \in live : sent[f] = 0

(* The running call is one for this file, and its rest is what is missing.    *)
CallRight ==
    Running /\ call # NULL =>
        \A f \in live : call.file = f /\ call.from + call.n = sent[f]

(* What has been dumped and what is in the buffer is all that was handed on.  *)
Counted == Running /\ slf # NULL => \A f \in live : Base + filled = Handed(f)
Ordered ==
    Running /\ slf # NULL /\ data # NULL =>
        \A f \in live : \A b \in 0 .. filled - 1 : data[b] = <<f, Base + b>>

SiloInv == SiloTyped /\ OneFile /\ CallRight /\ Counted /\ Ordered

-----------------------------------------------------------------------------

(* One more grid is one more volume.                                          *)
LEMMA OneMore ==
    ASSUME NEW s, NEW x \in Buffer, s \in Seq(Buffer)
    PROVE  /\ Append(s, x) \in Seq(Buffer)
           /\ Len(s) \in Nat
           /\ Len(s) * Volume \in Nat
           /\ Len(Append(s, x)) * Volume = Len(s) * Volume + Volume
<1>1. Len(s) \in Nat /\ Len(Append(s, x)) = Len(s) + 1 /\ Append(s, x) \in Seq(Buffer)
  OBVIOUS
<1>2. Volume \in Nat
  BY SiloAssumption
<1>3. \A l \in Nat, v \in Nat : l * v \in Nat /\ (l + 1) * v = l * v + v
  OBVIOUS
<1> QED
  BY <1>1, <1>2, <1>3

(* What a copy of n bytes leaves in the buffer.                               *)
LEMMA CopiedRight ==
    ASSUME SiloTyped, data # NULL, call # NULL,
           NEW n \in Nat, n <= call.n, filled + n <= Volume
    PROVE  /\ Copied(n) \in Buffer
           /\ \A b \in 0 .. filled - 1 : Copied(n)[b] = data[b]
           /\ \A b \in filled .. filled + n - 1 :
                 Copied(n)[b] = <<call.file, call.from + (b - filled)>>
           /\ Rest(n) \in Call /\ Rest(n).file = call.file
           /\ Rest(n).from = call.from + n /\ Rest(n).n = call.n - n
<1> USE SiloAssumption DEF SiloTyped
<1>1. call \in Call /\ data \in Buffer
  OBVIOUS
<1>2. \A b \in 0 .. Volume - 1 :
        filled <= b => <<call.file, call.from + (b - filled)>> \in Byte
  BY <1>1 DEF Call, Byte
<1>3. \A b \in 0 .. Volume - 1 : data[b] \in Byte
  BY <1>1 DEF Buffer
<1>4. Copied(n) \in Buffer
  BY <1>2, <1>3 DEF Copied, Buffer
<1>5. \A b \in 0 .. filled - 1 : Copied(n)[b] = data[b]
  BY DEF Copied
<1>6. \A b \in filled .. filled + n - 1 :
         Copied(n)[b] = <<call.file, call.from + (b - filled)>>
  BY DEF Copied
<1>7. call.file \in Files /\ call.from \in Nat /\ call.n \in Nat
  BY <1>1 DEF Call
<1>8. call = [file |-> call.file, from |-> call.from, n |-> call.n]
  BY <1>1 DEF Call
<1>9. Rest(n).file = call.file /\ Rest(n).from = call.from + n /\ Rest(n).n = call.n - n
  BY <1>8 DEF Rest
<1>10. call.n - n \in Nat /\ call.from + n \in Nat
  BY <1>7
<1>11. Rest(n) \in Call
  BY ONLY <1>1, <1>10 DEF Call, Rest
<1> QED
  BY <1>4, <1>5, <1>6, <1>9, <1>11

-----------------------------------------------------------------------------

LEMMA SiloInitInv == SiloInit => SiloInv
<1> SUFFICES ASSUME SiloInit PROVE SiloInv
  OBVIOUS
<1> USE SiloAssumption, ProgramAssumption DEF SiloInit, ProgramInit
<1>1. SiloTyped
  <2>1. sent \in [Files -> Nat]
    OBVIOUS
  <2>2. filled \in 0 .. Volume - 1 /\ dumped \in Seq(Buffer)
    OBVIOUS
  <2> QED
    BY <2>1, <2>2 DEF SiloTyped
<1>2. OneFile /\ CallRight /\ Counted /\ Ordered
  BY DEF OneFile, CallRight, Counted, Ordered
<1> QED
  BY <1>1, <1>2 DEF SiloInv

(* File: an empty buffer, for a file that nothing was written to.             *)
LEMMA FileInv ==
    ASSUME SiloInv, NEW f \in Files, File(f)
    PROVE  SiloInv'
<1> USE SiloAssumption, ProgramAssumption DEF File, Opens, Refuses
<1>1. SiloTyped'
  <2>1. Zeros \in Buffer
    BY DEF Zeros, Buffer, Byte
  <2>2. data' \in Buffer \cup {NULL} /\ filled' \in 0 .. Volume - 1
    BY <2>1 DEF SiloInv, SiloTyped
  <2>3. sent' \in [Files -> Nat] /\ live' \subseteq Files
    BY DEF SiloInv, SiloTyped
  <2>4. slf' \in Files \cup {NULL} /\ call' \in Call \cup {NULL} /\ dumped' \in Seq(Buffer)
    BY DEF SiloInv, SiloTyped
  <2>5. overlap' \in BOOLEAN /\ dead' \in BOOLEAN
    BY DEF SiloInv, SiloTyped, File
  <2> QED
    BY <2>2, <2>3, <2>4, <2>5 DEF SiloTyped
<1>2. Running' => Running
  BY DEF SiloInv, SiloTyped, Running
<1>3. Running => filled = 0 /\ filled' = 0
  BY DEF SiloInv, SiloTyped, OneFile, Running
<1>4. call' = NULL /\ dumped' = <<>>
  BY DEF SiloInv, SiloTyped
<1>5. Running' => (\A g, h \in live' : g = h) /\ \A g \in live' : sent'[g] = 0
  <2>1. CASE Opens(f)
    BY <1>2, <2>1 DEF SiloInv, SiloTyped, Running
  <2>2. CASE Refuses(f)
    BY <1>2, <2>2 DEF SiloInv, SiloTyped, OneFile
  <2> QED
    BY <2>1, <2>2
<1>6. OneFile' /\ CallRight'
  BY <1>2, <1>3, <1>4, <1>5 DEF OneFile, CallRight
<1>7. Counted'
  BY <1>2, <1>3, <1>4, <1>5 DEF Counted, Base, Handed
<1>8. Ordered'
  BY <1>2, <1>3, <1>4 DEF Ordered
<1> QED
  BY <1>1, <1>6, <1>7, <1>8 DEF SiloInv

(* FileIgnored: there are several files, or the open fails, or one that did   *)
(* has left its Silo file, in which there is nothing yet.                     *)
LEMMA IgnoredInv ==
    ASSUME SiloInv, NEW f \in Files, FileIgnored(f)
    PROVE  SiloInv'
<1> USE SiloAssumption, ProgramAssumption DEF FileIgnored, siloVars
<1>1. CASE Refuses(f)
  <2>1. UNCHANGED <<siloVars, programVars>>
    BY <1>1 DEF Refuses, programVars
  <2> QED
    BY <2>1 DEF SiloInv, SiloTyped, OneFile, CallRight, Counted, Ordered, Running, Handed,
                Base, programVars
<1>2. CASE Opens(f)
  <2>1. SiloTyped'
    BY <1>2 DEF SiloInv, SiloTyped, Opens
  <2>2. Running' => Running /\ live = {} /\ live' = {f} /\ sent'[f] = 0
    BY <1>2 DEF SiloInv, SiloTyped, Running, Opens
  <2>3. Running' => filled' = 0 /\ dumped' = <<>> /\ call' = NULL /\ slf' # NULL
    BY <2>2 DEF SiloInv, OneFile
  <2>4. OneFile' /\ CallRight'
    BY <2>2, <2>3 DEF OneFile, CallRight
  <2>5. Counted'
    BY <2>2, <2>3 DEF Counted, Base, Handed
  <2>6. Ordered'
    BY <2>3 DEF Ordered
  <2> QED
    BY <2>1, <2>4, <2>5, <2>6 DEF SiloInv
<1> QED
  BY <1>1, <1>2

(* Exec: the call begins where the file ended.                                 *)
LEMMA ExecInv ==
    ASSUME SiloInv, NEW f \in Files, NEW n \in WriteSizes, Exec(f, n)
    PROVE  SiloInv'
<1> USE SiloAssumption, ProgramAssumption DEF Exec, Writes
<1>0. n \in Nat
  OBVIOUS
<1>1. sent' = [sent EXCEPT ![f] = sent[f] + n] /\ sent[f] \in Nat /\ sent'[f] = sent[f] + n
  BY DEF SiloInv, SiloTyped
<1>2. SiloTyped'
  <2>1. sent' \in [Files -> Nat]
    BY <1>0, <1>1 DEF SiloInv, SiloTyped
  <2>2. call' \in Call \cup {NULL}
    BY <1>0, <1>1 DEF SiloInv, SiloTyped, Call
  <2>3. dead' \in BOOLEAN
    BY DEF SiloInv, SiloTyped
  <2> QED
    BY <2>1, <2>2, <2>3 DEF SiloInv, SiloTyped
<1>3. Running' => Running /\ slf # NULL /\ live = {f} /\ live' = live /\ slf' = slf
                 /\ call' = [file |-> f, from |-> sent[f], n |-> n]
  BY DEF SiloInv, SiloTyped, OneFile, Running
<1>4. OneFile'
  BY <1>3 DEF SiloInv, OneFile
<1>5. CallRight'
  BY <1>1, <1>3 DEF CallRight
<1>6. Counted'
  <2>1. call' = [file |-> f, from |-> sent[f], n |-> n] => call' # NULL /\ call'.from = sent[f]
    <3>1. [file |-> f, from |-> sent[f], n |-> n] \in Call
      BY <1>0, <1>1 DEF Call
    <3> QED
      BY <3>1 DEF Call
  <2> QED
    BY <1>3, <2>1 DEF SiloInv, Counted, Base, Handed
<1>7. Ordered'
  BY <1>3 DEF SiloInv, Ordered, Base
<1> QED
  BY <1>2, <1>4, <1>5, <1>6, <1>7 DEF SiloInv

LEMMA StreamEndInv ==
    ASSUME SiloInv, StreamEnd
    PROVE  SiloInv'
<1> USE DEF StreamEnd, programVars
<1>1. SiloTyped'
  BY DEF SiloInv, SiloTyped
<1>2. OneFile' /\ CallRight'
  BY DEF SiloInv, OneFile, CallRight, Running
<1>3. Counted'
  <2>1. call \in Call /\ call.n = 0 /\ call.from \in Nat
    BY DEF SiloInv, SiloTyped, Call
  <2>2. Running => \A f \in live : call.from = sent[f]
    BY <2>1 DEF SiloInv, SiloTyped, CallRight
  <2> QED
    BY <2>2 DEF SiloInv, Counted, Handed, Base, Running
<1>4. Ordered'
  BY DEF SiloInv, Ordered, Base, Running
<1> QED
  BY <1>1, <1>2, <1>3, <1>4 DEF SiloInv

LEMMA StreamNowhereInv ==
    ASSUME SiloInv, StreamNowhere
    PROVE  SiloInv'
<1> USE DEF StreamNowhere, siloVars
<1>1. SiloTyped'
  BY DEF SiloInv, SiloTyped
<1>2. ~Running'
  BY DEF Running
<1> QED
  BY <1>1, <1>2 DEF SiloInv, OneFile, CallRight, Counted, Ordered

(* StreamPart: the buffer takes what is left of the call.                      *)
LEMMA StreamPartInv ==
    ASSUME SiloInv, StreamPart
    PROVE  SiloInv'
<1> USE DEF StreamPart, programVars
<1>1. SiloTyped /\ call \in Call /\ call.n \in Nat /\ filled \in Nat /\ Volume \in Nat
  BY SiloAssumption DEF SiloInv, SiloTyped, Call
<1>2. filled + call.n <= Volume /\ call.n <= call.n
  BY <1>1
<1>3. /\ data' \in Buffer
      /\ \A b \in 0 .. filled - 1 : data'[b] = data[b]
      /\ \A b \in filled .. filled + call.n - 1 :
            data'[b] = <<call.file, call.from + (b - filled)>>
      /\ call' \in Call /\ call'.file = call.file
      /\ call'.from = call.from + call.n /\ call'.n = call.n - call.n
  BY <1>1, <1>2, CopiedRight
<1>4. SiloTyped'
  BY <1>1, <1>3 DEF SiloTyped
<1>5. call' # NULL
  BY <1>3, SiloAssumption DEF Call
<1>6. call.from \in Nat
  BY <1>1 DEF Call
<1>7. OneFile' /\ CallRight'
  BY <1>1, <1>3, <1>5, <1>6 DEF SiloInv, OneFile, CallRight, Running
<1>8. /\ Base \in Nat
      /\ Running /\ slf # NULL => \A f \in live : Base + filled = call.from /\ call.file = f
  BY <1>1, OneMore DEF SiloInv, SiloTyped, Counted, Handed, CallRight, Base
<1>9. Base' = Base
  BY DEF Base
<1>10. Counted'
  BY <1>1, <1>3, <1>5, <1>6, <1>8, <1>9 DEF Counted, Handed, Running
<1>11. Ordered'
  <2> SUFFICES ASSUME Running', slf # NULL, NEW f \in live, NEW b \in 0 .. filled' - 1
               PROVE  data'[b] = <<f, Base + b>>
    BY <1>9 DEF Ordered
  <2>1. Running
    BY DEF Running
  <2>2. CASE b < filled
    <3>1. b \in 0 .. filled - 1
      BY <2>2, <1>1
    <3>2. data[b] = <<f, Base + b>>
      BY <2>1, <3>1 DEF SiloInv, Ordered
    <3> QED
      BY <1>3, <3>1, <3>2
  <2>3. CASE b >= filled
    <3>1. b \in filled .. filled + call.n - 1
      BY <2>3, <1>1
    <3>2. call.from + (b - filled) = Base + b
      BY <2>1, <1>1, <1>6, <1>8
    <3> QED
      BY <2>1, <1>3, <1>8, <3>1, <3>2
  <2> QED
    BY <2>2, <2>3, <1>1
<1> QED
  BY <1>4, <1>7, <1>10, <1>11 DEF SiloInv

(* StreamFull: a grid is dumped, and it is the next piece of the file.         *)
LEMMA StreamFullDumps ==
    ASSUME SiloInv, StreamFull
    PROVE  /\ SiloInv'
           /\ Running /\ slf # NULL =>
                 \A f \in live :
                    dumped' = Append(dumped, [b \in 0 .. Volume - 1 |-> <<f, Base + b>>])
           /\ Base' = Base + Volume
<1> DEFINE mn == SmallerOf(call.n, Volume - filled)
<1> USE DEF StreamFull, programVars
<1>1. SiloTyped /\ call \in Call /\ call.n \in Nat /\ filled \in Nat /\ Volume \in Nat
      /\ filled < Volume /\ call.from \in Nat
  BY SiloAssumption DEF SiloInv, SiloTyped, Call
<1>2. mn \in Nat /\ mn <= call.n /\ filled + mn = Volume
  BY <1>1 DEF SmallerOf
<1> HIDE DEF mn
<1>3. /\ data' = Copied(mn) /\ dumped' = Append(dumped, Copied(mn)) /\ call' = Rest(mn)
      /\ filled' = 0
  BY DEF mn
<1>4. /\ Copied(mn) \in Buffer
      /\ \A b \in 0 .. filled - 1 : Copied(mn)[b] = data[b]
      /\ \A b \in filled .. filled + mn - 1 :
            Copied(mn)[b] = <<call.file, call.from + (b - filled)>>
      /\ call' \in Call /\ call'.file = call.file
      /\ call'.from = call.from + mn /\ call'.n = call.n - mn
  BY <1>1, <1>2, <1>3, CopiedRight
<1>5. dumped' \in Seq(Buffer) /\ Base \in Nat /\ Base' = Base + Volume
  BY <1>1, <1>3, <1>4, OneMore DEF Base, SiloTyped
<1>6. SiloTyped'
  BY <1>1, <1>3, <1>4, <1>5 DEF SiloTyped
<1>7. call' # NULL
  BY <1>4, SiloAssumption DEF Call
<1>8. OneFile' /\ CallRight'
  BY <1>1, <1>2, <1>3, <1>4, <1>7 DEF SiloInv, OneFile, CallRight, Running
<1>9. Running /\ slf # NULL => \A f \in live : Base + filled = call.from /\ call.file = f
  BY DEF SiloInv, Counted, Handed, CallRight
<1>10. Counted'
  <2>1. Running' => Running
    BY DEF Running
  <2>2. Running /\ slf # NULL /\ live # {} => Base' + filled' = call'.from
    <3>1. Running /\ slf # NULL /\ live # {} => Base + filled = call.from
      BY <1>9
    <3>2. Base' + filled' = Base + (filled + mn)
      BY ONLY <1>1, <1>2, <1>3, <1>5
    <3>3. call'.from = call.from + mn
      BY ONLY <1>4
    <3>4. Base \in Nat /\ filled \in Nat /\ mn \in Nat
      BY ONLY <1>1, <1>2, <1>5
    <3>5. Base + (filled + mn) = (Base + filled) + mn
      BY ONLY <3>4
    <3> QED
      BY ONLY <3>1, <3>2, <3>3, <3>5
  <2> QED
    BY <2>1, <2>2, <1>7 DEF Counted, Handed
<1>11. Ordered'
  BY <1>3 DEF Ordered
<1>12. ASSUME Running, slf # NULL, NEW f \in live
       PROVE  Copied(mn) = [b \in 0 .. Volume - 1 |-> <<f, Base + b>>]
  <2>1. ASSUME NEW b \in 0 .. Volume - 1
        PROVE  Copied(mn)[b] = <<f, Base + b>>
    <3>1. CASE b < filled
      <4>1. b \in 0 .. filled - 1
        BY <3>1, <1>1
      <4> QED
        BY <4>1, <1>4, <1>12 DEF SiloInv, Ordered
    <3>2. CASE b >= filled
      <4>1. b \in filled .. filled + mn - 1
        BY <3>2, <1>1, <1>2
      <4>2. call.from + (b - filled) = Base + b
        BY <1>1, <1>5, <1>9, <1>12
      <4> QED
        BY <4>1, <4>2, <1>4, <1>9, <1>12
    <3> QED
      BY <3>1, <3>2, <1>1
  <2> QED
    BY <2>1 DEF Copied
<1> QED
  BY <1>3, <1>5, <1>6, <1>8, <1>10, <1>11, <1>12 DEF SiloInv

LEMMA FinishInv ==
    ASSUME SiloInv, NEW f \in Files, SiloFinish(f)
    PROVE  SiloInv'
<1> USE SiloAssumption, ProgramAssumption DEF SiloFinish, Closes
<1>1. SiloTyped'
  <2>1. CASE slf = NULL
    BY <2>1 DEF SiloInv, SiloTyped
  <2>2. CASE slf # NULL
    BY <2>2 DEF SiloInv, SiloTyped
  <2> QED
    BY <2>1, <2>2
<1>2. CASE slf = NULL
  <2>1. ~Running'
    BY <1>2 DEF Running
  <2> QED
    BY <1>1, <2>1 DEF SiloInv, OneFile, CallRight, Counted, Ordered
<1>3. CASE slf # NULL
  BY <1>1, <1>3 DEF SiloInv, OneFile, CallRight, Counted, Ordered, Running
<1> QED
  BY <1>2, <1>3

LEMMA SiloInvStep == SiloInv /\ [SiloNext]_<<siloVars, programVars>> => SiloInv'
<1> SUFFICES ASSUME SiloInv, [SiloNext]_<<siloVars, programVars>> PROVE SiloInv'
  OBVIOUS
<1>1. CASE UNCHANGED <<siloVars, programVars>>
  <2>1. SiloTyped' /\ OneFile' /\ CallRight'
    BY <1>1 DEF SiloInv, SiloTyped, OneFile, CallRight, Running, siloVars, programVars
  <2>2. Counted' /\ Ordered'
    BY <1>1 DEF SiloInv, Counted, Ordered, Running, Handed, Base, siloVars, programVars
  <2> QED
    BY <2>1, <2>2 DEF SiloInv
<1>2. ASSUME NEW f \in Files, FileIgnored(f) PROVE SiloInv'
  BY <1>2, IgnoredInv
<1>3. ASSUME NEW f \in Files, File(f) PROVE SiloInv'
  BY <1>3, FileInv
<1>4. ASSUME NEW f \in Files, SiloFinish(f) PROVE SiloInv'
  BY <1>4, FinishInv
<1>5. ASSUME NEW f \in Files, NEW n \in WriteSizes, Exec(f, n) PROVE SiloInv'
  BY <1>5, ExecInv
<1>6. CASE StreamEnd
  BY <1>6, StreamEndInv
<1>7. CASE StreamNowhere
  BY <1>7, StreamNowhereInv
<1>8. CASE StreamPart
  BY <1>8, StreamPartInv
<1>9. CASE StreamFull
  BY <1>9, StreamFullDumps
<1> QED
  BY <1>1, <1>2, <1>3, <1>4, <1>5, <1>6, <1>7, <1>8, <1>9 DEF SiloNext

LEMMA SiloInvAlways == SiloSpec => []SiloInv
BY SiloInitInv, SiloInvStep, PTL DEF SiloSpec

LEMMA OnlyFile ==
    ASSUME SiloInv, Running
    PROVE  /\ live # {} => Only \in live
           /\ \A f \in live : Only = f
BY DEF SiloInv, OneFile, Only

(* Of a program with one file open at a time, whichever opens fail: what is    *)
(* not in a grid and not in the running call is in the buffer, in order        *)
(* (silo.c's streaming).                                                      *)
THEOREM SiloHoldsNothingBack == SiloSpec => []NothingHeldBack
<1>1. SiloInv => NothingHeldBack
  <2> SUFFICES ASSUME SiloInv, Running, slf # NULL
               PROVE  IF live = {} THEN filled = 0 /\ dumped = <<>>
                      ELSE /\ Base + filled = Handed(Only)
                           /\ data # NULL =>
                                \A b \in 0 .. filled - 1 : data[b] = <<Only, Base + b>>
    BY DEF NothingHeldBack, Running
  <2>1. CASE live = {}
    BY <2>1 DEF SiloInv, OneFile
  <2>2. CASE live # {}
    BY <2>2, OnlyFile DEF SiloInv, Counted, Ordered
  <2> QED
    BY <2>1, <2>2
<1> QED
  BY <1>1, SiloInvAlways, PTL

-----------------------------------------------------------------------------
(* Every step is one of Slabs or leaves what Slabs sees as it is.             *)

LEMMA MapsInit == SiloInit => Volumes!SlabsInit
BY SiloAssumption DEF SiloInit, Volumes!SlabsInit, Base

LEMMA MapsOverlap ==
    ASSUME SiloInv, overlap, overlap' = overlap
    PROVE  UNCHANGED Volumes!slabVars
BY DEF Volumes!slabVars

LEMMA KeepsOverlap == SiloNext => overlap' = overlap
BY DEF SiloNext, FileIgnored, File, SiloFinish, Exec, StreamEnd, StreamNowhere, StreamPart,
       StreamFull, Opens, Refuses, Closes, Writes, programVars

LEMMA KeepsOnly == UNCHANGED live => UNCHANGED Only
BY DEF Only

LEMMA MapsNext ==
    ASSUME SiloInv, SiloNext, ~overlap
    PROVE  [Volumes!SlabsNext]_(Volumes!slabVars)
<1> USE DEF Volumes!slabVars
<1>0. overlap' = overlap
  BY KeepsOverlap
<1>1. ASSUME NEW f \in Files, FileIgnored(f)
      PROVE  \/ Volumes!Begin(f) \/ UNCHANGED Volumes!slabVars
  <2>1. CASE Refuses(f)
    BY <1>0, <1>1, <2>1, KeepsOnly DEF FileIgnored, Refuses, siloVars, Base
  <2>2. CASE Opens(f)
    <3>1. Running /\ live = {} /\ live' = {f} /\ slf # NULL /\ UNCHANGED siloVars
      BY <1>1, <2>2 DEF FileIgnored, Opens, Running
    <3>2. filled = 0 /\ dumped = <<>>
      BY <3>1 DEF SiloInv, OneFile
    <3>3. Base = 0 /\ Base' = 0 /\ Only' = f
      BY <3>1, <3>2, SiloAssumption DEF Base, Only, siloVars
    <3> QED
      BY <1>0, <3>1, <3>2, <3>3 DEF Volumes!Begin, siloVars
  <2> QED
    BY <1>1, <2>1, <2>2 DEF FileIgnored
<1>2. ASSUME NEW f \in Files, File(f)
      PROVE  (\E g \in Files : Volumes!Begin(g)) \/ UNCHANGED Volumes!slabVars
  <2>1. Running /\ slf = NULL
    BY <1>2 DEF File, Opens, Refuses, Running
  <2>2. filled = 0 /\ dumped = <<>> /\ filled' = 0 /\ dumped' = <<>>
    BY <1>2, <2>1 DEF SiloInv, OneFile, File
  <2>3. Base = 0 /\ Base' = 0
    BY <2>2, SiloAssumption DEF Base
  <2>4. live' # {} => Only' \in Files
    <3>1. live' \subseteq Files
      BY <1>2 DEF File, Opens, Refuses, SiloInv, SiloTyped
    <3> QED
      BY <3>1 DEF Only
  <2>5. CASE slf' = NULL \/ live' = {}
    BY <1>0, <2>1, <2>2, <2>3, <2>5
  <2>6. CASE slf' # NULL /\ live' # {}
    <3>1. Volumes!Begin(Only')
      BY <1>0, <2>1, <2>2, <2>3, <2>6 DEF Volumes!Begin
    <3> QED
      BY <2>4, <2>6, <3>1
  <2> QED
    BY <2>5, <2>6
<1>3. ASSUME NEW f \in Files, SiloFinish(f)
      PROVE  Volumes!End \/ UNCHANGED Volumes!slabVars
  <2>1. CASE slf = NULL
    <3>1. slf' = NULL /\ UNCHANGED <<filled, dumped>>
      BY <1>3, <2>1 DEF SiloFinish
    <3> QED
      BY <1>0, <2>1, <3>1 DEF Base
  <2>2. CASE slf # NULL
    <3>1. Base' = 0
      BY <1>3, <2>2, SiloAssumption DEF SiloFinish, Base
    <3>2. f \in live /\ slf' = NULL /\ filled' = 0 /\ dumped' = <<>>
      BY <1>3, <2>2 DEF SiloFinish, Closes
    <3>3. Only \in Files /\ NULL \notin Files
      BY <3>2, ProgramAssumption DEF Only, SiloInv, SiloTyped
    <3> QED
      BY <1>0, <2>2, <3>1, <3>2, <3>3 DEF Volumes!End
  <2> QED
    BY <2>1, <2>2
<1>4. ASSUME NEW f \in Files, NEW n \in WriteSizes, Exec(f, n)
      PROVE  UNCHANGED Volumes!slabVars
  <2>1. UNCHANGED <<live, slf, filled, dumped>>
    BY <1>4 DEF Exec, Writes
  <2> QED
    BY <1>0, <2>1, KeepsOnly DEF Base
<1>5. ASSUME StreamEnd PROVE UNCHANGED Volumes!slabVars
  <2>1. UNCHANGED <<live, slf, filled, dumped>>
    BY <1>5 DEF StreamEnd, programVars
  <2> QED
    BY <1>0, <2>1, KeepsOnly DEF Base
<1>6. ASSUME StreamNowhere PROVE UNCHANGED Volumes!slabVars
  <2>1. UNCHANGED <<live, slf, filled, dumped>>
    BY <1>6 DEF StreamNowhere, siloVars
  <2> QED
    BY <1>0, <2>1, KeepsOnly DEF Base
<1>7. ASSUME StreamPart
      PROVE  \E n \in 1 .. Volume - 1 : Volumes!Take(n)
  <2>1. Running /\ slf # NULL /\ live # {}
    BY <1>7 DEF StreamPart, SiloInv, OneFile, Running
  <2>2. call.n \in 1 .. Volume - 1 /\ filled + call.n < Volume
    BY <1>7, SiloAssumption DEF StreamPart, SiloInv, SiloTyped, Call
  <2>3. UNCHANGED <<live, slf, dumped>> /\ filled' = filled + call.n
    BY <1>7 DEF StreamPart, programVars
  <2>4. Only # NULL
    BY <2>1, OnlyFile, ProgramAssumption DEF SiloInv, SiloTyped
  <2>5. Volumes!Take(call.n)
    BY <1>0, <2>1, <2>2, <2>3, <2>4, KeepsOnly DEF Volumes!Take, Base
  <2> QED
    BY <2>2, <2>5
<1>8. ASSUME StreamFull
      PROVE  Volumes!Complete
  <2>1. Running /\ slf # NULL /\ live # {} /\ Only \in live
    BY <1>8, OnlyFile DEF StreamFull, SiloInv, OneFile, Running
  <2>2. dumped' = Append(dumped, [b \in 0 .. Volume - 1 |-> <<Only, Base + b>>])
        /\ Base' = Base + Volume
    BY <1>8, <2>1, StreamFullDumps
  <2>3. UNCHANGED <<live, slf>> /\ filled' = 0
    BY <1>8 DEF StreamFull, programVars
  <2>4. Only # NULL
    BY <2>1, ProgramAssumption DEF SiloInv, SiloTyped
  <2> QED
    BY <1>0, <2>1, <2>2, <2>3, <2>4, KeepsOnly DEF Volumes!Complete, Volumes!Slab
<1> QED
  BY <1>1, <1>2, <1>3, <1>4, <1>5, <1>6, <1>7, <1>8
     DEF SiloNext, Volumes!SlabsNext

(* Each grid handed to Silo is exactly the next piece of the file that is open, *)
(* whatever the sizes of the writes and whichever opens, announced all the     *)
(* same, fail (silo.c's file, exec and streaming).                            *)
THEOREM SiloImplementsSlabs == SiloSpec => GridsInOrder
<1>1. SiloInv /\ [SiloNext]_<<siloVars, programVars>>
        => [Volumes!SlabsNext]_(Volumes!slabVars)
  <2> SUFFICES ASSUME SiloInv, [SiloNext]_<<siloVars, programVars>>
               PROVE  [Volumes!SlabsNext]_(Volumes!slabVars)
    OBVIOUS
  <2>1. CASE UNCHANGED <<siloVars, programVars>>
    BY <2>1, KeepsOnly DEF siloVars, programVars, Volumes!slabVars, Base
  <2>2. CASE SiloNext /\ overlap
    BY <2>2, MapsOverlap, KeepsOverlap
  <2>3. CASE SiloNext /\ ~overlap
    BY <2>3, MapsNext
  <2> QED
    BY <2>1, <2>2, <2>3
<1> QED
  BY <1>1, MapsInit, SiloInvAlways, PTL DEF SiloSpec, GridsInOrder, Volumes!SlabsSpec

-----------------------------------------------------------------------------
(* The isosurf processor.                                                     *)

SliceBuffer == [0 .. Slice - 1 -> Byte]

IsoTyped ==
    /\ overlap \in BOOLEAN
    /\ live \subseteq Files
    /\ sent \in [Files -> Nat]
    /\ mc \in Files \cup {NULL}
    /\ buffer \in [0 .. 1 -> SliceBuffer]
    /\ active \in 0 .. 1
    /\ gathered \in 0 .. Slice - 1
    /\ write \in Call \cup {NULL}
    /\ layers \in Seq(SliceBuffer \X SliceBuffer)

(* Before the first layer the buffer that will be its front is blank.         *)
FirstBlank == Len(layers) = 0 => buffer[1 - active] = Blank

IsoInv == IsoTyped /\ FrontIsLastBack /\ FirstBlank

(* What a copy of the next n bytes of a write leaves in the buffers.          *)
LEMMA GatheredRight ==
    ASSUME IsoTyped, write # NULL,
           NEW n \in Nat, n <= write.n, gathered + n <= Slice
    PROVE  /\ Gathered(n) \in [0 .. 1 -> SliceBuffer]
           /\ Gathered(n)[1 - active] = buffer[1 - active]
           /\ Left(n) \in Call /\ Left(n).file = write.file
           /\ Left(n).from = write.from + n /\ Left(n).n = write.n - n
<1> USE IsosurfAssumption DEF IsoTyped
<1> DEFINE start == 2 * (gathered \div 2)
           new == [b \in 0 .. Slice - 1 |->
                      IF start <= b /\ b < start + n
                      THEN <<write.file, write.from + (b - start)>>
                      ELSE buffer[active][b]]
<1>1. write \in Call /\ write.file \in Files /\ write.from \in Nat /\ write.n \in Nat
  BY DEF Call
<1>2. start \in Nat
  OBVIOUS
<1>3. Gathered(n) = [buffer EXCEPT ![active] = new]
  BY DEF Gathered
<1> HIDE DEF start
<1>4. new \in SliceBuffer
  <2>1. ASSUME NEW b \in 0 .. Slice - 1, start <= b
        PROVE  <<write.file, write.from + (b - start)>> \in Byte
    BY <1>1, <1>2, <2>1 DEF Byte
  <2>2. ASSUME NEW b \in 0 .. Slice - 1 PROVE buffer[active][b] \in Byte
    BY DEF SliceBuffer
  <2> QED
    BY <2>1, <2>2 DEF SliceBuffer
<1> HIDE DEF new
<1>5. 1 - active \in 0 .. 1 /\ 1 - active # active
  OBVIOUS
<1>6. Gathered(n) \in [0 .. 1 -> SliceBuffer] /\ Gathered(n)[1 - active] = buffer[1 - active]
  BY <1>3, <1>4, <1>5
<1>7. write = [file |-> write.file, from |-> write.from, n |-> write.n]
  BY <1>1 DEF Call
<1>8. Left(n).file = write.file /\ Left(n).from = write.from + n /\ Left(n).n = write.n - n
  BY <1>7 DEF Left
<1>9. write.n - n \in Nat /\ write.from + n \in Nat
  BY <1>1
<1>10. Left(n) \in Call
  BY ONLY <1>1, <1>9 DEF Call, Left
<1> QED
  BY <1>6, <1>8, <1>10

(* The layers with one more.                                                  *)
LEMMA OneLayerMore ==
    ASSUME IsoTyped, NEW x \in SliceBuffer \X SliceBuffer
    PROVE  /\ Append(layers, x) \in Seq(SliceBuffer \X SliceBuffer)
           /\ Len(layers) \in Nat /\ Len(Append(layers, x)) = Len(layers) + 1
           /\ Append(layers, x)[Len(layers) + 1] = x
           /\ \A k \in 1 .. Len(layers) : Append(layers, x)[k] = layers[k]
           /\ DOMAIN layers = 1 .. Len(layers)
           /\ DOMAIN Append(layers, x) = 1 .. Len(layers) + 1
BY DEF IsoTyped

(* What ExecRun does: how much it takes, and the layer it runs.               *)
LEMMA RunFacts ==
    ASSUME IsoTyped, ExecRun
    PROVE  \E mn \in Nat :
              /\ mn <= write.n /\ gathered + mn = Slice
              /\ buffer' = Gathered(mn) /\ write' = Left(mn)
              /\ layers' = Append(layers, <<buffer'[1 - active], buffer'[active]>>)
              /\ active' = 1 - active /\ gathered' = 0
              /\ UNCHANGED <<mc, programVars>>
<1>1. write # NULL /\ write \in Call /\ write.n \in Nat
  BY DEF ExecRun, IsoTyped, Call
<1>2. gathered + write.n >= Slice /\ gathered \in Nat /\ Slice \in Nat /\ gathered < Slice
  BY IsosurfAssumption DEF ExecRun, IsoTyped
<1> DEFINE mn == Least(write.n, Slice - gathered)
<1>3. mn \in Nat /\ mn <= write.n /\ gathered + mn = Slice
  BY <1>1, <1>2 DEF Least
<1> QED
  BY <1>3 DEF ExecRun

LEMMA IsoInitInv == IsosurfInit => IsoInv
<1> SUFFICES ASSUME IsosurfInit PROVE IsoInv
  OBVIOUS
<1> USE IsosurfAssumption, ProgramAssumption DEF IsosurfInit, ProgramInit
<1>1. Blank \in SliceBuffer
  BY DEF Blank, SliceBuffer, Byte
<1>2. IsoTyped
  <2>1. sent \in [Files -> Nat]
    OBVIOUS
  <2>2. buffer \in [0 .. 1 -> SliceBuffer] /\ gathered \in 0 .. Slice - 1
    BY <1>1
  <2>3. layers \in Seq(SliceBuffer \X SliceBuffer)
    OBVIOUS
  <2> QED
    BY <2>1, <2>2, <2>3 DEF IsoTyped
<1>3. FrontIsLastBack /\ FirstBlank
  BY DEF FrontIsLastBack, FirstBlank
<1> QED
  BY <1>2, <1>3 DEF IsoInv

(* A step that neither gathers nor runs.                                      *)
LEMMA IsoBuffersKept ==
    ASSUME IsoInv, UNCHANGED <<buffer, active, layers>>
    PROVE  FrontIsLastBack' /\ FirstBlank'
BY DEF IsoInv, FrontIsLastBack, FirstBlank

LEMMA IsoPartInv ==
    ASSUME IsoInv, ExecPart
    PROVE  IsoInv'
<1> USE DEF ExecPart
<1>0. IsoTyped /\ write # NULL /\ gathered + write.n < Slice
  BY DEF IsoInv
<1>a. write \in Call /\ write.n \in Nat /\ gathered \in Nat /\ Slice \in Nat
  BY <1>0, IsosurfAssumption DEF IsoTyped, Call
<1>1. IsoTyped /\ write # NULL /\ write.n \in Nat /\ write.n <= write.n
      /\ gathered + write.n <= Slice
  BY <1>0, <1>a
<1>2. /\ buffer' \in [0 .. 1 -> SliceBuffer]
      /\ buffer'[1 - active] = buffer[1 - active]
      /\ write' \in Call
  BY <1>1, GatheredRight
<1>3. gathered' \in 0 .. Slice - 1
  BY <1>1, IsosurfAssumption DEF IsoTyped
<1>4. IsoTyped'
  BY <1>1, <1>2, <1>3 DEF IsoTyped, programVars
<1> QED
  BY <1>2, <1>4 DEF IsoInv, FrontIsLastBack, FirstBlank

(* A layer is run: the front is what the other buffer holds, which was the    *)
(* back before; the back becomes what the next layer's front will be.         *)
LEMMA IsoRunInv ==
    ASSUME IsoInv, ExecRun
    PROVE  IsoInv'
<1>1. IsoTyped /\ write # NULL
  BY DEF IsoInv, ExecRun
<1>2. PICK mn \in Nat :
         /\ mn <= write.n /\ gathered + mn = Slice
         /\ buffer' = Gathered(mn) /\ write' = Left(mn)
         /\ layers' = Append(layers, <<buffer'[1 - active], buffer'[active]>>)
         /\ active' = 1 - active /\ gathered' = 0
         /\ UNCHANGED <<mc, programVars>>
  BY <1>1, RunFacts DEF IsoInv
<1>3. /\ buffer' \in [0 .. 1 -> SliceBuffer]
      /\ buffer'[1 - active] = buffer[1 - active]
      /\ write' \in Call
  BY <1>1, <1>2, IsosurfAssumption, GatheredRight DEF IsoTyped
<1>4. active \in 0 .. 1 /\ 1 - active \in 0 .. 1 /\ 1 - active' = active
  BY <1>1, <1>2 DEF IsoTyped
<1> DEFINE x == <<buffer'[1 - active], buffer'[active]>>
<1>5. x \in SliceBuffer \X SliceBuffer
  BY <1>3, <1>4
<1>6. /\ layers' \in Seq(SliceBuffer \X SliceBuffer)
      /\ Len(layers) \in Nat /\ Len(layers') = Len(layers) + 1
      /\ layers'[Len(layers) + 1] = x
      /\ \A k \in 1 .. Len(layers) : layers'[k] = layers[k]
      /\ DOMAIN layers = 1 .. Len(layers)
      /\ DOMAIN layers' = 1 .. Len(layers) + 1
  BY <1>1, <1>2, <1>5, OneLayerMore
<1>7. IsoTyped'
  BY <1>1, <1>2, <1>3, <1>4, <1>6, IsosurfAssumption DEF IsoTyped, programVars
<1>8. x[1] = buffer[1 - active] /\ x[2] = buffer'[1 - active']
  BY <1>3, <1>4
<1> HIDE DEF x
<1>9. ASSUME NEW k \in DOMAIN layers'
      PROVE  layers'[k][1] = IF k = 1 THEN Blank ELSE layers'[k - 1][2]
  <2>1. CASE k \in 1 .. Len(layers)
    <3>1. layers[k][1] = IF k = 1 THEN Blank ELSE layers[k - 1][2]
      BY <1>6, <2>1 DEF IsoInv, FrontIsLastBack
    <3>2. k # 1 => k - 1 \in 1 .. Len(layers)
      BY <1>6, <2>1
    <3> QED
      BY <1>6, <2>1, <3>1, <3>2
  <2>2. CASE k = Len(layers) + 1
    <3>1. CASE Len(layers) = 0
      BY <1>6, <1>8, <2>2, <3>1 DEF IsoInv, FirstBlank
    <3>2. CASE Len(layers) > 0
      <4>1. buffer[1 - active] = layers[Len(layers)][2]
        BY <3>2 DEF IsoInv, FrontIsLastBack
      <4>2. k # 1 /\ k - 1 = Len(layers) /\ layers'[k - 1] = layers[Len(layers)]
        BY <1>6, <2>2, <3>2
      <4> QED
        BY <1>6, <1>8, <2>2, <4>1, <4>2
    <3> QED
      BY <1>6, <3>1, <3>2
  <2> QED
    BY <1>6, <2>1, <2>2
<1>10. FrontIsLastBack' /\ FirstBlank'
  BY <1>6, <1>8, <1>9 DEF FrontIsLastBack, FirstBlank
<1> QED
  BY <1>7, <1>10 DEF IsoInv

LEMMA IsoInvStep == IsoInv /\ [IsosurfNext]_<<isoVars, programVars>> => IsoInv'
<1> SUFFICES ASSUME IsoInv, [IsosurfNext]_<<isoVars, programVars>> PROVE IsoInv'
  OBVIOUS
<1> USE DEF IsoInv, IsoTyped
<1>1. CASE UNCHANGED <<isoVars, programVars>>
  BY <1>1, IsoBuffersKept DEF isoVars, programVars
<1>2. ASSUME NEW f \in Files, IsosurfOpen(f) PROVE IsoInv'
  BY <1>2, IsoBuffersKept DEF IsosurfOpen, Opens, isoVars
<1>3. ASSUME NEW f \in Files, IsosurfFinish(f) PROVE IsoInv'
  BY <1>3, IsoBuffersKept DEF IsosurfFinish, Closes, isoVars
<1>4. ASSUME NEW f \in Files, NEW n \in WriteSizes, IsosurfExec(f, n) PROVE IsoInv'
  <2>1. /\ UNCHANGED <<buffer, active, gathered, layers, live, overlap>>
        /\ sent' = [sent EXCEPT ![f] = @ + n] /\ n \in Nat /\ sent[f] \in Nat
    BY <1>4, ProgramAssumption DEF IsosurfExec, Writes
  <2>2. mc' \in Files \cup {NULL}
    BY <1>4 DEF IsosurfExec
  <2>3. write' \in Call \cup {NULL}
    BY <1>4, <2>1 DEF IsosurfExec, Call
  <2>4. sent' \in [Files -> Nat]
    BY <2>1
  <2> QED
    BY <2>1, <2>2, <2>3, <2>4, IsoBuffersKept
<1>5. CASE ExecEnd
  BY <1>5, IsoBuffersKept DEF ExecEnd, programVars
<1>6. CASE ExecPart
  BY <1>6, IsoPartInv
<1>7. CASE ExecRun
  BY <1>7, IsoRunInv
<1> QED
  BY <1>1, <1>2, <1>3, <1>4, <1>5, <1>6, <1>7 DEF IsosurfNext

LEMMA IsoInvAlways == IsosurfSpec => []IsoInv
BY IsoInitInv, IsoInvStep, PTL DEF IsosurfSpec

(* A layer's front is the back of the one before, and zeros before the first,  *)
(* whatever the sizes of the writes and whichever files they are to            *)
(* (isosurf.c's exchange of the buffers).                                     *)
THEOREM FrontsFollowBacks == IsosurfSpec => []FrontIsLastBack
<1>1. IsoInv => FrontIsLastBack
  BY DEF IsoInv
<1> QED
  BY <1>1, IsoInvAlways, PTL

-----------------------------------------------------------------------------
(* Isosurf implements Slabs, for writes of even sizes: an odd one is gathered  *)
(* a byte too early, over the byte before it (isosurf.c's address in units of  *)
(* uint16_t).                                                                 *)

EvenWrites == \A n \in WriteSizes : n % 2 = 0

Evens == gathered % 2 = 0 /\ (write # NULL => write.n % 2 = 0)

(* A program with one file open at a time has the set-up one open until it     *)
(* dies; before there is one nothing is in use.                               *)
SetUp ==
    ~overlap =>
        /\ \A f, g \in live : f = g
        /\ mc # NULL /\ ~dead => mc \in live
        /\ mc = NULL => /\ gathered = 0 /\ layers = <<>> /\ write = NULL
                        /\ \A f \in Files : sent[f] = 0

WriteRight ==
    ~overlap /\ write # NULL =>
        write.file = mc /\ write.from + write.n = sent[mc]

Run(f) == IF write = NULL THEN sent[f] ELSE write.from

(* What has been run and what is in the buffer is all that was passed on, in   *)
(* order.                                                                     *)
SlicesCounted ==
    ~overlap /\ mc # NULL =>
        /\ Len(layers) * Slice + gathered = Run(mc)
        /\ \A b \in 0 .. gathered - 1 :
              buffer[active][b] = <<mc, Len(layers) * Slice + b>>

SlicesInv == IsoInv /\ Evens /\ SetUp /\ WriteRight /\ SlicesCounted

(* A copy of an even number of bytes to an even place continues the slice.     *)
LEMMA GatheredNext ==
    ASSUME SlicesInv, ~overlap, write # NULL,
           NEW n \in Nat, n <= write.n, gathered + n <= Slice
    PROVE  /\ mc # NULL /\ write.from = Len(layers) * Slice + gathered
           /\ \A b \in 0 .. gathered + n - 1 :
                 Gathered(n)[active][b] = <<mc, Len(layers) * Slice + b>>
<1>1. IsoTyped /\ gathered \in Nat /\ gathered % 2 = 0 /\ Slice \in Nat
      /\ active \in 0 .. 1 /\ Len(layers) \in Nat
  BY IsosurfAssumption DEF SlicesInv, IsoInv, IsoTyped, Evens
<1>2. mc # NULL
  BY DEF SlicesInv, SetUp
<1>3. /\ Len(layers) * Slice + gathered = write.from /\ write.file = mc
      /\ \A b \in 0 .. gathered - 1 :
            buffer[active][b] = <<mc, Len(layers) * Slice + b>>
  BY <1>2 DEF SlicesInv, SlicesCounted, WriteRight, Run
<1> DEFINE base == Len(layers) * Slice
<1>4. base \in Nat
  <2>1. \A l \in Nat, v \in Nat : l * v \in Nat
    OBVIOUS
  <2> QED
    BY <1>1, <2>1
<1> HIDE DEF base
<1>5. 2 * (gathered \div 2) = gathered
  BY <1>1
<1>6. Gathered(n) = [buffer EXCEPT ![active] =
          [b \in 0 .. Slice - 1 |->
              IF gathered <= b /\ b < gathered + n
              THEN <<write.file, write.from + (b - gathered)>> ELSE buffer[active][b]]]
  BY <1>5 DEF Gathered
<1>7. \A b \in 0 .. Slice - 1 : Gathered(n)[active][b] =
          IF gathered <= b /\ b < gathered + n
          THEN <<write.file, write.from + (b - gathered)>> ELSE buffer[active][b]
  BY <1>1, <1>6 DEF IsoTyped
<1>8. ASSUME NEW b \in 0 .. gathered + n - 1
      PROVE  Gathered(n)[active][b] = <<mc, base + b>>
  <2>1. b \in 0 .. Slice - 1 /\ b \in Nat
    BY <1>1
  <2>2. CASE b < gathered
    <3>1. b \in 0 .. gathered - 1 /\ ~(gathered <= b)
      BY <1>1, <2>1, <2>2
    <3>2. buffer[active][b] = <<mc, base + b>>
      BY <1>3, <3>1 DEF base
    <3> QED
      BY <1>7, <2>1, <3>1, <3>2
  <2>3. CASE b >= gathered
    <3>1. write.from = base + gathered
      BY <1>3 DEF base
    <3>2. write.from + (b - gathered) = base + b
      BY <1>1, <1>4, <2>1, <3>1
    <3>3. gathered <= b /\ b < gathered + n
      BY <1>1, <2>3
    <3> QED
      BY <1>3, <1>7, <2>1, <3>2, <3>3
  <2> QED
    BY <1>1, <2>1, <2>2, <2>3
<1> QED
  BY <1>2, <1>3, <1>8 DEF base

LEMMA BacksAppended ==
    ASSUME NEW X, NEW s \in Seq(X \X X), NEW x \in X \X X
    PROVE  [k \in DOMAIN Append(s, x) |-> Append(s, x)[k][2]]
             = Append([k \in DOMAIN s |-> s[k][2]], x[2])
OBVIOUS

LEMMA EvenRest ==
    ASSUME NEW m \in Nat, NEW n \in Nat, m % 2 = 0, n % 2 = 0
    PROVE  (m + n) % 2 = 0 /\ (n <= m => (m - n) % 2 = 0)
OBVIOUS

LEMMA SlicesInit == IsosurfInit => SlicesInv
<1> SUFFICES ASSUME IsosurfInit PROVE SlicesInv
  OBVIOUS
<1>1. gathered % 2 = 0
  BY DEF IsosurfInit
<1> QED
  BY <1>1, IsoInitInv
  DEF IsosurfInit, ProgramInit, SlicesInv, Evens, SetUp, WriteRight, SlicesCounted

LEMMA SlicesExec ==
    ASSUME EvenWrites, SlicesInv, NEW f \in Files, NEW n \in WriteSizes, IsosurfExec(f, n)
    PROVE  SlicesInv'
<1>1. IsoInv' /\ IsoTyped
  BY IsoInvStep DEF IsosurfNext, SlicesInv, IsoInv
<1>2. /\ write = NULL /\ ~dead /\ ~dead' /\ f \in live /\ n \in Nat
      /\ UNCHANGED <<live, overlap, buffer, active, gathered, layers>>
      /\ sent' = [sent EXCEPT ![f] = @ + n] /\ sent[f] \in Nat /\ sent'[f] = sent[f] + n
      /\ IF n = 0 THEN UNCHANGED <<mc, write>>
         ELSE /\ mc' = IF mc = NULL THEN f ELSE mc
              /\ write' = [file |-> f, from |-> sent[f], n |-> n]
  BY <1>1, ProgramAssumption DEF IsosurfExec, Writes, IsoTyped
<1>3. ~overlap => mc' \in {NULL, f} /\ mc \in {NULL, f}
  BY <1>2 DEF SlicesInv, SetUp
<1>4. Evens'
  BY <1>2 DEF EvenWrites, SlicesInv, Evens
<1>5. SetUp'
  <2>1. f # NULL
    BY ProgramAssumption
  <2>2. CASE n = 0
    <3>1. sent' = sent /\ mc' = mc /\ write' = write
      BY <1>1, <1>2, <2>2 DEF IsoTyped
    <3> QED
      BY <1>2, <3>1 DEF SlicesInv, SetUp
  <2>3. CASE n # 0
    <3>1. mc' = IF mc = NULL THEN f ELSE mc
      BY <1>2, <2>3
    <3>2. mc' # NULL
      BY <2>1, <3>1
    <3> QED
      BY <1>2, <1>3, <3>2 DEF SlicesInv, SetUp
  <2> QED
    BY <2>2, <2>3
<1>6. CASE n = 0
  <2>1. mc' = mc /\ write' = NULL /\ sent'[f] = sent[f]
    BY <1>2, <1>6
  <2>2. WriteRight'
    BY <2>1 DEF WriteRight
  <2>3. SlicesCounted'
    BY <1>2, <1>3, <2>1 DEF SlicesInv, SlicesCounted, Run
  <2> QED
    BY <1>1, <1>4, <1>5, <2>2, <2>3 DEF SlicesInv
<1>7. CASE n # 0
  <2>1. mc' = (IF mc = NULL THEN f ELSE mc) /\ write' = [file |-> f, from |-> sent[f], n |-> n]
    BY <1>2, <1>7
  <2>2. f # NULL
    BY ProgramAssumption
  <2>3. ~overlap => mc' = f
    BY <1>3, <2>1
  <2>4. write' \in Call /\ write' # NULL
    BY <1>2, <2>1, IsosurfAssumption DEF Call
  <2>5. WriteRight'
    BY <1>2, <2>1, <2>3 DEF WriteRight
  <2>6. ASSUME ~overlap PROVE Len(layers) * Slice + gathered = sent[f]
    <3>1. CASE mc = NULL
      BY <2>6, <3>1, IsosurfAssumption DEF SlicesInv, SetUp
    <3>2. CASE mc = f
      BY <1>2, <2>2, <2>6, <3>2 DEF SlicesInv, SlicesCounted, Run
    <3> QED
      BY <1>3, <2>6, <3>1, <3>2
  <2>7. ASSUME ~overlap, NEW b \in 0 .. gathered - 1
        PROVE  buffer[active][b] = <<f, Len(layers) * Slice + b>>
    <3>1. mc = f
      BY <1>3, <2>7 DEF SlicesInv, SetUp
    <3> QED
      BY <2>2, <2>7, <3>1 DEF SlicesInv, SlicesCounted
  <2>8. ~overlap => Run(mc)' = sent[f]
    BY <2>1, <2>4 DEF Run
  <2>9. SlicesCounted'
    BY <1>2, <2>3, <2>6, <2>7, <2>8 DEF SlicesCounted
  <2> QED
    BY <1>1, <1>4, <1>5, <2>5, <2>9 DEF SlicesInv
<1> QED
  BY <1>6, <1>7

LEMMA SlicesPart ==
    ASSUME SlicesInv, ExecPart
    PROVE  SlicesInv'
<1>1. IsoInv' /\ IsoTyped
  BY IsoInvStep DEF IsosurfNext, SlicesInv, IsoInv
<1>2. /\ write # NULL /\ write \in Call /\ write.n \in Nat /\ write.from \in Nat
      /\ gathered \in Nat /\ Slice \in Nat /\ active \in 0 .. 1
  BY <1>1, IsosurfAssumption DEF ExecPart, IsoTyped, Call
<1>3. /\ gathered + write.n <= Slice /\ write.n <= write.n
      /\ buffer' = Gathered(write.n) /\ gathered' = gathered + write.n
      /\ write' = Left(write.n)
      /\ UNCHANGED <<mc, active, layers, live, sent, overlap, dead>>
  BY <1>2 DEF ExecPart, programVars
<1>4. /\ write' \in Call /\ write'.file = write.file
      /\ write'.from = write.from + write.n /\ write'.n = 0 /\ write' # NULL
  BY <1>1, <1>2, <1>3, GatheredRight, IsosurfAssumption DEF Call
<1>5. Evens'
  BY <1>2, <1>3, <1>4, EvenRest DEF SlicesInv, Evens
<1>6. SetUp' /\ WriteRight'
  BY <1>2, <1>3, <1>4 DEF SlicesInv, SetUp, WriteRight
<1>7. SlicesCounted'
  <2> SUFFICES ASSUME ~overlap PROVE SlicesCounted'
    BY <1>3 DEF SlicesCounted
  <2> DEFINE base == Len(layers) * Slice
  <2>1. /\ mc # NULL /\ write.from = base + gathered
        /\ \A b \in 0 .. gathered + write.n - 1 : buffer'[active][b] = <<mc, base + b>>
    BY <1>2, <1>3, GatheredNext
  <2>2. base \in Nat
    <3>1. \A l \in Nat, v \in Nat : l * v \in Nat
      OBVIOUS
    <3> QED
      BY <1>1, <1>2, <3>1 DEF IsoTyped
  <2> HIDE DEF base
  <2>3. base' = base
    BY <1>3 DEF base
  <2>4. Run(mc)' = base + gathered'
    BY <1>2, <1>3, <1>4, <2>1, <2>2 DEF Run
  <2>5. ASSUME NEW b \in 0 .. gathered' - 1 PROVE buffer'[active'][b] = <<mc', base + b>>
    <3>1. b \in 0 .. gathered + write.n - 1
      BY <1>2, <1>3
    <3>2. buffer'[active][b] = <<mc, base + b>>
      BY <2>1, <3>1
    <3> QED
      BY <1>3, <3>2
  <2> QED
    BY <2>3, <2>4, <2>5 DEF SlicesCounted, base
<1> QED
  BY <1>1, <1>5, <1>6, <1>7 DEF SlicesInv

(* A layer's back is the next slice of the file.                              *)
LEMMA SlicesRun ==
    ASSUME SlicesInv, ExecRun
    PROVE  /\ SlicesInv'
           /\ ~overlap =>
                 \E x \in SliceBuffer \X SliceBuffer :
                    /\ layers' = Append(layers, x)
                    /\ x[2] = [b \in 0 .. Slice - 1 |-> <<mc, Len(layers) * Slice + b>>]
           /\ Len(layers') * Slice = Len(layers) * Slice + Slice
<1>1. IsoInv' /\ IsoTyped
  BY IsoInvStep DEF IsosurfNext, SlicesInv, IsoInv
<1>2. PICK mn \in Nat :
         /\ mn <= write.n /\ gathered + mn = Slice
         /\ buffer' = Gathered(mn) /\ write' = Left(mn)
         /\ layers' = Append(layers, <<buffer'[1 - active], buffer'[active]>>)
         /\ active' = 1 - active /\ gathered' = 0
         /\ UNCHANGED <<mc, programVars>>
  BY <1>1, RunFacts
<1>3. /\ write # NULL /\ write \in Call /\ write.n \in Nat /\ write.from \in Nat
      /\ gathered \in Nat /\ Slice \in Nat /\ active \in 0 .. 1
      /\ gathered + mn <= Slice
  BY <1>1, <1>2, IsosurfAssumption DEF ExecRun, IsoTyped, Call
<1>4. /\ write' \in Call /\ write'.file = write.file
      /\ write'.from = write.from + mn /\ write'.n = write.n - mn /\ write' # NULL
      /\ buffer' \in [0 .. 1 -> SliceBuffer]
  BY <1>1, <1>2, <1>3, GatheredRight, IsosurfAssumption DEF Call
<1>5. Evens'
  <2>1. mn = Slice - gathered /\ gathered <= Slice
    BY <1>2, <1>3
  <2>2. mn % 2 = 0
    BY <1>3, <2>1, EvenRest, IsosurfAssumption DEF SlicesInv, Evens
  <2> QED
    BY <1>2, <1>3, <1>4, <2>2, EvenRest DEF SlicesInv, Evens
<1>6. SetUp'
  BY <1>2, <1>3 DEF SlicesInv, SetUp, programVars
<1>7. WriteRight'
  BY <1>2, <1>3, <1>4 DEF SlicesInv, WriteRight, programVars
<1> DEFINE x == <<buffer'[1 - active], buffer'[active]>>
           base == Len(layers) * Slice
<1>8. x \in SliceBuffer \X SliceBuffer
  BY <1>3, <1>4
<1>9. Len(layers) \in Nat /\ Len(layers') = Len(layers) + 1
  BY <1>1, <1>2, <1>8, OneLayerMore
<1>10. base \in Nat /\ base' = base + Slice
  <2>1. \A l \in Nat, v \in Nat : l * v \in Nat /\ (l + 1) * v = l * v + v
    OBVIOUS
  <2> QED
    BY <1>3, <1>9, <2>1
<1>11. ASSUME ~overlap
       PROVE  /\ mc # NULL /\ write.from = base + gathered
              /\ x[2] = [b \in 0 .. Slice - 1 |-> <<mc, base + b>>]
  <2>1. /\ mc # NULL /\ write.from = base + gathered
        /\ \A b \in 0 .. gathered + mn - 1 : Gathered(mn)[active][b] = <<mc, base + b>>
    BY <1>3, <1>2, <1>11, GatheredNext
  <2>2. x[2] \in SliceBuffer
    BY <1>3, <1>4
  <2>3. x[2] = Gathered(mn)[active]
    BY <1>2
  <2>4. \A b \in 0 .. Slice - 1 : b \in 0 .. gathered + mn - 1
    BY <1>2, <1>3
  <2>5. \A b \in 0 .. Slice - 1 : x[2][b] = <<mc, base + b>>
    BY <2>1, <2>3, <2>4
  <2> QED
    BY <2>1, <2>2, <2>5 DEF SliceBuffer
<1> HIDE DEF x, base
<1>12. SlicesCounted'
  <2> SUFFICES ASSUME ~overlap PROVE SlicesCounted'
    BY <1>2 DEF SlicesCounted, programVars
  <2>3. /\ mc' = mc /\ gathered' = 0 /\ write' # NULL
        /\ write'.from = write.from + mn /\ write.from = base + gathered
    BY <1>2, <1>4, <1>11
  <2>4. write'.from = base + Slice
    BY <1>2, <1>3, <1>10, <2>3
  <2>1. Run(mc)' = base' + gathered'
    BY <1>3, <1>10, <2>3, <2>4 DEF Run
  <2>2. 0 .. gathered' - 1 = {}
    BY <1>2
  <2> QED
    BY <2>1, <2>2 DEF SlicesCounted, base
<1>13. SlicesInv'
  BY <1>1, <1>5, <1>6, <1>7, <1>12 DEF SlicesInv
<1> QED
  BY <1>2, <1>8, <1>10, <1>11, <1>13 DEF x, base

LEMMA SlicesStep ==
    EvenWrites /\ SlicesInv /\ [IsosurfNext]_<<isoVars, programVars>> => SlicesInv'
<1> SUFFICES ASSUME EvenWrites, SlicesInv, [IsosurfNext]_<<isoVars, programVars>>
             PROVE  SlicesInv'
  OBVIOUS
<1>0. IsoInv' /\ IsoTyped
  BY IsoInvStep DEF SlicesInv, IsoInv
<1>1. CASE UNCHANGED <<isoVars, programVars>>
  BY <1>0, <1>1
  DEF SlicesInv, Evens, SetUp, WriteRight, SlicesCounted, Run, isoVars, programVars
<1>2. ASSUME NEW f \in Files, IsosurfOpen(f) PROVE SlicesInv'
  <2>1. /\ write = NULL /\ UNCHANGED <<isoVars, overlap, dead>> /\ ~dead /\ f \notin live
        /\ overlap \/ live = {}
        /\ live' = live \cup {f} /\ sent' = [sent EXCEPT ![f] = 0]
    BY <1>2 DEF IsosurfOpen, Opens
  <2>2. ~overlap => mc = NULL
    BY <2>1 DEF SlicesInv, SetUp
  <2>3. SetUp'
    BY <1>0, <2>1, <2>2 DEF SlicesInv, SetUp, isoVars, IsoTyped
  <2> QED
    BY <1>0, <2>1, <2>2, <2>3
    DEF SlicesInv, Evens, WriteRight, SlicesCounted, isoVars
<1>3. ASSUME NEW f \in Files, IsosurfFinish(f) PROVE SlicesInv'
  <2>1. /\ write = NULL /\ UNCHANGED <<isoVars, sent, overlap>> /\ dead'
        /\ live' = live \ {f}
    BY <1>3 DEF IsosurfFinish, Closes
  <2> QED
    BY <1>0, <2>1
    DEF SlicesInv, Evens, SetUp, WriteRight, SlicesCounted, Run, isoVars
<1>4. ASSUME NEW f \in Files, NEW n \in WriteSizes, IsosurfExec(f, n) PROVE SlicesInv'
  BY <1>4, SlicesExec
<1>5. CASE ExecEnd
  <2>1. /\ write # NULL /\ write.n = 0 /\ write' = NULL
        /\ UNCHANGED <<mc, buffer, active, gathered, layers, live, sent, overlap, dead>>
    BY <1>5 DEF ExecEnd, programVars
  <2>2. write \in Call /\ write.from \in Nat
    BY <1>0, <2>1 DEF IsoTyped, Call
  <2>3. ~overlap => write.from = sent[mc]
    BY <2>1, <2>2 DEF SlicesInv, WriteRight
  <2>4. SlicesCounted'
    BY <2>1, <2>3 DEF SlicesInv, SlicesCounted, Run
  <2> QED
    BY <1>0, <2>1, <2>4 DEF SlicesInv, Evens, SetUp, WriteRight
<1>6. CASE ExecPart
  BY <1>6, SlicesPart
<1>7. CASE ExecRun
  BY <1>7, SlicesRun
<1> QED
  BY <1>1, <1>2, <1>3, <1>4, <1>5, <1>6, <1>7 DEF IsosurfNext

(* Every step is one of Slabs or leaves what Slabs sees as it is.             *)

LEMMA SlicesMapInit == IsosurfInit => Slices!SlabsInit
<1> SUFFICES ASSUME IsosurfInit PROVE Slices!SlabsInit
  OBVIOUS
<1>1. layers = <<>> /\ gathered = 0 /\ mc = NULL
  BY DEF IsosurfInit
<1>2. [k \in DOMAIN layers |-> layers[k][2]] = <<>> /\ Len(layers) * Slice = 0
  BY <1>1, IsosurfAssumption
<1> QED
  BY <1>1, <1>2 DEF Slices!SlabsInit

LEMMA SlicesMapNext ==
    ASSUME SlicesInv, IsosurfNext
    PROVE  [Slices!SlabsNext]_(Slices!slabVars)
<1> USE DEF Slices!slabVars
<1>0. overlap' = overlap
  BY DEF IsosurfNext, IsosurfOpen, IsosurfFinish, IsosurfExec, ExecEnd, ExecPart, ExecRun,
         Opens, Closes, Writes, programVars
<1>1. CASE overlap
  BY <1>0, <1>1
<1> SUFFICES ASSUME ~overlap PROVE [Slices!SlabsNext]_(Slices!slabVars)
  BY <1>1
<1>2. ASSUME NEW f \in Files, IsosurfOpen(f) \/ IsosurfFinish(f)
      PROVE  UNCHANGED Slices!slabVars
  BY <1>0, <1>2 DEF IsosurfOpen, IsosurfFinish, isoVars
<1>3. ASSUME NEW f \in Files, NEW n \in WriteSizes, IsosurfExec(f, n)
      PROVE  Slices!Begin(f) \/ UNCHANGED Slices!slabVars
  <2>1. UNCHANGED <<gathered, layers>> /\ (mc' = mc \/ (mc = NULL /\ mc' = f))
    BY <1>3 DEF IsosurfExec
  <2>2. CASE mc' = mc
    BY <1>0, <2>1, <2>2
  <2>3. CASE mc = NULL /\ mc' = f
    <3>1. gathered = 0 /\ layers = <<>>
      BY <2>3 DEF SlicesInv, SetUp
    <3>2. [k \in DOMAIN layers |-> layers[k][2]] = <<>> /\ Len(layers) * Slice = 0
      BY <3>1, IsosurfAssumption
    <3> QED
      BY <1>0, <2>1, <2>3, <3>1, <3>2 DEF Slices!Begin
  <2> QED
    BY <2>1, <2>2, <2>3
<1>4. CASE ExecEnd
  BY <1>0, <1>4 DEF ExecEnd
<1>5. ASSUME ExecPart
      PROVE  \E n \in 1 .. Slice - 1 : Slices!Take(n)
  <2>1. /\ write # NULL /\ write \in Call /\ write.n \in Nat /\ write.n > 0
        /\ gathered \in Nat /\ Slice \in Nat /\ gathered + write.n < Slice
        /\ gathered' = gathered + write.n /\ UNCHANGED <<mc, layers>>
    BY <1>5, IsosurfAssumption DEF ExecPart, SlicesInv, IsoInv, IsoTyped, Call
  <2>2. mc # NULL
    BY <2>1 DEF SlicesInv, SetUp
  <2>3. write.n \in 1 .. Slice - 1
    BY <2>1
  <2>4. Slices!Take(write.n)
    BY <1>0, <2>1, <2>2 DEF Slices!Take
  <2> QED
    BY <2>3, <2>4
<1>6. ASSUME ExecRun
      PROVE  Slices!Complete
  <2>1. mc # NULL /\ mc' = mc /\ gathered' = 0
    BY <1>6 DEF ExecRun, SlicesInv, SetUp
  <2>2. PICK x \in SliceBuffer \X SliceBuffer :
           /\ layers' = Append(layers, x)
           /\ x[2] = [b \in 0 .. Slice - 1 |-> <<mc, Len(layers) * Slice + b>>]
    BY <1>6, SlicesRun
  <2>3. Len(layers') * Slice = Len(layers) * Slice + Slice
    BY <1>6, SlicesRun
  <2>4. layers \in Seq(SliceBuffer \X SliceBuffer)
    BY DEF SlicesInv, IsoInv, IsoTyped
  <2>5. [k \in DOMAIN layers' |-> layers'[k][2]]
          = Append([k \in DOMAIN layers |-> layers[k][2]], x[2])
    <3>1. [k \in DOMAIN Append(layers, x) |-> Append(layers, x)[k][2]]
            = Append([k \in DOMAIN layers |-> layers[k][2]], x[2])
      BY <2>4, BacksAppended
    <3>2. layers' = Append(layers, x)
      BY <2>2
    <3> QED
      BY ONLY <3>1, <3>2
  <2> QED
    BY <1>0, <2>1, <2>2, <2>3, <2>5 DEF Slices!Complete, Slices!Slab
<1> QED
  BY <1>2, <1>3, <1>4, <1>5, <1>6 DEF IsosurfNext, Slices!SlabsNext

(* The back slice of each layer is exactly the next piece of the file, for      *)
(* writes of any even sizes (isosurf.c's exec).                               *)
THEOREM IsosurfImplementsSlabs == EvenWrites => (IsosurfSpec => SlicesInOrder)
<1> SUFFICES ASSUME EvenWrites PROVE IsosurfSpec => SlicesInOrder
  OBVIOUS
<1>1. SlicesInv /\ [IsosurfNext]_<<isoVars, programVars>>
        => [Slices!SlabsNext]_(Slices!slabVars)
  <2> SUFFICES ASSUME SlicesInv, UNCHANGED <<isoVars, programVars>>
               PROVE  UNCHANGED Slices!slabVars
    BY SlicesMapNext
  <2> QED
    BY DEF isoVars, programVars, Slices!slabVars
<1>2. SlicesInv /\ [IsosurfNext]_<<isoVars, programVars>> => SlicesInv'
  BY SlicesStep
<1> QED
  BY <1>1, <1>2, SlicesInit, SlicesMapInit, PTL
  DEF IsosurfSpec, SlicesInOrder, Slices!SlabsSpec

-----------------------------------------------------------------------------

AdiosInv ==
    /\ OutputOfItsFile
    /\ ~overlap => /\ \A f, g \in live : f = g
                   /\ fdes \in Files => fdes \in live
    /\ live \subseteq Files

LEMMA AdiosInvInit == WritersInit => AdiosInv
BY ProgramAssumption DEF WritersInit, ProgramInit, AdiosInv, OutputOfItsFile

LEMMA AdiosInvStep == AdiosInv /\ [AdiosNext]_<<programVars, writersVars>> => AdiosInv'
<1> SUFFICES ASSUME AdiosInv, [AdiosNext]_<<programVars, writersVars>> PROVE AdiosInv'
  OBVIOUS
<1> USE ProgramAssumption, WritersAssumption DEF AdiosInv, OutputOfItsFile, Nowhere
<1>1. CASE UNCHANGED <<programVars, writersVars>>
  BY <1>1 DEF programVars, writersVars
<1>2. ASSUME NEW f \in Files, WritersOpen(f) PROVE AdiosInv'
  BY <1>2 DEF WritersOpen, Opens, writersVars
<1>3. ASSUME NEW f \in Files, AdiosFinish(f) PROVE AdiosInv'
  BY <1>3 DEF AdiosFinish, Closes
<1>4. ASSUME NEW f \in Files, NEW n \in WriteSizes, AdiosExec(f, n) PROVE AdiosInv'
  <2>1. f \in live /\ UNCHANGED <<live, overlap>>
    BY <1>4 DEF AdiosExec, Writes
  <2>2. fdes' \in IF fdes = NULL THEN {f, NULL, Nowhere} ELSE {fdes}
    BY <1>4 DEF AdiosExec
  <2>3. ~overlap /\ fdes' \in Files => fdes' = f
    BY <2>1, <2>2
  <2>4. output' = IF fdes' \in Files THEN output \cup {<<f, Basename[fdes']>>} ELSE output
    BY <1>4 DEF AdiosExec
  <2> QED
    BY <2>1, <2>3, <2>4
<1> QED
  BY <1>1, <1>2, <1>3, <1>4 DEF AdiosNext

(* While the program has one file open at a time, what is written to it goes   *)
(* to the output named after it, or nowhere when adios cannot open one         *)
(* (adios.mpi.c's one descriptor).                                            *)
THEOREM AdiosOutputRight == AdiosSpec => []OutputOfItsFile
<1>1. AdiosInv => OutputOfItsFile
  BY DEF AdiosInv
<1> QED
  BY <1>1, AdiosInvInit, AdiosInvStep, PTL DEF AdiosSpec

-----------------------------------------------------------------------------

ProvenanceInv ==
    /\ nstr \in Nat /\ log \in Seq(Files)
    /\ names # NULL => DOMAIN names \subseteq 1 .. nstr
    /\ LoggedOnce

LEMMA ProvenanceInvInit == ProvenanceInit => ProvenanceInv
BY DEF ProvenanceInit, ProvenanceInv, LoggedOnce

\* What unique gets past holds every name in the log, and not the new one.
LEMMA NewIsNotLogged ==
    ASSUME ProvenanceInv, names # NULL, NEW f \in Files, New(f)
    PROVE  \A i \in DOMAIN log : log[i] # f /\ \E k \in DOMAIN names : names[k] = log[i]
<1> SUFFICES ASSUME NEW i \in DOMAIN log
             PROVE  log[i] # f /\ \E k \in DOMAIN names : names[k] = log[i]
  OBVIOUS
<1>1. \A k \in DOMAIN names : names[k] # f /\ names[k] # NULL
  BY DEF ProvenanceInv, New, Entry
<1> QED
  BY <1>1 DEF ProvenanceInv, LoggedOnce, Listed

LEMMA AppendKeeps ==
    ASSUME ProvenanceInv, NEW f \in Files, ProvenanceAppend(f)
    PROVE  ProvenanceInv'
<1> USE DEF ProvenanceInv
<1>1. names # NULL /\ New(f) /\ nstr' = nstr + 1
  BY DEF ProvenanceAppend
<1>2. CASE UNCHANGED <<names, log>>
  <2>1. names' # NULL => DOMAIN names' \subseteq 1 .. nstr'
    BY <1>1, <1>2
  <2>2. LoggedOnce'
    BY <1>2 DEF LoggedOnce, Listed
  <2> QED
    BY <1>1, <1>2, <2>1, <2>2
<1>3. ASSUME NEW stored \in {f, NULL},
             names' = [i \in 1 .. nstr + 1 |-> IF i = nstr + 1 THEN stored ELSE Entry(i)],
             log' \in {log, Append(log, f)}
      PROVE  ProvenanceInv'
  <2>1. DOMAIN names' = 1 .. nstr' /\ nstr' \in Nat
    BY <1>1, <1>3
  <2>2. nstr + 1 \in DOMAIN names' /\ names'[nstr + 1] = stored
    BY <1>1, <1>3
  <2>3. ASSUME NEW k \in DOMAIN names PROVE k \in DOMAIN names' /\ names'[k] = names[k]
    BY <1>1, <1>3 DEF Entry
  <2>4. \A i \in DOMAIN log : log[i] # f /\ \E k \in DOMAIN names' : names'[k] = log[i]
    BY <1>1, <2>3, NewIsNotLogged
  <2>5. CASE log' = log
    BY <2>1, <2>4, <2>5 DEF LoggedOnce, Listed
  <2>6. CASE log' = Append(log, f)
    <3>1. /\ log' \in Seq(Files) /\ Len(log') = Len(log) + 1 /\ Len(log) \in Nat
          /\ DOMAIN log = 1 .. Len(log) /\ DOMAIN log' = 1 .. Len(log')
          /\ log'[Len(log')] = f /\ \A i \in DOMAIN log : log'[i] = log[i]
      BY <2>6
    <3>2. \A i \in DOMAIN log' : i \in DOMAIN log \/ i = Len(log')
      BY <3>1
    <3>3. \A i, j \in DOMAIN log' : log'[i] = log'[j] => i = j
      BY <2>4, <3>1, <3>2 DEF LoggedOnce
    <3>4. ASSUME NEW i \in DOMAIN log'
          PROVE  \/ \E k \in DOMAIN names' : names'[k] = log'[i]
                 \/ i = Len(log') /\ \E k \in DOMAIN names' : names'[k] = NULL
      <4>1. CASE i \in DOMAIN log
        BY <2>4, <3>1, <4>1
      <4>2. CASE i = Len(log')
        BY <2>2, <3>1, <4>2
      <4> QED
        BY <3>2, <4>1, <4>2
    <3>5. LoggedOnce'
      BY <3>3, <3>4 DEF LoggedOnce, Listed
    <3> QED
      BY <2>1, <3>1, <3>5
  <2> QED
    BY <1>3, <2>5, <2>6
<1> QED
  BY <1>2, <1>3 DEF ProvenanceAppend

LEMMA ProvenanceInvStep ==
    ProvenanceInv /\ [ProvenanceNext]_<<programVars, provenanceVars>> => ProvenanceInv'
<1> SUFFICES ASSUME ProvenanceInv, [ProvenanceNext]_<<programVars, provenanceVars>>
             PROVE  ProvenanceInv'
  OBVIOUS
<1>1. CASE UNCHANGED provenanceVars
  BY <1>1 DEF provenanceVars, ProvenanceInv, LoggedOnce, Listed
<1>2. ASSUME NEW f \in Files, ProvenanceAppend(f) PROVE ProvenanceInv'
  BY <1>2, AppendKeeps
<1>3. CASE ProvenanceCleanup
  <2>1. UNCHANGED <<nstr, log>> /\ names # NULL
        /\ names' = IF nstr = 0 THEN <<>> ELSE NULL
    BY <1>3 DEF ProvenanceCleanup
  <2>2. nstr = 0 => \A i \in DOMAIN log : FALSE
    BY <2>1 DEF ProvenanceInv, LoggedOnce, Listed
  <2> QED
    BY <2>1, <2>2 DEF ProvenanceInv, LoggedOnce, Listed
<1>4. ASSUME NEW f \in Files,
             ProvenanceSkip(f) \/ ProvenanceFails(f) \/ ProvenanceClose(f)
      PROVE  UNCHANGED provenanceVars
  BY <1>4 DEF ProvenanceSkip, ProvenanceFails, ProvenanceClose
<1>5. UNCHANGED <<programVars, provenanceVars>> => UNCHANGED provenanceVars
  OBVIOUS
<1> QED
  BY <1>1, <1>2, <1>3, <1>4, <1>5 DEF ProvenanceNext

(* However many names there are, however often each is opened, and whichever   *)
(* allocation, of the list or of a name's copy, or log fails, no name is      *)
(* logged twice; the one that could not be copied is the last that is logged  *)
(* (trackdata.c's unique and append).                                         *)
THEOREM NamesLoggedOnce == ProvenanceSpec => []LoggedOnce
<1>1. ProvenanceInv => LoggedOnce
  BY DEF ProvenanceInv
<1> QED
  BY <1>1, ProvenanceInvInit, ProvenanceInvStep, PTL DEF ProvenanceSpec

-----------------------------------------------------------------------------

Image == [ts : Nat, fld : 0 .. 4, file : Files]

\* The counters are past every image there is.
CountersPast ==
    /\ ts \in Nat /\ fld \in 0 .. 4
    /\ images \in Seq(Image)
    /\ \A i \in DOMAIN images :
          images[i].ts < ts \/ (images[i].ts = ts /\ images[i].fld < fld)

\* Between files a step is over; in a file the counters follow its fields.
StepsFollowFile ==
    (~overlap /\ ~broken) =>
        /\ \A f, g \in live : f = g
        /\ live = {} => fld = 0
        /\ \A f \in live : /\ fld = fields[f] % 5
                           /\ \A i \in DOMAIN images : images[i].ts = ts => images[i].file = f

NekInv ==
    /\ CountersPast
    /\ ImagesKept
    /\ live \subseteq Files
    /\ fields \in [Files -> Nat]
    /\ StepsFollowFile
    /\ StepsOfOneFile

LEMMA NekInvInit == NekInit => NekInv
BY DEF NekInit, ProgramInit, NekInv, CountersPast, ImagesKept, StepsFollowFile,
       StepsOfOneFile

LEMMA CountStep ==
    ASSUME NEW k \in 0 .. 4
    PROVE  NextField(k) = IF k = 4 THEN <<1, 0>> ELSE <<0, k + 1>>
BY DEF NextField, PerStep

LEMMA FieldModulo ==
    ASSUME NEW n \in Nat
    PROVE  (n + 1) % 5 = IF n % 5 = 4 THEN 0 ELSE (n % 5) + 1
OBVIOUS

\* What a write of a field leaves: the images with one more, or with none more
\* where the field is the blank one.
LEMMA FieldDrawn ==
    ASSUME NekInv, NEW f \in Files, NekField(f)
    PROVE  /\ f \in live /\ UNCHANGED <<live, overlap, broken>>
           /\ fields' = [fields EXCEPT ![f] = fields[f] + 1]
           /\ (ts' = ts + 1 /\ fld' = 0 /\ fld = 4) \/ (ts' = ts /\ fld' = fld + 1 /\ fld < 4)
           /\ \/ images' = images
              \/ /\ images' \in Seq(Image) /\ DOMAIN images' = DOMAIN images \cup {Len(images) + 1}
                 /\ \A i \in DOMAIN images : images'[i] = images[i] /\ i < Len(images) + 1
                 /\ images'[Len(images) + 1].ts = ts
                 /\ images'[Len(images) + 1].fld = fld
                 /\ images'[Len(images) + 1].file = f
                 /\ fld < 4
<1> DEFINE im == [ts |-> ts, fld |-> fld, file |-> f]
<1>1. f \in live /\ UNCHANGED <<live, overlap, broken>>
      /\ fields' = [fields EXCEPT ![f] = fields[f] + 1]
  BY DEF NekField, Writes
<1>2. (ts' = ts + 1 /\ fld' = 0 /\ fld = 4) \/ (ts' = ts /\ fld' = fld + 1 /\ fld < 4)
  <2>1. ts \in Nat /\ fld \in 0 .. 4
    BY DEF NekInv, CountersPast
  <2>2. ts' = ts + NextField(fld)[1] /\ fld' = NextField(fld)[2]
    BY DEF NekField
  <2>3. NextField(fld) = IF fld = 4 THEN <<1, 0>> ELSE <<0, fld + 1>>
    BY <2>1, CountStep
  <2> QED
    BY <2>1, <2>2, <2>3
<1>3. images' = IF fld = 4 THEN images ELSE Append(images, im)
  BY DEF NekField, BlankField
<1>4. im \in Image /\ im.ts = ts /\ im.fld = fld /\ im.file = f
  BY DEF NekInv, CountersPast, Image
<1>5. ASSUME images' = Append(images, im)
      PROVE  /\ images' \in Seq(Image) /\ DOMAIN images' = DOMAIN images \cup {Len(images) + 1}
             /\ \A i \in DOMAIN images : images'[i] = images[i] /\ i < Len(images) + 1
             /\ images'[Len(images) + 1] = im
  <2>1. images \in Seq(Image) /\ Len(images) \in Nat /\ DOMAIN images = 1 .. Len(images)
    BY DEF NekInv, CountersPast
  <2>2. images' \in Seq(Image) /\ Len(images') = Len(images) + 1
    BY <1>4, <1>5, <2>1
  <2>3. DOMAIN images' = 1 .. Len(images) + 1
    BY <2>2
  <2>4. \A i \in 1 .. Len(images) : images'[i] = images[i]
    BY <1>5, <2>1
  <2>5. images'[Len(images) + 1] = im
    BY <1>5, <2>1
  <2> QED
    BY <2>1, <2>2, <2>3, <2>4, <2>5
<1>6. fld \in 0 .. 4
  BY DEF NekInv, CountersPast
<1> HIDE DEF im
<1> QED
  BY <1>1, <1>2, <1>3, <1>4, <1>5, <1>6

LEMMA NekFieldKeeps ==
    ASSUME NekInv, NEW f \in Files, NekField(f)
    PROVE  NekInv'
<1>1. /\ f \in live /\ UNCHANGED <<live, overlap, broken>>
      /\ fields' = [fields EXCEPT ![f] = fields[f] + 1]
  BY FieldDrawn
<1>2. (ts' = ts + 1 /\ fld' = 0 /\ fld = 4) \/ (ts' = ts /\ fld' = fld + 1 /\ fld < 4)
  BY FieldDrawn
<1>3. \/ images' = images
      \/ /\ images' \in Seq(Image) /\ DOMAIN images' = DOMAIN images \cup {Len(images) + 1}
         /\ \A i \in DOMAIN images : images'[i] = images[i] /\ i < Len(images) + 1
         /\ images'[Len(images) + 1].ts = ts
         /\ images'[Len(images) + 1].fld = fld
         /\ images'[Len(images) + 1].file = f
         /\ fld < 4
  BY FieldDrawn
<1>4. /\ ts \in Nat /\ fld \in 0 .. 4 /\ images \in Seq(Image)
      /\ \A i \in DOMAIN images :
            images[i].ts < ts \/ (images[i].ts = ts /\ images[i].fld < fld)
      /\ \A i \in DOMAIN images : images[i].ts \in Nat /\ images[i].fld \in 0 .. 4
  <2>1. CountersPast
    BY DEF NekInv
  <2>2. ASSUME NEW i \in DOMAIN images
        PROVE  images[i].ts \in Nat /\ images[i].fld \in 0 .. 4
    <3>1. images[i] \in Image
      BY <2>1 DEF CountersPast
    <3> QED
      BY <3>1 DEF Image
  <2> QED
    BY <2>1, <2>2 DEF CountersPast
<1>5. CountersPast'
  <2>1. ts' \in Nat /\ fld' \in 0 .. 4
    BY <1>2, <1>4
  <2>2. ASSUME NEW i \in DOMAIN images'
        PROVE  images'[i].ts < ts' \/ (images'[i].ts = ts' /\ images'[i].fld < fld')
    <3>1. CASE i \in DOMAIN images /\ images'[i] = images[i]
      BY <1>2, <1>4, <3>1
    <3>2. CASE images'[i].ts = ts /\ images'[i].fld = fld /\ fld < 4
      BY <1>2, <1>4, <3>2
    <3> QED
      BY <1>3, <3>1, <3>2
  <2> QED
    BY <1>3, <1>4, <2>1, <2>2 DEF CountersPast
<1>6. ImagesKept'
  <2> SUFFICES ASSUME NEW i \in DOMAIN images', NEW j \in DOMAIN images', i < j
               PROVE  images'[i].ts # images'[j].ts \/ images'[i].fld # images'[j].fld
    BY DEF ImagesKept
  <2>1. ImagesKept
    BY DEF NekInv
  <2>2. CASE images' = images
    BY <2>1, <2>2 DEF ImagesKept
  <2>3. CASE images' # images
    <3>1. DOMAIN images = 1 .. Len(images) /\ Len(images) \in Nat
      BY <1>4
    <3>2. i \in DOMAIN images /\ images'[i] = images[i]
      BY <1>3, <2>3, <3>1
    <3>3. CASE j \in DOMAIN images
      BY <1>3, <2>1, <2>3, <3>2, <3>3 DEF ImagesKept
    <3>4. CASE j = Len(images) + 1
      BY <1>3, <1>4, <2>3, <3>2, <3>4
    <3> QED
      BY <1>3, <2>3, <3>3, <3>4
  <2> QED
    BY <2>2, <2>3
<1>7. live' \subseteq Files /\ fields' \in [Files -> Nat]
  BY <1>1 DEF NekInv
<1>8. StepsFollowFile'
  <2> SUFFICES ASSUME ~overlap, ~broken PROVE StepsFollowFile'
    BY <1>1 DEF StepsFollowFile
  <2>1. /\ \A g, h \in live : g = h
        /\ fld = fields[f] % 5
        /\ \A i \in DOMAIN images : images[i].ts = ts => images[i].file = f
    BY <1>1 DEF NekInv, StepsFollowFile
  <2>2. fields[f] \in Nat /\ fields'[f] = fields[f] + 1
    BY <1>1 DEF NekInv
  <2>3. fld' = fields'[f] % 5
    <3>1. (fields[f] + 1) % 5 = IF fld = 4 THEN 0 ELSE fld + 1
      BY <2>1, <2>2, FieldModulo
    <3>2. fld' = IF fld = 4 THEN 0 ELSE fld + 1
      BY <1>2, <1>4
    <3> QED
      BY <2>2, <3>1, <3>2
  <2>4. ASSUME NEW i \in DOMAIN images', images'[i].ts = ts'
        PROVE  images'[i].file = f
    <3>1. CASE i \in DOMAIN images /\ images'[i] = images[i]
      BY <1>2, <1>4, <2>1, <2>4, <3>1
    <3>2. CASE images'[i].file = f
      BY <3>2
    <3> QED
      BY <1>3, <3>1, <3>2
  <2> QED
    BY <1>1, <2>1, <2>3, <2>4 DEF StepsFollowFile
<1>9. StepsOfOneFile'
  <2> SUFFICES ASSUME ~overlap, ~broken,
                      NEW i \in DOMAIN images', NEW j \in DOMAIN images',
                      images'[i].ts = images'[j].ts
               PROVE  images'[i].file = images'[j].file
    BY <1>1 DEF StepsOfOneFile
  <2>1. \A k \in DOMAIN images : images[k].ts = ts => images[k].file = f
    BY <1>1 DEF NekInv, StepsFollowFile
  <2>2. \A k, l \in DOMAIN images :
            images[k].ts = images[l].ts => images[k].file = images[l].file
    BY DEF NekInv, StepsOfOneFile
  <2>3. \A k \in DOMAIN images' :
            \/ k \in DOMAIN images /\ images'[k] = images[k]
            \/ images'[k].ts = ts /\ images'[k].file = f
    BY <1>3
  <2> QED
    BY <2>1, <2>2, <2>3
<1> QED
  BY <1>5, <1>6, <1>7, <1>8, <1>9 DEF NekInv

LEMMA NekInvStep == NekInv /\ [NekNext]_<<programVars, nekVars>> => NekInv'
<1> SUFFICES ASSUME NekInv, [NekNext]_<<programVars, nekVars>> PROVE NekInv'
  OBVIOUS
<1> USE DEF NekInv, CountersPast, ImagesKept, StepsFollowFile, StepsOfOneFile
<1>1. CASE UNCHANGED <<programVars, nekVars>>
  BY <1>1 DEF programVars, nekVars
<1>2. ASSUME NEW f \in Files, NekOpen(f) PROVE NekInv'
  <2>1. /\ UNCHANGED <<quant, ts, fld, images, broken, overlap>>
        /\ live' = live \cup {f} /\ (overlap \/ live = {})
        /\ fields' = [fields EXCEPT ![f] = 0]
    BY <1>2 DEF NekOpen, Opens
  <2>2. fields' \in [Files -> Nat] /\ fields'[f] % 5 = 0
    BY <2>1
  <2>3. live = {} /\ ~overlap /\ ~broken => fld = 0
    OBVIOUS
  <2>4. ASSUME fld = 0, NEW i \in DOMAIN images PROVE images[i].ts # ts
    <3>1. images[i] \in Image
      OBVIOUS
    <3>2. images[i].ts \in Nat /\ images[i].fld \in 0 .. 4
      BY <3>1 DEF Image
    <3> QED
      BY <2>4, <3>2
  <2>5. StepsFollowFile'
    BY <2>1, <2>2, <2>3, <2>4
  <2> QED
    BY <2>1, <2>2, <2>5
<1>3. ASSUME NEW f \in Files, NekFinish(f) PROVE NekInv'
  <2>1. /\ UNCHANGED <<ts, fld, images, fields, overlap>>
        /\ f \in live /\ live' = live \ {f}
        /\ broken' = (broken \/ fields[f] % 5 # 0)
    BY <1>3 DEF NekFinish, Closes, PerStep
  <2>2. StepsFollowFile' /\ StepsOfOneFile'
    BY <2>1
  <2> QED
    BY <2>1, <2>2
<1>4. ASSUME NEW f \in Files, NEW n \in OtherSizes, NekOther(f, n) PROVE NekInv'
  BY <1>4 DEF NekOther, Writes, nekVars
<1>5. ASSUME NEW f \in Files, NekField(f) PROVE NekInv'
  BY <1>5, NekFieldKeeps
<1>6. ASSUME NEW f \in Files, NekNoBuffer(f) PROVE NekInv'
  BY <1>6 DEF NekNoBuffer, Writes, nekVars
<1> QED
  BY <1>1, <1>2, <1>3, <1>4, <1>5, <1>6 DEF NekNext

(* No image is drawn over another, whatever files the program writes           *)
(* (nek5k.mpi.c's counters and file names).                                   *)
THEOREM ImagesNeverOverdrawn == NekSpec => []ImagesKept
<1>1. NekInv => ImagesKept
  BY DEF NekInv
<1> QED
  BY <1>1, NekInvInit, NekInvStep, PTL DEF NekSpec

(* When files hold whole steps and do not overlap, a step is drawn from one    *)
(* file, although the counters are never reset.                               *)
THEOREM OneFilePerStep == NekSpec => []StepsOfOneFile
<1>1. NekInv => StepsOfOneFile
  BY DEF NekInv
<1> QED
  BY <1>1, NekInvInit, NekInvStep, PTL DEF NekSpec

(* Hence no image of nek5k is lost and those of a step show one file.        *)
THEOREM ImagesStayRight == NekSpec => []ImagesRight
<1>1. ImagesKept /\ StepsOfOneFile => ImagesRight
  BY DEF ImagesRight
<1> QED
  BY <1>1, ImagesNeverOverdrawn, OneFilePerStep, PTL

-----------------------------------------------------------------------------
(* Least and greatest elements.                                               *)

LEMMA Smallest ==
    ASSUME NEW T, T \subseteq Nat, T # {}
    PROVE  \E x \in T : \A y \in T : x <= y
<1> DEFINE R == OpToRel(<, Nat)
<1>1. IsWellFoundedOn(R, Nat)
  BY NatLessThanWellFounded
<1>2. \A x, y \in Nat : <<y, x>> \in R <=> y < x
  BY Z3 DEF OpToRel
<1> HIDE DEF R
<1>3. PICK x \in T : \A y \in T : ~ (<<y, x>> \in R)
  BY <1>1, WFMin
<1>4. ASSUME NEW y \in T PROVE x <= y
  <2>1. x \in Nat /\ y \in Nat /\ ~(<<y, x>> \in R)
    BY <1>3
  <2>2. ~(y < x)
    BY <1>2, <2>1
  <2> QED
    BY <2>1, <2>2
<1> QED
  BY <1>4

LEMMA Extremes ==
    ASSUME NEW T, T \subseteq INT_MIN .. INT_MAX, T # {}
    PROVE  /\ \E x \in T : \A y \in T : x <= y
           /\ \E x \in T : \A y \in T : x >= y
<1> USE MinmaxAssumption
<1>1. \E x \in T : \A y \in T : x <= y
  <2> DEFINE U == {v - INT_MIN : v \in T}
  <2>1. U \subseteq Nat /\ U # {}
    <3>1. \A v \in T : v - INT_MIN \in Nat
      OBVIOUS
    <3>2. PICK v \in T : TRUE
      OBVIOUS
    <3>3. v - INT_MIN \in U
      OBVIOUS
    <3> QED
      BY <3>1, <3>3
  <2>2. PICK u \in U : \A w \in U : u <= w
    <3> HIDE DEF U
    <3> QED
      BY <2>1, Smallest
  <2>3. PICK x \in T : u = x - INT_MIN
    OBVIOUS
  <2>4. ASSUME NEW y \in T PROVE x <= y
    <3>1. y - INT_MIN \in U /\ x \in Int /\ y \in Int
      OBVIOUS
    <3>2. x - INT_MIN <= y - INT_MIN
      BY <2>2, <2>3, <3>1
    <3> QED
      BY <3>1, <3>2
  <2> QED
    BY <2>4
<1>2. \E x \in T : \A y \in T : x >= y
  <2> DEFINE U == {INT_MAX - v : v \in T}
  <2>1. U \subseteq Nat /\ U # {}
    <3>1. \A v \in T : INT_MAX - v \in Nat
      OBVIOUS
    <3>2. PICK v \in T : TRUE
      OBVIOUS
    <3>3. INT_MAX - v \in U
      OBVIOUS
    <3> QED
      BY <3>1, <3>3
  <2>2. PICK u \in U : \A w \in U : u <= w
    <3> HIDE DEF U
    <3> QED
      BY <2>1, Smallest
  <2>3. PICK x \in T : u = INT_MAX - x
    OBVIOUS
  <2>4. ASSUME NEW y \in T PROVE x >= y
    <3>1. INT_MAX - y \in U /\ x \in Int /\ y \in Int
      OBVIOUS
    <3>2. INT_MAX - x <= INT_MAX - y
      BY <2>2, <2>3, <3>1
    <3> QED
      BY <3>1, <3>2
  <2> QED
    BY <2>4
<1> QED
  BY <1>1, <1>2

-----------------------------------------------------------------------------
(* Enzo's numbered files.                                                     *)

DumpsTyped == writes \in Nat /\ dumps \in [0 .. Tries - 1 -> {NULL} \cup 0 .. writes]

(* No name that could be taken comes before one that the job has taken.       *)
NoGap == \A i, j \in 0 .. Tries - 1 : i < j /\ Own(j) => dumps[i] # NULL

DumpsInv == DumpsTyped /\ NoGap /\ DumpsInOrder

(* The first name whose file can be made.                                     *)
LEMMA FirstFree ==
    ASSUME EnzoSlot # {}
    PROVE  \E i \in EnzoSlot : /\ i = CHOOSE k \in EnzoSlot : \A j \in EnzoSlot : k <= j
                               /\ \A j \in EnzoSlot : i <= j
<1>1. EnzoSlot \subseteq Nat
  BY WritersAssumption DEF EnzoSlot
<1>2. \E i \in EnzoSlot : \A j \in EnzoSlot : i <= j
  BY <1>1, Smallest
<1> QED
  BY <1>2

(* A write that finds no name is lost, and every name holds an older file.    *)
LEMMA DumpLost ==
    ASSUME DumpsInv, EnzoSlot = {}, writes' = writes + 1, dumps' = dumps
    PROVE  DumpsInv'
<1> USE WritersAssumption DEF Earlier
<1>1. writes \in Nat /\ \A i \in 0 .. Tries - 1 : dumps[i] # NULL /\ dumps[i] \in 0 .. writes
  BY DEF DumpsInv, DumpsTyped, EnzoSlot
<1>2. DumpsTyped' /\ NoGap'
  BY <1>1 DEF DumpsInv, DumpsTyped, NoGap, Own
<1>3. ASSUME NEW k \in 1 .. writes'
      PROVE  \/ \E i \in 0 .. Tries - 1 : dumps'[i] = k
             \/ /\ \A i \in 0 .. Tries - 1 : dumps'[i] # NULL
                /\ \A i \in 0 .. Tries - 1 : Own(i)' => dumps'[i] < k
  <2>1. CASE k \in 1 .. writes
    BY <2>1 DEF DumpsInv, DumpsInOrder, Own
  <2>2. CASE k = writes + 1
    BY <1>1, <2>2
  <2> QED
    BY <1>1, <2>1, <2>2
<1> QED
  BY <1>2, <1>3 DEF DumpsInv, DumpsInOrder, Own

(* A write that finds a name is behind all the others.                        *)
LEMMA DumpMade ==
    ASSUME DumpsInv, NEW first \in EnzoSlot, \A j \in EnzoSlot : first <= j,
           writes' = writes + 1, dumps' = [dumps EXCEPT ![first] = writes + 1]
    PROVE  DumpsInv'
<1> USE WritersAssumption DEF Earlier
<1>1. /\ writes \in Nat /\ first \in 0 .. Tries - 1 /\ dumps[first] = NULL
      /\ \A i \in 0 .. Tries - 1 : dumps[i] \in {NULL} \cup 0 .. writes
  BY DEF DumpsInv, DumpsTyped, EnzoSlot
<1>2. dumps'[first] = writes + 1 /\ \A i \in 0 .. Tries - 1 : i # first => dumps'[i] = dumps[i]
  BY <1>1 DEF DumpsInv, DumpsTyped
<1>3. DumpsTyped'
  BY <1>1 DEF DumpsInv, DumpsTyped
<1>4. \A i \in 0 .. Tries - 1 : i < first => dumps[i] # NULL
  BY <1>1 DEF EnzoSlot
<1>5. \A i \in 0 .. Tries - 1 : i # first => (Own(i)' <=> Own(i))
  BY <1>2 DEF Own
<1>6. NoGap'
  <2> SUFFICES ASSUME NEW i \in 0 .. Tries - 1, NEW j \in 0 .. Tries - 1, i < j, Own(j)'
               PROVE  dumps'[i] # NULL
    BY DEF NoGap
  <2>1. CASE j = first
    BY <1>2, <1>4, <2>1
  <2>2. CASE j # first
    BY <1>1, <1>2, <1>5, <2>2 DEF DumpsInv, NoGap
  <2> QED
    BY <2>1, <2>2
<1>7. ASSUME NEW i \in 0 .. Tries - 1, NEW j \in 0 .. Tries - 1, i < j, Own(i)', Own(j)'
      PROVE  dumps'[i] < dumps'[j]
  <2>1. CASE j = first
    <3>1. Own(i) /\ dumps'[i] = dumps[i] /\ dumps[i] \in 0 .. writes
      BY <1>1, <1>2, <1>5, <1>7, <2>1 DEF Own
    <3> QED
      BY <1>1, <1>2, <2>1, <3>1
  <2>2. CASE j # first
    <3>1. Own(j)
      BY <1>5, <1>7, <2>2
    <3>2. i # first
      BY <1>1, <1>7, <3>1 DEF DumpsInv, NoGap
    <3> QED
      BY <1>2, <1>5, <1>7, <2>2, <3>1, <3>2 DEF DumpsInv, DumpsInOrder
  <2> QED
    BY <2>1, <2>2
<1>8. ASSUME NEW k \in 1 .. writes'
      PROVE  \E i \in 0 .. Tries - 1 : dumps'[i] = k
  <2>1. CASE k \in 1 .. writes
    <3>1. PICK i \in 0 .. Tries - 1 : dumps[i] = k
      BY <1>1, <2>1 DEF DumpsInv, DumpsInOrder
    <3>2. i # first
      BY <1>1, <2>1, <3>1
    <3> QED
      BY <1>2, <3>1, <3>2
  <2>2. CASE k = writes + 1
    BY <1>1, <1>2, <2>2
  <2> QED
    BY <1>1, <2>1, <2>2
<1> QED
  BY <1>3, <1>6, <1>7, <1>8 DEF DumpsInv, DumpsInOrder

LEMMA DumpsStep == DumpsInv /\ [EnzoNext]_<<programVars, writersVars>> => DumpsInv'
<1> SUFFICES ASSUME DumpsInv, [EnzoNext]_<<programVars, writersVars>> PROVE DumpsInv'
  OBVIOUS
<1>1. CASE UNCHANGED <<dumps, writes>>
  BY <1>1 DEF DumpsInv, DumpsTyped, NoGap, DumpsInOrder, Own
<1>2. ASSUME NEW f \in Files, NEW n \in WriteSizes, EnzoExec(f, n) PROVE DumpsInv'
  <2>1. writes' = writes + 1
    BY <1>2 DEF EnzoExec
  <2>2. CASE EnzoSlot = {}
    BY <1>2, <2>1, <2>2, DumpLost DEF EnzoExec
  <2>3. CASE EnzoSlot # {}
    <3>1. PICK i \in EnzoSlot : /\ i = CHOOSE k \in EnzoSlot : \A j \in EnzoSlot : k <= j
                                /\ \A j \in EnzoSlot : i <= j
      BY <2>3, FirstFree
    <3>2. dumps' = [dumps EXCEPT ![i] = writes + 1]
      BY <1>2, <2>1, <2>3, <3>1 DEF EnzoExec
    <3> QED
      BY <2>1, <3>1, <3>2, DumpMade
  <2> QED
    BY <2>2, <2>3
<1> QED
  BY <1>1, <1>2 DEF EnzoNext, WritersOpen, EnzoFinish, writersVars

(* The writes of a job stay in its files in the order in which they were made, *)
(* with none missing before the names run out, however many there are and     *)
(* whatever earlier jobs have left between them (enzo.mpi.c's search for a    *)
(* name that is free).                                                        *)
THEOREM DumpsStayInOrder == EnzoSpec => []DumpsInOrder
<1>1. WritersInit => DumpsInv
  BY WritersAssumption DEF WritersInit, DumpsInv, DumpsTyped, NoGap, DumpsInOrder, Own, Earlier
<1>2. DumpsInv => DumpsInOrder
  BY DEF DumpsInv
<1> QED
  BY <1>1, <1>2, DumpsStep, PTL DEF EnzoSpec

-----------------------------------------------------------------------------
(* The range of minmax.                                                       *)

(* The two halves of Narrowed.                                                *)
MinOf(T) == CHOOSE v \in T : \A w \in T : v <= w
MaxOf(T) == CHOOSE v \in T : \A w \in T : v >= w

LEMMA OfBounded ==
    ASSUME NEW T, T \subseteq INT_MIN .. INT_MAX, T # {}
    PROVE  /\ MinOf(T) \in T /\ \A w \in T : MinOf(T) <= w
           /\ MaxOf(T) \in T /\ \A w \in T : MaxOf(T) >= w
BY Extremes DEF MinOf, MaxOf

(* Narrowing by one write after another is narrowing by what both wrote.       *)
LEMMA NarrowedTwice ==
    ASSUME NEW V, NEW S, V \subseteq Values, S \subseteq Values
    PROVE  Narrowed(Narrowed(Unset, V), S) = Narrowed(Unset, V \cup S)
<1> USE MinmaxAssumption
<1>1. V \cup S \subseteq INT_MIN .. INT_MAX
  OBVIOUS
<1> DEFINE lo == MinOf(V \cup {INT_MAX})
           hi == MaxOf(V \cup {INT_MIN})
<1>2. /\ V \cup {INT_MAX} \subseteq INT_MIN .. INT_MAX
      /\ V \cup {INT_MIN} \subseteq INT_MIN .. INT_MAX
      /\ (V \cup S) \cup {INT_MAX} \subseteq INT_MIN .. INT_MAX
      /\ (V \cup S) \cup {INT_MIN} \subseteq INT_MIN .. INT_MAX
  BY <1>1
<1>3. /\ lo \in V \cup {INT_MAX} /\ \A w \in V \cup {INT_MAX} : lo <= w
      /\ hi \in V \cup {INT_MIN} /\ \A w \in V \cup {INT_MIN} : hi >= w
  BY <1>2, OfBounded
<1> HIDE DEF lo, hi
<1>4. S \cup {lo} \subseteq INT_MIN .. INT_MAX /\ S \cup {hi} \subseteq INT_MIN .. INT_MAX
  BY <1>1, <1>2, <1>3
<1>5. MinOf(S \cup {lo}) = MinOf((V \cup S) \cup {INT_MAX})
  <2> DEFINE x == MinOf(S \cup {lo})
             y == MinOf((V \cup S) \cup {INT_MAX})
  <2>1. x \in S \cup {lo} /\ \A w \in S \cup {lo} : x <= w
    BY <1>4, OfBounded
  <2>2. y \in (V \cup S) \cup {INT_MAX} /\ \A w \in (V \cup S) \cup {INT_MAX} : y <= w
    BY <1>2, OfBounded
  <2> HIDE DEF x, y
  <2>3. x \in Int /\ y \in Int /\ lo \in Int
    BY <1>2, <1>3, <1>4, <2>1, <2>2
  <2>4. y <= x
    BY <1>3, <2>1, <2>2
  <2>5. x <= y
    <3>1. CASE y \in S
      BY <2>1, <3>1
    <3>2. CASE y \in V \cup {INT_MAX}
      <4>1. lo <= y /\ x <= lo
        BY <1>3, <2>1, <3>2
      <4> QED
        BY <2>3, <4>1
    <3> QED
      BY <2>2, <3>1, <3>2
  <2>6. x = y
    BY <2>3, <2>4, <2>5
  <2> QED
    BY <2>6 DEF x, y
<1>6. MaxOf(S \cup {hi}) = MaxOf((V \cup S) \cup {INT_MIN})
  <2> DEFINE x == MaxOf(S \cup {hi})
             y == MaxOf((V \cup S) \cup {INT_MIN})
  <2>1. x \in S \cup {hi} /\ \A w \in S \cup {hi} : x >= w
    BY <1>4, OfBounded
  <2>2. y \in (V \cup S) \cup {INT_MIN} /\ \A w \in (V \cup S) \cup {INT_MIN} : y >= w
    BY <1>2, OfBounded
  <2> HIDE DEF x, y
  <2>3. x \in Int /\ y \in Int /\ hi \in Int
    BY <1>2, <1>3, <1>4, <2>1, <2>2
  <2>4. y >= x
    BY <1>3, <2>1, <2>2
  <2>5. x >= y
    <3>1. CASE y \in S
      BY <2>1, <3>1
    <3>2. CASE y \in V \cup {INT_MIN}
      <4>1. hi >= y /\ x >= hi
        BY <1>3, <2>1, <3>2
      <4> QED
        BY <2>3, <4>1
    <3> QED
      BY <2>2, <3>1, <3>2
  <2>6. x = y
    BY <2>3, <2>4, <2>5
  <2> QED
    BY <2>6 DEF x, y
<1>7. Narrowed(Unset, V) = <<lo, hi>>
  BY DEF Narrowed, Unset, lo, hi, MinOf, MaxOf
<1>8. Narrowed(<<lo, hi>>, S) = <<MinOf(S \cup {lo}), MaxOf(S \cup {hi})>>
  BY DEF Narrowed, MinOf, MaxOf
<1>9. Narrowed(Unset, V \cup S)
        = <<MinOf((V \cup S) \cup {INT_MAX}), MaxOf((V \cup S) \cup {INT_MIN})>>
  BY DEF Narrowed, Unset, MinOf, MaxOf
<1> QED
  BY <1>5, <1>6, <1>7, <1>8, <1>9

LEMMA NarrowedNone == Narrowed(Unset, {}) = Unset
BY MinmaxAssumption DEF Narrowed, Unset

(* The pair is the range of what was written to the file that is open, if it   *)
(* has been alone with the file hook.                                         *)
MinmaxInv ==
    /\ live \subseteq Files
    /\ values \in [Files -> SUBSET Values]
    /\ \A f \in live \ disturbed : /\ live = {f}
                                   /\ minmax = Narrowed(Unset, values[f])
    /\ RangeOfItsFile

LEMMA MinmaxStep == MinmaxInv /\ [MinmaxNext]_<<programVars, minmaxVars>> => MinmaxInv'
<1> SUFFICES ASSUME MinmaxInv, [MinmaxNext]_<<programVars, minmaxVars>> PROVE MinmaxInv'
  OBVIOUS
<1> USE DEF MinmaxInv, RangeOfItsFile
<1>1. CASE UNCHANGED <<programVars, minmaxVars>>
  BY <1>1 DEF programVars, minmaxVars
<1>2. ASSUME NEW f \in Files, MinmaxFile(f) PROVE MinmaxInv'
  <2>1. minmax' = Unset /\ printed' = printed
    BY <1>2 DEF MinmaxFile
  <2>2. CASE Refuses(f) /\ disturbed' = disturbed \cup live /\ UNCHANGED values
    BY <2>1, <2>2 DEF Refuses
  <2>3. CASE /\ Opens(f) /\ values' = [values EXCEPT ![f] = {}]
             /\ disturbed' = IF live = {} THEN disturbed \ {f} ELSE disturbed \cup live'
    <3>1. f \notin live /\ live' = live \cup {f}
      BY <2>3 DEF Opens
    <3>2. /\ values' \in [Files -> SUBSET Values] /\ values'[f] = {}
          /\ \A g : g # f => values'[g] = values[g]
      BY <2>3
    <3>3. minmax' = Narrowed(Unset, values'[f])
      BY <2>1, <3>2, NarrowedNone
    <3>4. \A g \in live' \ disturbed' : g = f /\ live' = {f}
      BY <2>3, <3>1
    <3>5. RangeOfItsFile'
      BY <2>1, <2>3, <3>1, <3>2
    <3> QED
      BY <3>1, <3>2, <3>3, <3>4, <3>5
  <2> QED
    BY <1>2, <2>2, <2>3 DEF MinmaxFile, Announced
<1>3. ASSUME NEW f \in Files, MinmaxFinish(f) PROVE MinmaxInv'
  <2>1. /\ f \in live /\ live' = live \ {f} /\ UNCHANGED <<values, disturbed>>
        /\ printed' = [file |-> f, range |-> minmax]
    BY <1>3 DEF MinmaxFinish, Closes
  <2>2. f \notin disturbed => live' = {} /\ minmax = Narrowed(Unset, values[f])
    BY <2>1
  <2>3. \A g \in live' \ disturbed' : FALSE
    BY <2>1
  <2> QED
    BY <2>1, <2>2, <2>3
<1>4. ASSUME NEW f \in Files, NEW n \in WriteSizes, MinmaxExec(f, n) PROVE MinmaxInv'
  <2>1. f \in live /\ UNCHANGED <<live, printed, disturbed>>
    BY <1>4 DEF MinmaxExec, Writes
  <2>2. PICK seen \in SUBSET Values :
          /\ minmax' = Narrowed(minmax, seen)
          /\ values' = [values EXCEPT ![f] = @ \cup seen]
    BY <1>4 DEF MinmaxExec
  <2>3. /\ values' \in [Files -> SUBSET Values] /\ values'[f] = values[f] \cup seen
        /\ \A g : g # f => values'[g] = values[g]
    BY <2>2
  <2>4. f \notin disturbed => minmax' = Narrowed(Unset, values'[f])
    BY <2>1, <2>2, <2>3, NarrowedTwice
  <2>5. RangeOfItsFile'
    BY <2>1, <2>3
  <2> QED
    BY <2>1, <2>3, <2>4, <2>5
<1> QED
  BY <1>1, <1>2, <1>3, <1>4 DEF MinmaxNext

(* The range printed for a file is that of its own integers, whichever files   *)
(* came before it, whichever finish is loaded and whatever the program does,  *)
(* if no other open was announced, failed or not, while the file was being    *)
(* written (minmax.c's and mminit.c's shared pair).                           *)
THEOREM RangesStayOwn == MinmaxSpec => []RangeOfItsFile
<1>1. MinmaxInit => MinmaxInv
  BY DEF MinmaxInit, ProgramInit, MinmaxInv, RangeOfItsFile
<1>2. MinmaxInv => RangeOfItsFile
  BY DEF MinmaxInv
<1> QED
  BY <1>1, <1>2, MinmaxStep, PTL DEF MinmaxSpec

=============================================================================
