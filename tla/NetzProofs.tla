------------------------------ MODULE NetzProofs ------------------------------
(***************************************************************************)
(* Proofs about netz, for every brick size, arrangement of ranks and way of*)
(* cutting the stream: byteintersect cuts exactly the common part of a     *)
(* write and a field, and says when it fails; so the per-rank file of a    *)
(* field is exact; the merge puts every byte of it where the header says   *)
(* and a brick is whole there unless another rank truncated the volume; and *)
(* what has been streamed of a slice is in its file, except for what the   *)
(* lists of scanlines leave out and what another rank's truncation took.   *)
(***************************************************************************)
EXTENDS Netz, SequenceTheorems, WellFoundedInduction, TLAPS

(***************************************************************************)
(* netz.mpic:589-592 as it is: an intersection that passes the assertions is *)
(* the range from the later beginning to the earlier end; none means the   *)
(* ranges are apart.                                                       *)
(***************************************************************************)
THEOREM IntersectionExact ==
    ASSUME NEW lower \in Nat, NEW n \in Nat \ {0},
           NEW fldlower \in Nat, NEW size \in Nat \ {0},
           NEW x, x = byteintersect(lower, lower + n, fldlower, fldlower + size),
           x.ok
    PROVE  /\ x.hit \in BOOLEAN /\ x.skip \in Nat /\ x.nwrite \in Nat
           /\ x.hit =>
                /\ fldlower <= lower + n /\ lower < fldlower + size
                /\ lower + x.skip = IF lower < fldlower THEN fldlower ELSE lower
                /\ lower + x.skip + x.nwrite =
                     IF lower + n < fldlower + size THEN lower + n ELSE fldlower + size
           /\ ~x.hit => lower + n < fldlower \/ lower >= fldlower + size
BY SMTT(30) DEF byteintersect, Cases, Hit, Miss, Abort

(***************************************************************************)
(* The assertions of byteintersect fail for one shape of write: one that   *)
(* begins inside a field and ends where the field ends (netz.mpic:619).    *)
(***************************************************************************)
THEOREM IntersectionAborts ==
    ASSUME NEW lower \in Nat, NEW n \in Nat \ {0},
           NEW fldlower \in Nat, NEW size \in Nat \ {0}
    PROVE  ~byteintersect(lower, lower + n, fldlower, fldlower + size).ok
           <=> lower > fldlower /\ lower + n = fldlower + size
BY SMTT(30) DEF byteintersect, Cases, Hit, Miss, Abort

-----------------------------------------------------------------------------

LEMMA NoWrap ==
    ASSUME NEW a \in Nat, NEW m \in Nat, a < m
    PROVE  a % m = a
BY SMT

LEMMA FieldFacts ==
    ASSUME SmallStream, NEW f \in Field
    PROVE  /\ Pos(f) \in Nat /\ FieldSize \in Nat \ {0}
           /\ Lower(f) = Pos(f) /\ Upper(f) = Pos(f) + FieldSize
<1>1. /\ Pos(f) \in Nat /\ FieldSize \in Nat \ {0} /\ Total \in Nat /\ Uint \in Nat
      /\ Pos(f) + FieldSize <= Total
  BY NetzAssumption
<1>2. Pos(f) < Uint /\ Pos(f) + FieldSize < Uint  BY <1>1 DEF SmallStream
<1> QED  BY <1>1, <1>2, NoWrap DEF Lower, Upper, broadcastzu

LEMMA RunFacts ==
    ASSUME NEW r, NEW a \in Nat, NEW m \in Nat
    PROVE  /\ Run(r, a, m) \in Seq({r} \X Nat) /\ Len(Run(r, a, m)) = m
           /\ \A j \in 1..m : Run(r, a, m)[j] = <<r, a + (j - 1)>>
BY DEF Run

LEMMA RunsJoin ==
    ASSUME NEW r, NEW a \in Nat, NEW m \in Nat, NEW n \in Nat
    PROVE  Run(r, a, m) \o Run(r, a + m, n) = Run(r, a, m + n)
<1> DEFINE left == Run(r, a, m)
           right == Run(r, a + m, n)
           whole == Run(r, a, m + n)
<1>1. /\ left \in Seq({r} \X Nat) /\ Len(left) = m
      /\ \A j \in 1..m : left[j] = <<r, a + (j - 1)>>
  BY RunFacts
<1>2. /\ right \in Seq({r} \X Nat) /\ Len(right) = n
      /\ \A j \in 1..n : right[j] = <<r, (a + m) + (j - 1)>>
  <2>1. a + m \in Nat  OBVIOUS
  <2> QED  BY <2>1, RunFacts
<1>3. /\ whole \in Seq({r} \X Nat) /\ Len(whole) = m + n
      /\ \A j \in 1..(m + n) : whole[j] = <<r, a + (j - 1)>>
  <2>1. m + n \in Nat  OBVIOUS
  <2> QED  BY <2>1, RunFacts
<1> HIDE DEF left, right, whole
<1>4. /\ left \o right \in Seq({r} \X Nat)
      /\ Len(left \o right) = m + n
      /\ \A j \in 1..(m + n) :
            (left \o right)[j] = IF j <= m THEN left[j] ELSE right[j - m]
  BY <1>1, <1>2, ConcatProperties
<1>5. ASSUME NEW j \in 1..(m + n)
      PROVE  (left \o right)[j] = whole[j]
  <2>1. CASE j <= m
    <3>1. j \in 1..m  BY <2>1
    <3> QED  BY <2>1, <3>1, <1>1, <1>3, <1>4
  <2>2. CASE ~(j <= m)
    <3>1. j - m \in 1..n /\ (a + m) + ((j - m) - 1) = a + (j - 1)  BY <2>2
    <3> QED  BY <2>2, <3>1, <1>2, <1>3, <1>4
  <2> QED  BY <2>1, <2>2
<1>6. left \o right = whole  BY <1>1, <1>3, <1>4, <1>5, SeqEqual
<1> QED  BY <1>6 DEF left, right, whole

-----------------------------------------------------------------------------

(***************************************************************************)
(* The inductive invariant: from the moment a rank has its configuration,  *)
(* and not only once its loop of opens is through, its files are exact.    *)
(***************************************************************************)
States ==
    {"header", "opening", "running", "slicing", "merging", "writing", "done"}
InStream == {"opening", "running", "slicing"}

Streaming(r) ==
    /\ pc[r] # "slicing" => taken[r] = 0
    /\ pc[r] \in InStream =>
         \A f \in Out3D : brick[r][f] = Run(r, Pos(f), Passed(r, f))

BrickInv ==
    /\ offset \in [Rank -> Nat] /\ taken \in [Rank -> Nat]
    /\ brick \in [Rank -> [Field -> Seq(Rank \X Int)]]
    /\ pc \in [Rank -> States]
    /\ \A r \in Rank : Streaming(r)

LEMMA PassedFacts ==
    ASSUME SmallStream, NEW r \in Rank, NEW f \in Out3D, offset[r] \in Nat, taken[r] \in Nat
    PROVE  /\ Passed(r, f) \in Nat
           /\ offset[r] + taken[r] = 0 => Passed(r, f) = 0
BY FieldFacts, NetzAssumption DEF Passed

(* What one write adds to the part of a field that has gone by.            *)
LEMMA PassedGrows ==
    ASSUME SmallStream, NEW r \in Rank, NEW f \in Out3D, NEW n \in Nat \ {0},
           offset[r] \in Nat, taken[r] = 0, offset'[r] + taken'[r] = offset[r] + n,
           Fits(In3D(r, n, f), n)
    PROVE  LET x == In3D(r, n, f) IN
           IF x.hit
           THEN /\ x.nwrite \in Nat /\ Passed(r, f)' = Passed(r, f) + x.nwrite
                /\ x.nwrite > 0 /\ offset[r] + x.skip = Pos(f) + Passed(r, f)
           ELSE Passed(r, f)' = Passed(r, f)
<1> DEFINE x == In3D(r, n, f)
<1>1. f \in Field  BY NetzAssumption
<1>2. /\ Pos(f) \in Nat /\ FieldSize \in Nat \ {0}
      /\ Lower(f) = Pos(f) /\ Upper(f) = Pos(f) + FieldSize
  BY <1>1, FieldFacts
<1>3. x = byteintersect(offset[r], offset[r] + n, Pos(f), Pos(f) + FieldSize)
  BY <1>2 DEF In3D
<1>4. x.ok  BY DEF Fits
<1> HIDE DEF x
<1>5. /\ x.hit \in BOOLEAN /\ x.skip \in Nat /\ x.nwrite \in Nat
      /\ x.hit =>
           /\ Pos(f) <= offset[r] + n /\ offset[r] < Pos(f) + FieldSize
           /\ offset[r] + x.skip = IF offset[r] < Pos(f) THEN Pos(f) ELSE offset[r]
           /\ offset[r] + x.skip + x.nwrite =
                IF offset[r] + n < Pos(f) + FieldSize
                THEN offset[r] + n ELSE Pos(f) + FieldSize
      /\ ~x.hit => offset[r] + n < Pos(f) \/ offset[r] >= Pos(f) + FieldSize
  <2> DEFINE y == byteintersect(offset[r], offset[r] + n, Pos(f), Pos(f) + FieldSize)
  <2>1. y.ok =>
          /\ y.hit \in BOOLEAN /\ y.skip \in Nat /\ y.nwrite \in Nat
          /\ y.hit =>
               /\ Pos(f) <= offset[r] + n /\ offset[r] < Pos(f) + FieldSize
               /\ offset[r] + y.skip = IF offset[r] < Pos(f) THEN Pos(f) ELSE offset[r]
               /\ offset[r] + y.skip + y.nwrite =
                    IF offset[r] + n < Pos(f) + FieldSize
                    THEN offset[r] + n ELSE Pos(f) + FieldSize
          /\ ~y.hit => offset[r] + n < Pos(f) \/ offset[r] >= Pos(f) + FieldSize
    BY <1>2, IntersectionExact
  <2>2. x = y  BY <1>3
  <2> HIDE DEF y
  <2> QED  BY <2>1, <2>2, <1>4
<1>6. x.hit => x.nwrite <= n /\ x.skip < n  BY DEF x, Fits
<1>7. Passed(r, f)' = IF offset[r] + n <= Pos(f) THEN 0
                      ELSE IF offset[r] + n >= Pos(f) + FieldSize THEN FieldSize
                      ELSE offset[r] + n - Pos(f)
  BY <1>2 DEF Passed, Pos
<1>8. Passed(r, f) = IF offset[r] <= Pos(f) THEN 0
                     ELSE IF offset[r] >= Pos(f) + FieldSize THEN FieldSize
                     ELSE offset[r] - Pos(f)
  BY <1>2 DEF Passed
<1>9. CASE x.hit
  <2> DEFINE low == offset[r]
             pos == Pos(f)
             size == FieldSize
             before == Passed(r, f)
             after == Passed(r, f)'
  <2>2. /\ low \in Nat /\ pos \in Nat /\ size \in Nat \ {0}
        /\ before = IF low <= pos THEN 0 ELSE IF low >= pos + size THEN size ELSE low - pos
        /\ after = IF low + n <= pos THEN 0
                   ELSE IF low + n >= pos + size THEN size ELSE low + n - pos
        /\ x.skip \in Nat /\ x.nwrite \in Nat /\ x.skip < n
        /\ pos <= low + n /\ low < pos + size
        /\ low + x.skip = IF low < pos THEN pos ELSE low
        /\ low + x.skip + x.nwrite = IF low + n < pos + size THEN low + n ELSE pos + size
    BY <1>9, <1>2, <1>5, <1>6, <1>7, <1>8
  <2> HIDE DEF low, pos, size, before, after
  <2>3. x.nwrite \in Nat /\ after = before + x.nwrite /\ x.nwrite > 0 /\ low + x.skip = pos + before
    BY <2>2, SMTT(30)
  <2>1. /\ x.nwrite \in Nat /\ Passed(r, f)' = Passed(r, f) + x.nwrite
        /\ x.nwrite > 0 /\ offset[r] + x.skip = Pos(f) + Passed(r, f)
    BY <2>3 DEF low, pos, before, after
  <2> QED  BY <1>9, <2>1 DEF x
<1>10. CASE ~x.hit
  <2>1. Passed(r, f)' = Passed(r, f)
    BY <1>10, <1>2, <1>5, <1>7, <1>8, SMTT(30)
  <2> QED  BY <1>10, <2>1 DEF x
<1> QED  BY <1>5, <1>9, <1>10

-----------------------------------------------------------------------------

LEMMA BrickInit == Init => BrickInv
<1> SUFFICES ASSUME Init PROVE BrickInv  OBVIOUS
<1>1. <<>> \in Seq(Rank \X Int)  OBVIOUS
<1> QED  BY <1>1 DEF Init, BrickInv, Streaming, States, InStream

(* A rank that did not move and whose files nobody else touches.           *)
LEMMA StreamingKept ==
    ASSUME NEW r \in Rank, Streaming(r), pc'[r] = pc[r] \/ pc'[r] \notin InStream,
           pc'[r] # "slicing" => pc[r] # "slicing",
           brick'[r] = brick[r] \/ pc'[r] \notin InStream,
           offset'[r] = offset[r] \/ pc'[r] \notin InStream, taken'[r] = taken[r]
    PROVE  Streaming(r)'
BY DEF Streaming, Passed, Pos, FieldSize, InStream

(* What slice_outputs' loop does to the counters of exec.                  *)
LEMMA SliceFromFacts ==
    ASSUME NEW r \in Rank, NEW n \in Nat, NEW k, SliceFrom(r, n, k),
           offset \in [Rank -> Nat], taken \in [Rank -> Nat], pc \in [Rank -> States]
    PROVE  /\ offset' \in [Rank -> Nat] /\ taken' \in [Rank -> Nat] /\ pc' \in [Rank -> States]
           /\ offset'[r] + taken'[r] = offset[r] + n
           /\ pc'[r] \in {"running", "slicing"} /\ (pc'[r] # "slicing" => taken'[r] = 0)
           /\ \A q \in Rank \ {r} :
                 offset'[q] = offset[q] /\ taken'[q] = taken[q] /\ pc'[q] = pc[q]
<1> DEFINE next == NextHit(r, n, k)
<1> HIDE DEF next
<1>1. CASE next \in File
  <2>1. /\ pc' = [pc EXCEPT ![r] = "slicing"] /\ taken' = [taken EXCEPT ![r] = n]
        /\ offset' = offset
    BY <1>1 DEF SliceFrom, next
  <2> QED  BY <2>1 DEF States
<1>2. CASE next \notin File
  <2>1. /\ pc' = [pc EXCEPT ![r] = "running"] /\ taken' = [taken EXCEPT ![r] = 0]
        /\ offset' = [offset EXCEPT ![r] = @ + n]
    BY <1>2 DEF SliceFrom, next
  <2> QED  BY <2>1 DEF States
<1> QED  BY <1>1, <1>2

LEMMA ExecStep ==
    ASSUME SmallStream, BrickInv, NEW r \in Rank, NEW n \in WriteSizes, Exec(r, n)
    PROVE  BrickInv'
<1>1. n \in Nat \ {0} /\ Out3D \subseteq Field  BY NetzAssumption
<1>2. /\ offset \in [Rank -> Nat] /\ taken \in [Rank -> Nat] /\ pc \in [Rank -> States]
      /\ brick \in [Rank -> [Field -> Seq(Rank \X Int)]]
      /\ \A q \in Rank : Streaming(q)
  BY DEF BrickInv
<1>3. /\ \A q \in Rank \ {r} : brick'[q] = brick[q]
      /\ brick'[r] = Cut(r, n) /\ pc[r] = "running" /\ taken[r] = 0
  BY <1>1, <1>2 DEF Exec, Streaming
<1>31. /\ offset' \in [Rank -> Nat] /\ taken' \in [Rank -> Nat] /\ pc' \in [Rank -> States]
       /\ offset'[r] + taken'[r] = offset[r] + n
       /\ pc'[r] \in {"running", "slicing"} /\ (pc'[r] # "slicing" => taken'[r] = 0)
       /\ \A q \in Rank \ {r} :
             offset'[q] = offset[q] /\ taken'[q] = taken[q] /\ pc'[q] = pc[q]
  BY <1>1, <1>2, SliceFromFacts DEF Exec
<1>4. ASSUME NEW f \in Out3D
      PROVE  Cut(r, n)[f] = Run(r, Pos(f), Passed(r, f)')
  <2> DEFINE x == In3D(r, n, f)
  <2>1. Fits(x, n)  BY DEF Exec, AllFit
  <2>2. offset[r] \in Nat /\ taken[r] \in Nat /\ f \in Field /\ Pos(f) \in Nat
    BY <1>1, <1>2, FieldFacts
  <2>3. Passed(r, f) \in Nat  BY <2>2, PassedFacts
  <2>4. brick[r][f] = Run(r, Pos(f), Passed(r, f))
    BY <1>2, <1>3 DEF Streaming, InStream
  <2>5. Cut(r, n)[f] = IF x.hit THEN brick[r][f] \o Run(r, offset[r] + x.skip, x.nwrite)
                       ELSE brick[r][f]
    BY <2>2 DEF Cut
  <2>6. IF x.hit
        THEN /\ x.nwrite \in Nat /\ Passed(r, f)' = Passed(r, f) + x.nwrite
             /\ x.nwrite > 0 /\ offset[r] + x.skip = Pos(f) + Passed(r, f)
        ELSE Passed(r, f)' = Passed(r, f)
    BY <1>1, <1>3, <1>31, <2>1, <2>2, PassedGrows
  <2> HIDE DEF x
  <2>7. CASE x.hit
    <3>1. Run(r, Pos(f), Passed(r, f)) \o Run(r, Pos(f) + Passed(r, f), x.nwrite)
          = Run(r, Pos(f), Passed(r, f) + x.nwrite)
      BY <2>2, <2>3, <2>6, <2>7, RunsJoin
    <3> QED  BY <2>4, <2>5, <2>6, <2>7, <3>1
  <2>8. CASE ~x.hit  BY <2>4, <2>5, <2>6, <2>8
  <2> QED  BY <2>7, <2>8
<1>5. Streaming(r)'  BY <1>3, <1>31, <1>4 DEF Streaming, Pos, FieldSize
<1>6. ASSUME NEW q \in Rank \ {r} PROVE Streaming(q)'
  BY <1>2, <1>3, <1>31, StreamingKept
<1>7. Cut(r, n) \in [Field -> Seq(Rank \X Int)]
  <2> SUFFICES ASSUME NEW f \in Field PROVE Cut(r, n)[f] \in Seq(Rank \X Int)
    BY DEF Cut
  <2>1. CASE f \in Out3D
    <3>1. Cut(r, n)[f] = Run(r, Pos(f), Passed(r, f)')  BY <2>1, <1>4
    <3>2. Passed(r, f)' \in Nat
      BY <1>1, <1>31, FieldFacts, NetzAssumption DEF Passed, Pos, FieldSize
    <3> QED  BY <3>1, <3>2, FieldFacts DEF Run
  <2>2. CASE f \notin Out3D
    <3>1. Cut(r, n)[f] = brick[r][f]  BY <2>2 DEF Cut
    <3> QED  BY <3>1, <1>2
  <2> QED  BY <2>1, <2>2
<1>8. brick' \in [Rank -> [Field -> Seq(Rank \X Int)]]
  BY <1>2, <1>7 DEF Exec
<1> QED  BY <1>31, <1>5, <1>6, <1>8 DEF BrickInv

LEMMA BrickStep == SmallStream /\ BrickInv /\ [Next]_vars => BrickInv'
<1> SUFFICES ASSUME SmallStream, BrickInv, [Next]_vars PROVE BrickInv'  OBVIOUS
<1>1. /\ offset \in [Rank -> Nat] /\ taken \in [Rank -> Nat]
      /\ brick \in [Rank -> [Field -> Seq(Rank \X Int)]]
      /\ pc \in [Rank -> States]
      /\ \A q \in Rank : Streaming(q)
      /\ <<>> \in Seq(Rank \X Int)
  BY DEF BrickInv
<1>2. ASSUME NEW r \in Rank, Start(r) PROVE BrickInv'
  <2>1. /\ offset'[r] = 0 /\ taken'[r] = 0 /\ brick'[r] = [f \in Field |-> <<>>]
        /\ pc'[r] # "slicing"
        /\ \A q \in Rank \ {r} :
              offset'[q] = offset[q] /\ brick'[q] = brick[q] /\ pc'[q] = pc[q]
    BY <1>1, <1>2 DEF Start, Streaming
  <2>2. ASSUME NEW f \in Out3D PROVE brick'[r][f] = Run(r, Pos(f), Passed(r, f)')
    <3>1. Passed(r, f)' = 0
      BY <2>1, FieldFacts, NetzAssumption DEF Passed, Pos, FieldSize
    <3>2. brick'[r][f] = <<>>  BY <2>1, NetzAssumption
    <3>3. Run(r, Pos(f), 0) = <<>>  BY DEF Run
    <3> QED  BY <3>1, <3>2, <3>3
  <2>3. Streaming(r)'  BY <2>1, <2>2 DEF Streaming, Pos, FieldSize
  <2>4. ASSUME NEW q \in Rank \ {r} PROVE Streaming(q)'
    BY <1>1, <1>2, <2>1, StreamingKept DEF Start
  <2> QED  BY <1>1, <1>2, <2>3, <2>4 DEF BrickInv, Start, States
<1>3. ASSUME NEW r \in Rank, Open(r) PROVE BrickInv'
  <2>1. \A q \in Rank : Streaming(q)'
    BY <1>1, <1>3 DEF Open, Streaming, Passed, Pos, FieldSize, InStream
  <2> QED  BY <1>1, <1>3, <2>1 DEF BrickInv, Open, States
<1>4. ASSUME NEW r \in Rank, NEW n \in WriteSizes, Exec(r, n) PROVE BrickInv'
  BY <1>4, ExecStep
<1>5. ASSUME UNCHANGED <<pc, offset, taken, brick>> PROVE BrickInv'
  <2>1. \A q \in Rank : Streaming(q)'  BY <1>1, <1>5, StreamingKept
  <2> QED  BY <1>1, <1>5, <2>1 DEF BrickInv
<1>6. ASSUME NEW r \in Rank, NEW f, GoOn(r, f)
      PROVE  /\ pc' \in [Rank -> States]
             /\ pc'[r] \notin InStream
             /\ \A q \in Rank \ {r} : pc'[q] = pc[q]
  BY <1>1, <1>6 DEF GoOn, States, InStream
<1>7. ASSUME NEW r \in Rank, SliceNext(r) PROVE BrickInv'
  <2>1. /\ taken[r] \in Nat /\ SliceFrom(r, taken[r], cur[r] + 1) /\ pc[r] = "slicing"
        /\ brick' = brick
    BY <1>1, <1>7 DEF SliceNext, files
  <2>2. /\ offset' \in [Rank -> Nat] /\ taken' \in [Rank -> Nat] /\ pc' \in [Rank -> States]
        /\ offset'[r] + taken'[r] = offset[r] + taken[r]
        /\ pc'[r] \in {"running", "slicing"} /\ (pc'[r] # "slicing" => taken'[r] = 0)
        /\ \A q \in Rank \ {r} :
              offset'[q] = offset[q] /\ taken'[q] = taken[q] /\ pc'[q] = pc[q]
    BY <1>1, <2>1, SliceFromFacts
  <2>3. Streaming(r)'
    BY <1>1, <2>1, <2>2 DEF Streaming, InStream, Passed, Pos, FieldSize
  <2>4. ASSUME NEW q \in Rank \ {r} PROVE Streaming(q)'
    BY <1>1, <2>1, <2>2, StreamingKept
  <2> QED  BY <1>1, <2>1, <2>2, <2>3, <2>4 DEF BrickInv
<1>8. ASSUME NEW r \in Rank, pc[r] # "slicing", pc'[r] \notin InStream, taken' = taken,
             \A q \in Rank \ {r} :
                pc'[q] = pc[q] /\ offset'[q] = offset[q] /\ brick'[q] = brick[q]
      PROVE  \A q \in Rank : Streaming(q)'
  <2>1. Streaming(r)'  BY <1>1, <1>8, StreamingKept DEF InStream
  <2>2. ASSUME NEW q \in Rank \ {r} PROVE Streaming(q)'
    BY <1>1, <1>8, StreamingKept
  <2> QED  BY <2>1, <2>2
<1>9. ASSUME NEW r \in Rank, Finish(r) PROVE BrickInv'
  <2>1. \A q \in Rank : Streaming(q)'
    <3>1. GoOn(r, 0)  BY <1>9 DEF Finish
    <3> QED  BY <1>1, <1>6, <1>8, <1>9, <3>1 DEF Finish, files
  <2> QED  BY <1>1, <1>6, <1>9, <2>1 DEF BrickInv, Finish, files
<1>10. ASSUME NEW r \in Rank, MergeOpen(r) PROVE BrickInv'
  <2>1. brick' \in [Rank -> [Field -> Seq(Rank \X Int)]]
    BY <1>1, <1>10 DEF MergeOpen
  <2>2. \A q \in Rank : Streaming(q)'
    BY <1>1, <1>8, <1>10 DEF MergeOpen, InStream
  <2> QED  BY <1>1, <1>10, <2>1, <2>2 DEF BrickInv, MergeOpen, States
<1>11. ASSUME NEW r \in Rank, MergeNext(r) PROVE BrickInv'
  <2>1. \A q \in Rank : Streaming(q)'
    <3>1. GoOn(r, cur[r] + 1)  BY <1>11 DEF MergeNext
    <3> QED  BY <1>1, <1>6, <1>8, <1>11, <3>1 DEF MergeNext
  <2> QED  BY <1>1, <1>6, <1>11, <2>1 DEF BrickInv, MergeNext
<1>12. ASSUME NEW r \in Rank, SliceWrite(r) PROVE BrickInv'
  BY <1>5, <1>12 DEF SliceWrite
<1>13. ASSUME NEW r \in Rank, MergeWrite(r) PROVE BrickInv'
  BY <1>5, <1>13 DEF MergeWrite
<1>14. ASSUME NEW r \in Rank, NEW n \in WriteSizes, ExecAborts(r, n) PROVE BrickInv'
  BY <1>5, <1>14 DEF ExecAborts, ranks, files
<1>15. CASE UNCHANGED vars
  BY <1>5, <1>15 DEF vars, ranks, files
<1> QED  BY <1>2, <1>3, <1>4, <1>7, <1>9, <1>10, <1>11, <1>12, <1>13, <1>14, <1>15 DEF Next

(* From its first write on the files of a rank are exact (netz.mpic:741-757).*)
THEOREM BrickInvariant == ASSUME SmallStream PROVE Spec => []BrickInv
<1>1. BrickInv /\ [Next]_vars => BrickInv'  BY BrickStep
<1> QED  BY <1>1, BrickInit, PTL DEF Spec

(***************************************************************************)
(* However the simulation cuts its stream, as long as no assertion ends the*)
(* job every 3-D field's file is the part of the field that has gone by:   *)
(* provided that a rank's stream is shorter than 2^32 bytes, the width of  *)
(* broadcastzu.                                                            *)
(***************************************************************************)
THEOREM FilesExact == ASSUME SmallStream PROVE Spec => []BrickExact
<1>1. BrickInv => BrickExact  BY DEF BrickInv, Streaming, BrickExact, InStream
<1> QED  BY <1>1, BrickInvariant, PTL

-----------------------------------------------------------------------------
(* Division with remainder. Join(q, m, a) and At3(a, b, c, m, n) are       *)
(* numbers of two and of three digits: a rank's place in the grid of       *)
(* bricks, an address in a file and an offset into a field are all written *)
(* this way.                                                               *)

LEMMA ProductNat == ASSUME NEW a \in Nat, NEW b \in Nat PROVE a * b \in Nat
OBVIOUS

(* Division with remainder is unique. *)
LEMMA Divided ==
    ASSUME NEW q \in Nat, NEW m \in Nat \ {0}, NEW a \in Nat, a < m
    PROVE  (q * m + a) \div m = q /\ (q * m + a) % m = a
<1> DEFINE p == q * m + a
           d == p \div m
           w == p % m
<1>1. p \in Nat
  BY ProductNat
<1>2. d \in Int /\ w \in Int /\ p = m * d + w /\ 0 <= w /\ w < m
  BY <1>1, SMT
<1> QED
  OBVIOUS

Join(q, m, a) == q * m + a

LEMMA Separated ==
    ASSUME NEW q \in Nat, NEW m \in Nat \ {0}, NEW a \in Nat, a < m
    PROVE  Join(q, m, a) \div m = q /\ Join(q, m, a) % m = a
BY Divided DEF Join

LEMMA Remainder ==
    ASSUME NEW p \in Nat, NEW m \in Nat \ {0}
    PROVE  /\ p \div m \in Nat /\ p % m \in Nat /\ p % m < m
           /\ p = (p \div m) * m + (p % m)
<1>1. p \div m \in Int /\ p % m \in Int /\ p = m * (p \div m) + (p % m) /\ 0 <= p % m /\ p % m < m
  OBVIOUS
<1> QED
  BY <1>1

LEMMA Inside ==
    ASSUME NEW b \in Nat, NEW d \in Nat \ {0}, NEW q \in Nat, q < b, NEW a \in Nat, a < d
    PROVE  q * d + a \in Nat /\ q * d + a < b * d
<1>1. q * d \in Nat /\ b * d \in Nat
  BY ProductNat
<1>2. (q + 1) * d <= b * d
  OBVIOUS
<1> QED
  BY <1>1, <1>2

(* The three parts of a position, and the position of three parts.         *)
At3(a, b, c, m, n) == (c * n + b) * m + a

(* The digits of a number of three digits (netz.mpic:646-652, to3d).       *)
LEMMA Parts ==
    ASSUME NEW a \in Nat, NEW b \in Nat, NEW c \in Nat,
           NEW m \in Nat \ {0}, NEW n \in Nat \ {0}, a < m, b < n
    PROVE  LET p == At3(a, b, c, m, n) IN
           p \in Nat /\ p % m = a /\ (p \div m) % n = b /\ p \div (m * n) = c
<1> DEFINE p == At3(a, b, c, m, n)
           u == Join(c, n, b)
<1>1. u \in Nat
  BY ProductNat DEF Join
<1>2. u \div n = c /\ u % n = b
  BY Separated
<1>3. p = Join(u, m, a)
  BY DEF At3, Join
<1>4. m * n \in Nat \ {0} /\ b * m + a \in Nat /\ b * m + a < m * n
  <2>1. m * n \in Nat \ {0}
    BY ProductNat
  <2>2. b * m + a \in Nat /\ b * m + a < n * m
    BY Inside
  <2> QED
    BY <2>1, <2>2
<1>5. p = Join(c, m * n, b * m + a)
  BY DEF At3, Join
<1> HIDE DEF u, p
<1>6. Join(u, m, a) \div m = u /\ Join(u, m, a) % m = a
  BY <1>1, Separated
<1>7. p \in Nat
  BY <1>1, <1>3, ProductNat DEF Join
<1> DEFINE mn == m * n
           low == b * m + a
<1>8. mn \in Nat \ {0} /\ low \in Nat /\ low < mn /\ p = Join(c, mn, low)
  BY <1>4, <1>5
<1> HIDE DEF mn, low
<1>9. p \div mn = c
  BY <1>8, Separated
<1> QED
  BY <1>2, <1>3, <1>6, <1>7, <1>9 DEF mn, p

(* A number whose digits are below their bases is below the product.       *)
LEMMA Below ==
    ASSUME NEW a \in Nat, NEW b \in Nat, NEW c \in Nat, NEW m \in Nat \ {0},
           NEW n \in Nat \ {0}, NEW k \in Nat, a < m, b < n, c < k
    PROVE  At3(a, b, c, m, n) < m * n * k
<1> DEFINE u == c * n + b
<1>1. u \in Nat /\ u < k * n
  BY Inside
<1>2. k * n \in Nat
  BY ProductNat
<1>3. u * m + a < (k * n) * m
  BY <1>1, <1>2, Inside
<1> QED
  BY <1>3 DEF At3

(* A number put together again from its digits.                            *)
LEMMA Whole ==
    ASSUME NEW p \in Nat, NEW m \in Nat \ {0}, NEW n \in Nat \ {0}
    PROVE  /\ p % m \in Nat /\ p % m < m
           /\ (p \div m) % n \in Nat /\ (p \div m) % n < n
           /\ p \div (m * n) \in Nat
           /\ p = At3(p % m, (p \div m) % n, p \div (m * n), m, n)
           /\ \A k \in Nat : p < m * n * k => p \div (m * n) < k
<1> DEFINE u == p \div m
           c == u \div n
           b == u % n
           a == p % m
<1>1. u \in Nat /\ a \in Nat /\ a < m /\ p = u * m + a
  BY Remainder
<1>2. c \in Nat /\ b \in Nat /\ b < n /\ u = c * n + b
  BY <1>1, Remainder
<1>3. p = At3(a, b, c, m, n)
  <2> HIDE DEF u, c, b, a
  <2> QED
    BY <1>1, <1>2 DEF At3
<1>4. p \div (m * n) = c
  <2> HIDE DEF u, c, b, a
  <2>1. At3(a, b, c, m, n) \div (m * n) = c
    BY <1>1, <1>2, Parts
  <2> QED
    BY <2>1, <1>3
<1>5. ASSUME NEW k \in Nat, p < m * n * k PROVE c < k
  <2> HIDE DEF u, c, b, a
  <2>1. m * n \in Nat
    BY ProductNat
  <2>2. c * n \in Nat /\ m * n * c <= p
    BY <1>1, <1>2, ProductNat
  <2>3. ~(k <= c)
    <3> SUFFICES ASSUME k <= c PROVE FALSE
      OBVIOUS
    <3> DEFINE mn == m * n
    <3>1. mn \in Nat
      BY <2>1
    <3>2. p < mn * k /\ mn * c <= p
      BY <1>5, <2>2
    <3> HIDE DEF mn
    <3>3. mn * k <= mn * c
      BY <3>1, <1>2
    <3>4. mn * k \in Nat /\ mn * c \in Nat
      BY <3>1, <1>2, ProductNat
    <3> QED
      BY <3>2, <3>3, <3>4
  <2> QED
    BY <2>3, <1>2
<1> HIDE DEF u, c, b, a
<1>6. p \div (m * n) \in Nat /\ \A k \in Nat : p < m * n * k => p \div (m * n) < k
  BY <1>2, <1>4, <1>5
<1>7. p = At3(a, b, p \div (m * n), m, n)
  BY <1>3, <1>4
<1> QED
  BY <1>1, <1>2, <1>6, <1>7 DEF a, b, u

-----------------------------------------------------------------------------
(* Places. *)

(* The voxel at dx, y, z of the brick at px, py, pz. *)
Place(pos, dx, y, z) ==
    (z + pos[3] * Dims[3]) * Voxels[2] * Voxels[1]
       + (y + pos[2] * Dims[2]) * Voxels[1] + pos[1] * Dims[1] + dx

InBrick(dx, y, z) ==
    /\ dx \in 0..(Dims[1] - 1)
    /\ y \in 0..(Dims[2] - 1)
    /\ z \in 0..(Dims[3] - 1)

LEMMA Sizes ==
    /\ \A d \in Three : Bricks[d] \in Nat \ {0} /\ Dims[d] \in Nat \ {0}
    /\ \A d \in Three : Voxels[d] \in Nat \ {0} /\ Voxels[d] = Bricks[d] * Dims[d]
<1>1. \A d \in Three : Bricks[d] \in Nat \ {0} /\ Dims[d] \in Nat \ {0}
  BY NetzAssumption
<1>2. ASSUME NEW d \in Three PROVE Voxels[d] \in Nat \ {0} /\ Voxels[d] = Bricks[d] * Dims[d]
  <2>1. Voxels[d] = Bricks[d] * Dims[d]
    BY DEF Voxels
  <2> DEFINE b == Bricks[d]
             s == Dims[d]
  <2>2. b \in Nat \ {0} /\ s \in Nat \ {0}
    BY <1>1
  <2> HIDE DEF b, s
  <2>3. b * s \in Nat \ {0}
    BY <2>2, ProductNat
  <2> QED
    BY <2>1, <2>3 DEF b, s
<1> QED
  BY <1>1, <1>2

(* A rank is where to3d puts it. *)
LEMMA RankPlace ==
    ASSUME NEW r \in Rank
    PROVE  LET pos == to3d(r, Bricks) IN
           /\ \A d \in Three : pos[d] \in Nat /\ pos[d] < Bricks[d]
           /\ r = At3(pos[1], pos[2], pos[3], Bricks[1], Bricks[2])
<1> DEFINE b1 == Bricks[1]
           b2 == Bricks[2]
           b3 == Bricks[3]
           pos == to3d(r, Bricks)
<1>1. b1 \in Nat \ {0} /\ b2 \in Nat \ {0} /\ b3 \in Nat \ {0}
  BY Sizes DEF Three
<1>2. r \in 0..(b1 * b2 * b3 - 1)
  BY DEF Rank
<1>3. pos[1] = r % b1 /\ pos[2] = (r \div b1) % b2 /\ pos[3] = r \div (b1 * b2)
  BY DEF to3d
<1> HIDE DEF b1, b2, b3, pos
<1>4. b1 * b2 * b3 \in Nat
  BY <1>1, ProductNat
<1>5. r \in Nat /\ r < b1 * b2 * b3
  BY <1>2, <1>4
<1>6. /\ r % b1 \in Nat /\ r % b1 < b1
      /\ (r \div b1) % b2 \in Nat /\ (r \div b1) % b2 < b2
      /\ r \div (b1 * b2) \in Nat /\ r \div (b1 * b2) < b3
      /\ r = At3(r % b1, (r \div b1) % b2, r \div (b1 * b2), b1, b2)
  BY <1>1, <1>5, Whole
<1>7. /\ pos[1] \in Nat /\ pos[1] < b1
      /\ pos[2] \in Nat /\ pos[2] < b2
      /\ pos[3] \in Nat /\ pos[3] < b3
      /\ r = At3(pos[1], pos[2], pos[3], b1, b2)
  BY <1>3, <1>6
<1>8. \A d \in Three : pos[d] \in Nat /\ pos[d] < Bricks[d]
  BY <1>7 DEF Three, b1, b2, b3
<1> QED
  BY <1>7, <1>8 DEF pos, b1, b2

(* A voxel of a rank's brick belongs to that rank, at its offset in the brick. *)
LEMMA VoxelBelongs ==
    ASSUME NEW r \in Rank, NEW f, NEW dx, NEW y, NEW z, InBrick(dx, y, z)
    PROVE  LET p == Place(to3d(r, Bricks), dx, y, z) IN
           /\ p \in VolumeAt
           /\ Belongs3D(f, p) = <<r, Pos(f) + z * Dims[1] * Dims[2] + y * Dims[1] + dx>>
<1> DEFINE b1 == Bricks[1]
           b2 == Bricks[2]
           b3 == Bricks[3]
           d1 == Dims[1]
           d2 == Dims[2]
           d3 == Dims[3]
           v1 == Voxels[1]
           v2 == Voxels[2]
           v3 == Voxels[3]
           pos == to3d(r, Bricks)
           px == pos[1]
           py == pos[2]
           pz == pos[3]
           X == px * d1 + dx
           Y == py * d2 + y
           Z == pz * d3 + z
           p == Place(pos, dx, y, z)
<1>1. /\ b1 \in Nat \ {0} /\ b2 \in Nat \ {0} /\ b3 \in Nat \ {0}
      /\ d1 \in Nat \ {0} /\ d2 \in Nat \ {0} /\ d3 \in Nat \ {0}
      /\ v1 \in Nat \ {0} /\ v2 \in Nat \ {0} /\ v3 \in Nat \ {0}
      /\ v1 = b1 * d1 /\ v2 = b2 * d2 /\ v3 = b3 * d3
  BY Sizes DEF Three
<1>2. /\ px \in Nat /\ px < b1 /\ py \in Nat /\ py < b2 /\ pz \in Nat /\ pz < b3
      /\ r = At3(px, py, pz, b1, b2)
  BY RankPlace DEF Three
<1>3. dx \in Nat /\ dx < d1 /\ y \in Nat /\ y < d2 /\ z \in Nat /\ z < d3
  BY <1>1 DEF InBrick
<1>4. p = (z + pz * d3) * v2 * v1 + (y + py * d2) * v1 + px * d1 + dx
  BY DEF Place
<1>5. Belongs3D(f, p) =
        << ((p \div (v1 * v2)) \div d3) * b1 * b2
              + (((p \div v1) % v2) \div d2) * b1 + (p % v1) \div d1,
           Pos(f) + ((p \div (v1 * v2)) % d3) * d1 * d2
              + (((p \div v1) % v2) % d2) * d1 + ((p % v1) % d1) >>
  BY DEF Belongs3D
<1>6. VolumeAt = 0..(v1 * v2 * v3 - 1)
  BY DEF VolumeAt
<1> HIDE DEF b1, b2, b3, d1, d2, d3, v1, v2, v3, pos, px, py, pz, p
<1>7. /\ X \in Nat /\ X < v1 /\ Y \in Nat /\ Y < v2 /\ Z \in Nat /\ Z < v3
  BY <1>1, <1>2, <1>3, Inside
<1>8. /\ X \div d1 = px /\ X % d1 = dx /\ Y \div d2 = py /\ Y % d2 = y
      /\ Z \div d3 = pz /\ Z % d3 = z
  <2>1. Join(px, d1, dx) \div d1 = px /\ Join(px, d1, dx) % d1 = dx
    BY <1>1, <1>2, <1>3, Separated
  <2>2. Join(py, d2, y) \div d2 = py /\ Join(py, d2, y) % d2 = y
    BY <1>1, <1>2, <1>3, Separated
  <2>3. Join(pz, d3, z) \div d3 = pz /\ Join(pz, d3, z) % d3 = z
    BY <1>1, <1>2, <1>3, Separated
  <2> QED
    BY <2>1, <2>2, <2>3 DEF Join
<1>9. p = At3(X, Y, Z, v1, v2)
  BY <1>1, <1>2, <1>3, <1>4 DEF At3
<1> HIDE DEF X, Y, Z
<1>10. /\ p \in Nat /\ p % v1 = X /\ (p \div v1) % v2 = Y /\ p \div (v1 * v2) = Z
       /\ p < v1 * v2 * v3
  <2> DEFINE q == At3(X, Y, Z, v1, v2)
  <2>1. /\ q \in Nat /\ q % v1 = X /\ (q \div v1) % v2 = Y /\ q \div (v1 * v2) = Z
    BY <1>1, <1>7, Parts
  <2>3. q < v1 * v2 * v3
    BY <1>1, <1>7, Below
  <2> HIDE DEF q
  <2>2. p = q
    BY <1>9 DEF q
  <2> QED
    BY <2>1, <2>2, <2>3
<1>11. p \in VolumeAt
  <2>1. v1 * v2 * v3 \in Nat
    BY <1>1, ProductNat
  <2> QED
    BY <1>6, <1>10, <2>1
<1>12. Belongs3D(f, p) =
         << pz * b1 * b2 + py * b1 + px, Pos(f) + z * d1 * d2 + y * d1 + dx >>
  BY <1>5, <1>8, <1>10
<1>13. pz * b1 * b2 + py * b1 + px = r
  BY <1>1, <1>2 DEF At3
<1> QED
  BY <1>11, <1>12, <1>13 DEF p, pos, d1, d2

-----------------------------------------------------------------------------
(***************************************************************************)
(* Merging (netz.mpic:796-824). MergeInv says where each rank is in the    *)
(* loop of out3d: the bricks from the one it merges on are still complete  *)
(* files, the ones before are gone, the one it is at is in memory, and     *)
(* what is in a volume is where it belongs. BrickInv, which says what the  *)
(* streams have left in the bricks, is a part of it.                       *)
(***************************************************************************)
Merging(r) ==
    /\ pc[r] \in {"opening", "slicing"} => cur[r] \in File
    /\ pc[r] = "merging" =>
         /\ cur[r] \in Out3D
         /\ \A f \in Out3D :
               brick[r][f] = IF f >= cur[r] THEN Run(r, Pos(f), FieldSize) ELSE <<>>
    /\ pc[r] = "writing" =>
         /\ cur[r] \in Out3D
         /\ todo[r] \subseteq Destination(r)
         /\ data[r] = Run(r, Pos(cur[r]), FieldSize)
         /\ \A f \in Out3D :
               brick[r][f] = IF f > cur[r] THEN Run(r, Pos(f), FieldSize) ELSE <<>>
    /\ pc[r] = "done" => \A f \in Out3D : brick[r][f] = <<>>

MergeInv ==
    /\ BrickInv
    /\ NetzTypeOK
    /\ \A r \in Rank : offset[r] + taken[r] <= Total
    /\ todo = [r \in Rank |-> todo[r]] /\ data = [r \in Rank |-> data[r]]
    /\ volume = [f \in Field |-> volume[f]]
    /\ \A r \in Rank : Merging(r)
    /\ VolumePlaced

(* A set of numbers that is not empty has a least member.                  *)
LEMMA FirstOf ==
    ASSUME NEW T, T \subseteq Nat, T # {}
    PROVE  \E x \in T : \A y \in T : x <= y
<1> DEFINE R == OpToRel(<, Nat)
<1>1. IsWellFoundedOn(R, Nat)
  BY NatLessThanWellFounded
<1>2. \A x, y \in Nat : <<y, x>> \in R <=> y < x
  BY Z3 DEF OpToRel
<1> HIDE DEF R
<1>3. PICK x \in T : \A y \in T : ~ (<<y, x>> \in R)
  BY <1>1, WFMin
<1>4. ASSUME NEW y \in T PROVE x <= y
  <2>1. x \in Nat /\ y \in Nat /\ ~(<<y, x>> \in R)
    BY <1>3
  <2>2. ~(y < x)
    BY <1>2, <2>1
  <2> QED
    BY <2>1, <2>2
<1> QED
  BY <1>4

LEMMA Counts ==
    /\ NFields \in Nat \ {0} /\ NFiles \in Nat /\ File = 1..NFiles
    /\ Out3D \subseteq Field /\ \A f \in Out3D : f \in Nat /\ f < NFields
    /\ Total \in Nat /\ FieldSize \in Nat \ {0}
    /\ \A f \in Field : Pos(f) \in Nat /\ Pos(f) + FieldSize <= Total
<1>1. NFields \in Nat \ {0} /\ Len(Slices) \in Nat
  BY NetzAssumption
<1>2. NFiles \in Nat
  BY <1>1, ProductNat DEF NFiles
<1> QED
  BY <1>1, <1>2, NetzAssumption DEF File, Field

(* The field out3d goes on to (netz.mpic:798-799).        *)
LEMMA NextMergeFacts ==
    ASSUME NEW f \in Nat
    PROVE  LET g == NextMerge(f) IN
           \/ g = NFields /\ g \notin Out3D /\ \A h \in Out3D : h < f
           \/ /\ g \in Out3D /\ g # NFields /\ g >= f
              /\ \A h \in Out3D : h >= f => g <= h
<1> DEFINE T == {h \in Out3D : h >= f}
<1>1. T \subseteq Nat
  BY Counts
<1>2. CASE T = {}
  <2>1. NextMerge(f) = NFields
    BY <1>2 DEF NextMerge
  <2> QED
    BY <1>2, <2>1, Counts
<1>3. CASE T # {}
  <2>1. PICK x \in T : \A y \in T : x <= y
    <3> HIDE DEF T
    <3> QED
      BY <1>1, <1>3, FirstOf
  <2>2. \E g \in Out3D : g >= f /\ \A h \in Out3D : h >= f => g <= h
    BY <2>1
  <2>3. NextMerge(f) = CHOOSE g \in Out3D : g >= f /\ \A h \in Out3D : h >= f => g <= h
    BY <1>3 DEF NextMerge
  <2>4. /\ NextMerge(f) \in Out3D /\ NextMerge(f) >= f
        /\ \A h \in Out3D : h >= f => NextMerge(f) <= h
    BY <2>2, <2>3
  <2> QED
    BY <2>4, Counts
<1> QED
  BY <1>2, <1>3

(* slice_outputs goes on to the next file that the write concerns.         *)
LEMMA NextHitFacts ==
    ASSUME NEW r \in Rank, NEW n, NEW k \in Nat \ {0}
    PROVE  LET l == NextHit(r, n, k) IN
           \/ /\ l \in File /\ l >= k /\ In2D(r, n, l).hit
              /\ \A m \in k..NFiles : In2D(r, n, m).hit => l <= m
           \/ l = NFiles + 1 /\ l \notin File /\ \A m \in k..NFiles : ~In2D(r, n, m).hit
<1> DEFINE T == {l \in k..NFiles : In2D(r, n, l).hit}
<1>1. T \subseteq Nat /\ k..NFiles \subseteq File
  BY Counts
<1>2. CASE T = {}
  <2>1. NextHit(r, n, k) = NFiles + 1
    BY <1>2 DEF NextHit
  <2> QED
    BY <1>2, <2>1, Counts
<1>3. CASE T # {}
  <2>1. PICK x \in T : \A y \in T : x <= y
    <3> HIDE DEF T
    <3> QED
      BY <1>1, <1>3, FirstOf
  <2>2. \E l \in k..NFiles :
           In2D(r, n, l).hit /\ \A m \in k..NFiles : In2D(r, n, m).hit => l <= m
    BY <2>1
  <2>3. NextHit(r, n, k) =
           CHOOSE l \in k..NFiles :
              In2D(r, n, l).hit /\ \A m \in k..NFiles : In2D(r, n, m).hit => l <= m
    BY <1>3 DEF NextHit
  <2>4. /\ NextHit(r, n, k) \in k..NFiles /\ In2D(r, n, NextHit(r, n, k)).hit
        /\ \A m \in k..NFiles : In2D(r, n, m).hit => NextHit(r, n, k) <= m
    BY <2>2, <2>3
  <2> QED
    BY <1>1, <2>4, Counts
<1> QED
  BY <1>2, <1>3

(* out3d goes on to the next field from f on, when those before have no brick  *)
(* left and the others still have all of it.                               *)
LEMMA GoOnKeeps ==
    ASSUME MergeInv, NEW r \in Rank, NEW f \in Nat, f <= NFields, GoOn(r, f),
           \A h \in Out3D :
              brick'[r][h] = IF h >= f THEN Run(r, Pos(h), FieldSize) ELSE <<>>
    PROVE  /\ Merging(r)'
           /\ cur' \in [Rank -> 0..(NFiles + NFields + 1)]
           /\ pc' \in [Rank -> States]
           /\ \A q \in Rank \ {r} : pc'[q] = pc[q] /\ cur'[q] = cur[q]
<1> DEFINE g == NextMerge(f)
<1>1. pc \in [Rank -> States] /\ cur \in [Rank -> 0..(NFiles + NFields + 1)]
  BY DEF MergeInv, BrickInv, NetzTypeOK
<1>2. /\ cur' = [cur EXCEPT ![r] = g]
      /\ pc' = [pc EXCEPT ![r] = IF g = NFields THEN "done" ELSE "merging"]
  BY DEF GoOn
<1>3. \/ g = NFields /\ g \notin Out3D /\ \A h \in Out3D : h < f
      \/ /\ g \in Out3D /\ g # NFields /\ g >= f
         /\ \A h \in Out3D : h >= f => g <= h
  BY NextMergeFacts
<1> HIDE DEF g
<1>4. g \in 0..(NFiles + NFields + 1)
  BY <1>3, Counts
<1>5. /\ cur' \in [Rank -> 0..(NFiles + NFields + 1)]
      /\ pc' \in [Rank -> States]
      /\ \A q \in Rank \ {r} : pc'[q] = pc[q] /\ cur'[q] = cur[q]
      /\ cur'[r] = g /\ pc'[r] = IF g = NFields THEN "done" ELSE "merging"
  BY <1>1, <1>2, <1>4 DEF States
<1>6. CASE g = NFields
  <2>1. \A h \in Out3D : brick'[r][h] = <<>>
    BY <1>3, <1>6, Counts
  <2> QED
    BY <1>5, <1>6, <2>1 DEF Merging
<1>7. CASE g # NFields
  <2>1. /\ g \in Out3D
        /\ \A h \in Out3D : brick'[r][h] = IF h >= g THEN Run(r, Pos(h), FieldSize) ELSE <<>>
    BY <1>3, <1>7, Counts
  <2> QED
    BY <1>5, <1>7, <2>1 DEF Merging, Pos, FieldSize
<1> QED
  BY <1>5, <1>6, <1>7

LEMMA WholeField ==
    ASSUME NEW r \in Rank, NEW f \in Out3D, offset[r] = Total,
           taken[r] = 0
    PROVE  Passed(r, f) = FieldSize
BY Counts DEF Passed

LEMMA RunOfData ==
    ASSUME NEW r \in Rank, NEW f \in Field, NEW m \in Nat, m <= FieldSize
    PROVE  Run(r, Pos(f), m) \in Seq(Datum)
<1>1. Pos(f) \in Nat /\ Pos(f) + m <= Total /\ Total \in Nat
  BY Counts
<1> DEFINE a == Pos(f)
<1> HIDE DEF a
<1>2. ASSUME NEW j \in 1..m PROVE <<r, a + (j - 1)>> \in Datum
  <2>1. a + (j - 1) \in 0..(Total - 1)
    BY <1>1 DEF a
  <2> QED
    BY <2>1 DEF Datum
<1> QED
  BY <1>2 DEF Run, a

LEMMA Offsets ==
    ASSUME NEW dx, NEW y, NEW z, InBrick(dx, y, z)
    PROVE  LET i == z * Dims[2] * Dims[1] + y * Dims[1] + dx IN
           /\ i \in Nat /\ i < FieldSize
           /\ i = z * Dims[1] * Dims[2] + y * Dims[1] + dx
<1> DEFINE d1 == Dims[1]
           d2 == Dims[2]
           d3 == Dims[3]
           i == z * d2 * d1 + y * d1 + dx
<1>1. /\ d1 \in Nat \ {0} /\ d2 \in Nat \ {0} /\ d3 \in Nat \ {0}
      /\ FieldSize = d1 * d2 * d3
  BY Sizes DEF Three, FieldSize
<1>2. dx \in Nat /\ dx < d1 /\ y \in Nat /\ y < d2 /\ z \in Nat /\ z < d3
  BY <1>1 DEF InBrick
<1> HIDE DEF d1, d2, d3
<1>3. i = At3(dx, y, z, d1, d2)
  BY <1>1, <1>2 DEF At3
<1>4. At3(dx, y, z, d1, d2) < d1 * d2 * d3
  BY <1>1, <1>2, Below
<1>5. At3(dx, y, z, d1, d2) \in Nat
  BY <1>1, <1>2, Parts
<1>6. i = z * d1 * d2 + y * d1 + dx
  BY <1>1, <1>2
<1> QED
  BY <1>1, <1>3, <1>4, <1>5, <1>6 DEF d1, d2

(* A piece of the write list is a scanline of the brick.                   *)
Scanline(r, w, y, z) ==
    w = [at |-> Place(to3d(r, Bricks), 0, y, z),
         src |-> z * Dims[2] * Dims[1] + y * Dims[1], n |-> Dims[1]]

(* What find_destination makes of a brick: its scanlines, each at its place*)
(* (netz.mpic:375-393).                                                    *)
LEMMA Pieces ==
    ASSUME NEW r \in Rank
    PROVE  /\ \A w \in Destination(r) :
                 \E y \in 0..(Dims[2] - 1), z \in 0..(Dims[3] - 1) : Scanline(r, w, y, z)
           /\ \A y \in 0..(Dims[2] - 1), z \in 0..(Dims[3] - 1) :
                 \E w \in Destination(r) : Scanline(r, w, y, z)
<1> DEFINE P(y, z) == (z + to3d(r, Bricks)[3] * Dims[3]) * Voxels[2] * Voxels[1]
               + (y + to3d(r, Bricks)[2] * Dims[2]) * Voxels[1] + to3d(r, Bricks)[1] * Dims[1]
           W(y, z) == [at |-> P(y, z), src |-> z * Dims[2] * Dims[1] + y * Dims[1], n |-> Dims[1]]
<1>1. Destination(r) =
        {W(y, z) : z \in 0..(Dims[3] - 1), y \in 0..(Dims[2] - 1)}
  BY DEF Destination, find_destination
<1>2. ASSUME NEW y \in 0..(Dims[2] - 1), NEW z \in 0..(Dims[3] - 1)
      PROVE  P(y, z) = Place(to3d(r, Bricks), 0, y, z)
  <2> DEFINE a == (z + to3d(r, Bricks)[3] * Dims[3]) * Voxels[2] * Voxels[1]
             b == (y + to3d(r, Bricks)[2] * Dims[2]) * Voxels[1]
             c == to3d(r, Bricks)[1] * Dims[1]
  <2>1. a + b + c \in Int
    <3>1. /\ \A d \in Three : to3d(r, Bricks)[d] \in Nat
          /\ \A d \in Three : Voxels[d] \in Nat /\ Dims[d] \in Nat
      BY RankPlace, Sizes
    <3>2. y \in Int /\ z \in Int
      BY <3>1
    <3> QED
      BY <3>1, <3>2 DEF Three
  <2>2. P(y, z) = a + b + c
    OBVIOUS
  <2>3. Place(to3d(r, Bricks), 0, y, z) = a + b + c + 0
    BY DEF Place
  <2> HIDE DEF a, b, c, P
  <2> QED
    BY <2>1, <2>2, <2>3
<1>3. ASSUME NEW y \in 0..(Dims[2] - 1), NEW z \in 0..(Dims[3] - 1)
      PROVE  Scanline(r, W(y, z), y, z)
  <2> HIDE DEF P
  <2> QED
    BY <1>2 DEF Scanline
<1> HIDE DEF W
<1> QED
  BY <1>1, <1>3

LEMMA OnScanline ==
    ASSUME NEW r \in Rank, NEW w, NEW y \in 0..(Dims[2] - 1), NEW z \in 0..(Dims[3] - 1),
           Scanline(r, w, y, z)
    PROVE  /\ w.at \in Nat /\ w.src \in Nat /\ w.n = Dims[1]
           /\ \A p \in w.at..(w.at + w.n - 1) :
                 /\ InBrick(p - w.at, y, z)
                 /\ p = Place(to3d(r, Bricks), p - w.at, y, z)
                 /\ w.src + (p - w.at) = z * Dims[2] * Dims[1] + y * Dims[1] + (p - w.at)
           /\ \A dx \in 0..(Dims[1] - 1) :
                 Place(to3d(r, Bricks), dx, y, z) \in w.at..(w.at + w.n - 1)
<1> DEFINE pos == to3d(r, Bricks)
           base == (z + pos[3] * Dims[3]) * Voxels[2] * Voxels[1]
                     + (y + pos[2] * Dims[2]) * Voxels[1] + pos[1] * Dims[1]
           src == z * Dims[2] * Dims[1] + y * Dims[1]
           d1 == Dims[1]
<1>1. /\ \A d \in Three : pos[d] \in Nat
      /\ \A d \in Three : Voxels[d] \in Nat /\ Dims[d] \in Nat
      /\ d1 \in Nat \ {0}
  BY RankPlace, Sizes DEF Three
<1>2. y \in Nat /\ z \in Nat
  BY <1>1 DEF Three
<1>3. base \in Nat /\ src \in Nat
  <2>1. /\ pos[1] * Dims[1] \in Nat /\ pos[2] * Dims[2] \in Nat /\ pos[3] * Dims[3] \in Nat
        /\ Voxels[2] \in Nat /\ Voxels[1] \in Nat /\ Dims[2] \in Nat /\ Dims[1] \in Nat
    BY <1>1, ProductNat DEF Three
  <2>2. /\ (z + pos[3] * Dims[3]) \in Nat /\ (y + pos[2] * Dims[2]) \in Nat
    BY <1>2, <2>1
  <2>3. /\ (z + pos[3] * Dims[3]) * Voxels[2] \in Nat
        /\ (y + pos[2] * Dims[2]) * Voxels[1] \in Nat
        /\ z * Dims[2] \in Nat /\ y * Dims[1] \in Nat
    BY <1>2, <2>1, <2>2, ProductNat
  <2>4. /\ (z + pos[3] * Dims[3]) * Voxels[2] * Voxels[1] \in Nat
        /\ z * Dims[2] * Dims[1] \in Nat
    BY <2>1, <2>3, ProductNat
  <2> QED
    BY <2>1, <2>3, <2>4
<1>4. \A dx : Place(pos, dx, y, z) = base + dx
  BY DEF Place
<1>5. w.src = src /\ w.n = d1 /\ w.at = base + 0
  BY <1>4 DEF Scanline
<1>6. ASSUME NEW dx \in 0..(Dims[1] - 1) PROVE InBrick(dx, y, z)
  BY DEF InBrick
<1> HIDE DEF pos, base, src, d1
<1>7. w.at = base
  BY <1>3, <1>5
<1>8. ASSUME NEW p \in w.at..(w.at + w.n - 1)
      PROVE  p - w.at \in 0..(d1 - 1) /\ p = base + (p - w.at)
  BY <1>1, <1>3, <1>5, <1>7
<1>9. ASSUME NEW p \in w.at..(w.at + w.n - 1)
      PROVE  /\ InBrick(p - w.at, y, z)
             /\ p = Place(pos, p - w.at, y, z)
             /\ w.src + (p - w.at) = src + (p - w.at)
  BY <1>4, <1>5, <1>6, <1>8 DEF d1
<1>10. ASSUME NEW dx \in 0..(d1 - 1) PROVE base + dx \in w.at..(w.at + w.n - 1)
  BY <1>1, <1>3, <1>5, <1>7
<1> QED
  BY <1>3, <1>4, <1>5, <1>7, <1>9, <1>10 DEF pos, src, d1

-----------------------------------------------------------------------------
(* What a rank writes into the volume. *)

(* A write of a rank that merges: places of its brick, each with what       *)
(* belongs there.                                                          *)
LEMMA VolumeWritten ==
    ASSUME MergeInv, NEW r \in Rank, MergeWrite(r)
    PROVE  LET f == cur[r] IN
           /\ f \in Out3D
           /\ volume' = [g \in Field |-> volume'[g]]
           /\ \A g \in Field \ {f} : volume'[g] = volume[g]
           /\ \E w \in todo[r] :
                 /\ todo' = [todo EXCEPT ![r] = todo[r] \ {w}]
                 /\ DOMAIN volume'[f] = DOMAIN volume[f] \cup At(w)
                 /\ \A p \in DOMAIN volume'[f] :
                       IF p \in At(w) THEN p \in VolumeAt /\ volume'[f][p] = Belongs3D(f, p)
                       ELSE volume'[f][p] = volume[f][p]
<1> DEFINE f == cur[r]
           from == data[r]
           Source(i) == IF i < Len(from) THEN from[i + 1] ELSE Garbage
           old == volume[f]
           New(w) == [p \in DOMAIN old \cup At(w) |->
                        IF p \in At(w) THEN Source(w.src + (p - w.at)) ELSE old[p]]
<1>1. /\ f \in Out3D /\ f \in Field
      /\ from = Run(r, Pos(f), FieldSize)
      /\ todo[r] \subseteq Destination(r)
  BY Counts DEF MergeInv, Merging, MergeWrite
<1>2. PICK w \in todo[r] :
         volume' = [volume EXCEPT ![f] = New(w)] /\ todo' = [todo EXCEPT ![r] = todo[r] \ {w}]
  BY DEF MergeWrite, Written
<1>3. /\ FieldSize \in Nat /\ Len(from) = FieldSize
      /\ \A i \in 0..(FieldSize - 1) : from[i + 1] = <<r, Pos(f) + i>>
  <2> DEFINE a == Pos(f)
             m == FieldSize
  <2>3. a \in Nat /\ m \in Nat
    BY <1>1, Counts
  <2> HIDE DEF a, m, from
  <2>4. /\ Len(Run(r, a, m)) = m
        /\ \A j \in 1..m : Run(r, a, m)[j] = <<r, a + (j - 1)>>
    BY <2>3, RunFacts
  <2>5. from = Run(r, a, m)
    BY <1>1 DEF a, m
  <2>1. /\ Pos(f) \in Nat /\ FieldSize \in Nat
        /\ Len(from) = FieldSize
        /\ \A j \in 1..FieldSize : from[j] = <<r, a + (j - 1)>>
    BY <2>3, <2>4, <2>5 DEF a, m
  <2>2. ASSUME NEW i \in 0..(FieldSize - 1) PROVE from[i + 1] = <<r, a + i>>
    <3>1. i + 1 \in 1..FieldSize /\ a + ((i + 1) - 1) = a + i
      BY <2>1 DEF a
    <3> QED
      BY <2>1, <3>1 DEF a
  <2> QED
    BY <2>1, <2>2 DEF a
<1>4. ASSUME NEW p \in At(w)
      PROVE  p \in VolumeAt /\ Source(w.src + (p - w.at)) = Belongs3D(f, p)
  <2>2. PICK y \in 0..(Dims[2] - 1), z \in 0..(Dims[3] - 1) : Scanline(r, w, y, z)
    BY <1>1, Pieces
  <2>3. /\ InBrick(p - w.at, y, z)
        /\ p = Place(to3d(r, Bricks), p - w.at, y, z)
        /\ w.src + (p - w.at) = z * Dims[2] * Dims[1] + y * Dims[1] + (p - w.at)
    BY <1>4, <2>2, OnScanline DEF At
  <2> DEFINE dx == p - w.at
             i == z * Dims[2] * Dims[1] + y * Dims[1] + dx
  <2>4. /\ i \in Nat /\ i < FieldSize
        /\ i = z * Dims[1] * Dims[2] + y * Dims[1] + dx
    BY <2>3, Offsets
  <2>5. /\ p \in VolumeAt
        /\ Belongs3D(f, p) = <<r, Pos(f) + z * Dims[1] * Dims[2] + y * Dims[1] + dx>>
    BY <2>3, VoxelBelongs
  <2>6. w.src + (p - w.at) = i
    BY <2>3
  <2>7. Pos(f) + z * Dims[1] * Dims[2] + y * Dims[1] + dx = Pos(f) + i
    <3> DEFINE a == Pos(f)
               b == z * Dims[1] * Dims[2]
               c == y * Dims[1]
    <3>1. a \in Int /\ b \in Int /\ c \in Int /\ dx \in Int /\ i = b + c + dx
      <4>3. Pos(f) \in Nat
        BY <1>1, Counts
      <4>1. Dims[1] \in Nat /\ Dims[2] \in Nat /\ Dims[3] \in Nat /\ a \in Nat
        BY <4>3, Sizes DEF Three
      <4>2. y \in Int /\ z \in Int /\ dx \in Int
        BY <2>3, <4>1 DEF InBrick
      <4> QED
        BY <4>1, <4>2, <2>4
    <3>2. a + b + c + dx = a + i
      <4> HIDE DEF a, b, c, dx, i
      <4> QED
        BY <3>1
    <3> QED
      BY <3>2
  <2> HIDE DEF dx, i
  <2>8. Source(i) = <<r, Pos(f) + i>>
    <3>1. i \in 0..(FieldSize - 1) /\ i < Len(from)
      BY <1>3, <2>4
    <3> HIDE DEF from
    <3> QED
      BY <1>3, <3>1
  <2> QED
    BY <2>5, <2>6, <2>7, <2>8
<1> HIDE DEF from
<1>6. volume = [g \in Field |-> volume[g]]
  BY DEF MergeInv
<1> DEFINE new == New(w)
           D == DOMAIN old \cup At(w)
<1>7. /\ DOMAIN new = D
      /\ \A p \in D : new[p] = IF p \in At(w) THEN Source(w.src + (p - w.at)) ELSE old[p]
  OBVIOUS
<1> HIDE DEF new, old, Source, D, New
<1>8. /\ volume' = [g \in Field |-> volume'[g]]
      /\ \A g \in Field \ {f} : volume'[g] = volume[g]
      /\ volume'[f] = new
  <2> DEFINE vol == [volume EXCEPT ![f] = new]
  <2>1. vol = [g \in Field |-> IF g = f THEN new ELSE volume[g]]
    BY <1>6
  <2>2. volume' = vol
    BY <1>2 DEF new
  <2> QED
    BY <1>1, <2>1, <2>2
<1>9. ASSUME NEW p \in D
      PROVE  IF p \in At(w) THEN p \in VolumeAt /\ new[p] = Belongs3D(f, p) ELSE new[p] = old[p]
  BY <1>4, <1>7
<1> QED
  BY <1>1, <1>2, <1>7, <1>8, <1>9 DEF old, D

-----------------------------------------------------------------------------
(* The steps of out3d and those before it. *)

LEMMA MergingKept ==
    ASSUME NEW q \in Rank, Merging(q), pc'[q] = pc[q], cur'[q] = cur[q], brick'[q] = brick[q],
           data'[q] = data[q], todo'[q] \subseteq todo[q] \/ pc[q] # "writing"
    PROVE  Merging(q)'
BY DEF Merging, Pos, FieldSize, Destination

LEMMA VolumeKept ==
    ASSUME MergeInv, volume' = volume
    PROVE  volume' = [f \in Field |-> volume'[f]] /\ VolumePlaced'
BY DEF MergeInv, VolumePlaced, Belongs3D, Pos, FieldSize

LEMMA TypesOfMerge ==
    ASSUME MergeInv
    PROVE  /\ pc \in [Rank -> States] /\ cur \in [Rank -> 0..(NFiles + NFields + 1)]
           /\ offset \in [Rank -> 0..Total] /\ taken \in [Rank -> 0..Total]
           /\ \A q \in Rank : offset[q] + taken[q] <= Total
           /\ todo = [q \in Rank |-> todo[q]] /\ data = [q \in Rank |-> data[q]]
           /\ brick \in [Rank -> [Field -> Seq(Rank \X Int)]]
           /\ \A q \in Rank, f \in Field : brick[q][f] \in Seq(Datum)
           /\ \A q \in Rank : Merging(q)
           /\ \A q \in Rank : Streaming(q)
           /\ <<>> \in Seq(Datum) /\ aborted \in BOOLEAN
BY DEF MergeInv, BrickInv, NetzTypeOK, States

(* A step that leaves the loops and the bricks alone.                      *)
LEMMA MergeIdle ==
    ASSUME MergeInv, BrickInv', UNCHANGED <<pc, cur, offset, taken, brick, data, volume>>,
           aborted' \in BOOLEAN, todo' = [q \in Rank |-> todo'[q]],
           \A q \in Rank : todo'[q] \subseteq todo[q]
    PROVE  MergeInv'
<1>1. VolumePlaced' /\ volume' = [f \in Field |-> volume'[f]]
  BY VolumeKept
<1>2. \A q \in Rank : Merging(q)'
  BY TypesOfMerge, MergingKept
<1>3. NetzTypeOK'
  BY TypesOfMerge DEF NetzTypeOK, States
<1> QED
  BY <1>1, <1>2, <1>3, TypesOfMerge DEF MergeInv

LEMMA StartMerge ==
    ASSUME MergeInv, BrickInv', NEW r \in Rank, Start(r)
    PROVE  MergeInv'
<1>1. VolumePlaced' /\ volume' = [f \in Field |-> volume'[f]]
  BY VolumeKept DEF Start
<1>2. /\ pc'[r] = (IF NFiles = 0 THEN "running" ELSE "opening")
      /\ cur'[r] = 1
      /\ \A f \in Field : brick'[r][f] = <<>>
      /\ \A q \in Rank \ {r} : pc'[q] = pc[q] /\ cur'[q] = cur[q] /\ brick'[q] = brick[q]
      /\ pc' \in [Rank -> States] /\ cur' \in [Rank -> 0..(NFiles + NFields + 1)]
      /\ offset' \in [Rank -> 0..Total] /\ offset'[r] = 0
      /\ \A q \in Rank \ {r} : offset'[q] = offset[q]
      /\ taken' = taken /\ todo' = todo /\ data' = data
  <2>1. 1 \in 0..(NFiles + NFields + 1) /\ 0 \in 0..Total
    BY Counts
  <2> QED
    BY <2>1, TypesOfMerge DEF Start, States
<1>3. \A q \in Rank : Merging(q)'
  <2>1. \A q \in Rank \ {r} : Merging(q)'
    BY <1>2, TypesOfMerge, MergingKept
  <2>2. Merging(r)'
    BY <1>2, Counts DEF Merging
  <2> QED
    BY <2>1, <2>2
<1>4. \A q \in Rank, f \in Field : brick'[q][f] \in Seq(Datum)
  BY <1>2, TypesOfMerge
<1>5. NetzTypeOK'
  BY <1>2, <1>4, TypesOfMerge DEF NetzTypeOK, States, Start
<1>6. \A q \in Rank : offset'[q] + taken'[q] <= Total
  <2>1. taken[r] \in 0..Total /\ Total \in Nat
    BY TypesOfMerge, Counts
  <2>2. offset'[r] + taken'[r] <= Total
    BY <1>2, <2>1
  <2> QED
    BY <1>2, <2>2, TypesOfMerge
<1> QED
  BY <1>1, <1>2, <1>3, <1>5, <1>6, TypesOfMerge DEF MergeInv

LEMMA OpenMerge ==
    ASSUME MergeInv, BrickInv', NEW r \in Rank, Open(r)
    PROVE  MergeInv'
<1>1. VolumePlaced' /\ volume' = [f \in Field |-> volume'[f]]
  BY VolumeKept DEF Open
<1>2. cur[r] \in 1..NFiles /\ NFiles \in Nat /\ NFields \in Nat
  BY Counts, TypesOfMerge DEF Open, Merging
<1>3. /\ pc'[r] = (IF cur[r] = NFiles THEN "running" ELSE "opening")
      /\ cur'[r] = cur[r] + 1
      /\ \A q \in Rank \ {r} : pc'[q] = pc[q] /\ cur'[q] = cur[q]
      /\ UNCHANGED <<brick, offset, taken, todo, data, aborted>>
      /\ pc' \in [Rank -> States] /\ cur' \in [Rank -> 0..(NFiles + NFields + 1)]
  <2>1. cur[r] + 1 \in 0..(NFiles + NFields + 1)
    BY <1>2
  <2> QED
    BY <2>1, TypesOfMerge DEF Open, States
<1>4. \A q \in Rank : Merging(q)'
  <2>1. \A q \in Rank \ {r} : Merging(q)'
    BY <1>3, TypesOfMerge, MergingKept
  <2>2. pc'[r] = "opening" => cur'[r] \in File
    BY <1>2, <1>3, Counts
  <2>3. Merging(r)'
    BY <1>3, <2>2 DEF Merging
  <2> QED
    BY <2>1, <2>3
<1>5. NetzTypeOK'
  BY <1>3, TypesOfMerge DEF NetzTypeOK, States
<1> QED
  BY <1>1, <1>3, <1>4, <1>5, TypesOfMerge DEF MergeInv

(* exec goes on to a slice file, or ends.                                  *)
LEMMA SliceFromMerge ==
    ASSUME MergeInv, BrickInv', NEW r \in Rank, NEW n \in Nat, NEW k \in Nat \ {0},
           SliceFrom(r, n, k), pc[r] \in {"running", "slicing"}, offset[r] + n <= Total,
           UNCHANGED <<data, volume, aborted>>,
           \A q \in Rank, f \in Field : brick'[q][f] \in Seq(Datum),
           \A q \in Rank \ {r} : brick'[q] = brick[q]
    PROVE  MergeInv'
<1> DEFINE next == NextHit(r, n, k)
<1>1. VolumePlaced' /\ volume' = [f \in Field |-> volume'[f]]
  BY VolumeKept
<1>2. (next \in File \/ next = NFiles + 1) /\ next \in 0..(NFiles + NFields + 1)
  BY NextHitFacts, Counts
<1>3. n \in 0..Total /\ offset[r] + n \in 0..Total /\ 0 \in 0..Total
  BY Counts, TypesOfMerge
<1>4. /\ cur' = [cur EXCEPT ![r] = next]
      /\ \/ /\ next \in File
            /\ pc' = [pc EXCEPT ![r] = "slicing"]
            /\ todo' = [todo EXCEPT ![r] = Scanlines(r, n, next)]
            /\ taken' = [taken EXCEPT ![r] = n] /\ offset' = offset
         \/ /\ pc' = [pc EXCEPT ![r] = "running"] /\ todo' = todo
            /\ taken' = [taken EXCEPT ![r] = 0]
            /\ offset' = [offset EXCEPT ![r] = offset[r] + n]
  BY DEF SliceFrom
<1> HIDE DEF next
<1>5. /\ pc' \in [Rank -> States] /\ cur' \in [Rank -> 0..(NFiles + NFields + 1)]
      /\ offset' \in [Rank -> 0..Total] /\ taken' \in [Rank -> 0..Total]
      /\ (pc'[r] = "slicing" /\ cur'[r] \in File) \/ pc'[r] = "running"
      /\ \A q \in Rank \ {r} :
            /\ pc'[q] = pc[q] /\ cur'[q] = cur[q] /\ todo'[q] = todo[q]
            /\ offset'[q] = offset[q] /\ taken'[q] = taken[q]
  <2>0. cur' \in [Rank -> 0..(NFiles + NFields + 1)] /\ cur'[r] = next
        /\ \A q \in Rank \ {r} : cur'[q] = cur[q]
    BY <1>2, <1>4, TypesOfMerge
  <2>1. CASE /\ next \in File
             /\ pc' = [pc EXCEPT ![r] = "slicing"]
             /\ todo' = [todo EXCEPT ![r] = Scanlines(r, n, next)]
             /\ taken' = [taken EXCEPT ![r] = n] /\ offset' = offset
    BY <1>3, <2>0, <2>1, TypesOfMerge DEF States
  <2>2. CASE /\ pc' = [pc EXCEPT ![r] = "running"] /\ todo' = todo
             /\ taken' = [taken EXCEPT ![r] = 0]
             /\ offset' = [offset EXCEPT ![r] = offset[r] + n]
    BY <1>3, <2>0, <2>2, TypesOfMerge DEF States
  <2> QED
    BY <1>4, <2>1, <2>2
<1>6. offset'[r] + taken'[r] = offset[r] + n
  BY <1>3, <1>4, TypesOfMerge
<1>7. todo' = [q \in Rank |-> todo'[q]]
  BY <1>4, TypesOfMerge
<1>8. \A q \in Rank : Merging(q)'
  <2>1. \A q \in Rank \ {r} : Merging(q)'
    BY <1>5, TypesOfMerge, MergingKept
  <2>2. Merging(r)'
    BY <1>5 DEF Merging
  <2> QED
    BY <2>1, <2>2
<1>9. NetzTypeOK'
  BY <1>5, TypesOfMerge DEF NetzTypeOK, States
<1>10. \A q \in Rank : offset'[q] + taken'[q] <= Total
  BY <1>5, <1>6, TypesOfMerge
<1> QED
  BY <1>1, <1>7, <1>8, <1>9, <1>10, TypesOfMerge DEF MergeInv

LEMMA ExecMerge ==
    ASSUME SmallStream, MergeInv, BrickInv', NEW r \in Rank, NEW n \in WriteSizes, Exec(r, n)
    PROVE  MergeInv'
<1>1. n \in Nat \ {0} /\ Total \in Nat
  BY NetzAssumption
<1>2. /\ \A q \in Rank \ {r} : brick'[q] = brick[q]
      /\ brick'[r] = Cut(r, n) /\ pc[r] = "running" /\ offset[r] + n <= Total
      /\ UNCHANGED <<data, volume, aborted>> /\ SliceFrom(r, n, 1)
  BY TypesOfMerge DEF Exec
<1>3. ASSUME NEW q \in Rank, NEW f \in Field PROVE brick'[q][f] \in Seq(Datum)
  <2>1. CASE q # r
    BY <1>2, <2>1, TypesOfMerge
  <2>2. CASE q = r /\ f \notin Out3D
    <3>1. Cut(r, n)[f] = brick[r][f]
      BY <2>2 DEF Cut
    <3> QED
      BY <1>2, <2>2, <3>1, TypesOfMerge
  <2>3. CASE q = r /\ f \in Out3D
    <3>0. /\ offset \in [Rank -> Nat] /\ taken \in [Rank -> Nat] /\ pc \in [Rank -> States]
      BY DEF MergeInv, BrickInv
    <3>1. pc'[r] \in InStream
      BY <1>1, <1>2, <3>0, SliceFromFacts DEF InStream
    <3>2. brick'[r][f] = Run(r, Pos(f), Passed(r, f)')
      BY <2>3, <3>1 DEF BrickInv, Streaming, Pos, FieldSize, InStream
    <3>3. Passed(r, f)' \in Nat /\ Passed(r, f)' <= FieldSize
      <4>1. offset'[r] + taken'[r] \in Nat
        BY DEF BrickInv
      <4> QED
        BY <2>3, <4>1, Counts DEF Passed, Pos, FieldSize
    <3> QED
      BY <2>3, <3>2, <3>3, RunOfData
  <2> QED
    BY <2>1, <2>2, <2>3
<1> QED
  BY <1>1, <1>2, <1>3, SliceFromMerge

LEMMA SliceNextMerge ==
    ASSUME MergeInv, BrickInv', NEW r \in Rank, SliceNext(r)
    PROVE  MergeInv'
<1>1. /\ pc[r] = "slicing" /\ SliceFrom(r, taken[r], cur[r] + 1)
      /\ UNCHANGED <<data, volume, aborted, brick>>
  BY DEF SliceNext, files
<1>2. taken[r] \in Nat /\ cur[r] + 1 \in Nat \ {0} /\ offset[r] + taken[r] <= Total
  BY TypesOfMerge, Counts
<1>3. \A q \in Rank, f \in Field : brick'[q][f] \in Seq(Datum)
  BY <1>1, TypesOfMerge
<1> QED
  BY <1>1, <1>2, <1>3, SliceFromMerge

LEMMA FinishMerge ==
    ASSUME MergeInv, BrickInv', NEW r \in Rank, Finish(r)
    PROVE  MergeInv'
<1>0. UNCHANGED <<taken, todo, brick, data, volume, aborted>> /\ pc[r] = "running"
      /\ taken[r] = 0
  BY TypesOfMerge DEF Finish, files, Streaming
<1>1. VolumePlaced' /\ volume' = [f \in Field |-> volume'[f]]
  BY <1>0, VolumeKept
<1>2. \A h \in Out3D : h >= 0 /\ brick'[r][h] = Run(r, Pos(h), FieldSize)
  <2>1. \A h \in Out3D : brick[r][h] = Run(r, Pos(h), Passed(r, h))
    BY TypesOfMerge DEF Finish, Streaming, InStream
  <2> QED
    BY <1>0, <2>1, WholeField, Counts DEF Finish
<1>3. /\ Merging(r)'
      /\ cur' \in [Rank -> 0..(NFiles + NFields + 1)] /\ pc' \in [Rank -> States]
      /\ \A q \in Rank \ {r} : pc'[q] = pc[q] /\ cur'[q] = cur[q]
  <2>1. 0 \in Nat /\ 0 <= NFields /\ GoOn(r, 0)
    BY Counts DEF Finish
  <2>2. \A h \in Out3D : brick'[r][h] = IF h >= 0 THEN Run(r, Pos(h), FieldSize) ELSE <<>>
    BY <1>2
  <2> QED
    BY <2>1, <2>2, GoOnKeeps
<1>4. \A q \in Rank : Merging(q)'
  BY <1>0, <1>3, TypesOfMerge, MergingKept
<1>5. offset' \in [Rank -> 0..Total] /\ offset'[r] = 0 /\ \A q \in Rank \ {r} : offset'[q] = offset[q]
  BY Counts, TypesOfMerge DEF Finish
<1>6. NetzTypeOK'
  BY <1>0, <1>3, <1>5, TypesOfMerge DEF NetzTypeOK, States
<1>7. \A q \in Rank : offset'[q] + taken'[q] <= Total
  <2>1. offset'[r] + taken'[r] <= Total
    BY <1>0, <1>5, Counts
  <2> QED
    BY <1>0, <1>5, <2>1, TypesOfMerge
<1> QED
  BY <1>0, <1>1, <1>4, <1>6, <1>7, TypesOfMerge DEF MergeInv

LEMMA MergeOpenMerge ==
    ASSUME MergeInv, BrickInv', NEW r \in Rank, MergeOpen(r)
    PROVE  MergeInv'
<1> DEFINE g == cur[r]
<1>1. /\ g \in Out3D /\ g \in Field /\ pc[r] = "merging"
      /\ \A f \in Out3D : brick[r][f] = IF f >= g THEN Run(r, Pos(f), FieldSize) ELSE <<>>
  BY Counts, TypesOfMerge DEF MergeOpen, Merging
<1>2. volume = [f \in Field |-> volume[f]] /\ volume' = [volume EXCEPT ![g] = <<>>]
  BY DEF MergeInv, MergeOpen, Empty
<1>3. volume' = [f \in Field |-> IF f = g THEN <<>> ELSE volume[f]]
  BY <1>1, <1>2
<1>4. VolumePlaced' /\ volume' = [f \in Field |-> volume'[f]]
  <2>1. DOMAIN (<<>>) = {}
    OBVIOUS
  <2>2. \A f \in Field : volume'[f] = IF f = g THEN <<>> ELSE volume[f]
    BY <1>3
  <2>3. VolumePlaced'
    BY <2>1, <2>2 DEF MergeInv, VolumePlaced, Belongs3D, Pos, FieldSize
  <2> QED
    BY <1>3, <2>3
<1>5. /\ pc' \in [Rank -> States] /\ pc'[r] = "writing"
      /\ UNCHANGED <<cur, offset, taken, aborted>>
      /\ todo' = [q \in Rank |-> todo'[q]] /\ todo'[r] = Destination(r)
      /\ data' = [q \in Rank |-> data'[q]] /\ data'[r] = brick[r][g]
      /\ \A q \in Rank \ {r} : pc'[q] = pc[q] /\ todo'[q] = todo[q] /\ data'[q] = data[q]
  <2>1. /\ pc' = [pc EXCEPT ![r] = "writing"] /\ todo' = [todo EXCEPT ![r] = Destination(r)]
        /\ data' = [data EXCEPT ![r] = brick[r][g]]
        /\ UNCHANGED <<cur, offset, taken, aborted>>
    BY DEF MergeOpen
  <2> HIDE DEF g
  <2> QED
    BY <2>1, TypesOfMerge DEF States
<1>6. /\ \A q \in Rank \ {r} : brick'[q] = brick[q]
      /\ \A f \in Field : brick'[r][f] = IF f = g THEN <<>> ELSE brick[r][f]
  <2>1. brick' = [brick EXCEPT ![r] = [brick[r] EXCEPT ![g] = <<>>]]
    BY DEF MergeOpen
  <2> HIDE DEF g
  <2> QED
    BY <1>1, <2>1, TypesOfMerge
<1>7. \A q \in Rank : Merging(q)'
  <2>1. \A q \in Rank \ {r} : Merging(q)'
    BY <1>5, <1>6, TypesOfMerge, MergingKept
  <2>2. \A f \in Out3D : brick'[r][f] = IF f > g THEN Run(r, Pos(f), FieldSize) ELSE <<>>
    <3> HIDE DEF g
    <3> QED
      BY <1>1, <1>6, Counts
  <2>3. data'[r] = Run(r, Pos(g), FieldSize)
    <3> HIDE DEF g
    <3> QED
      BY <1>1, <1>5, Counts
  <2>4. Merging(r)'
    BY <1>1, <1>5, <2>2, <2>3 DEF Merging, Pos, FieldSize, Destination
  <2> QED
    BY <2>1, <2>4
<1>8. \A q \in Rank, f \in Field : brick'[q][f] \in Seq(Datum)
  BY <1>6, TypesOfMerge
<1>9. NetzTypeOK'
  BY <1>5, <1>8, TypesOfMerge DEF NetzTypeOK, States
<1>10. \A q \in Rank : offset'[q] + taken'[q] <= Total
  BY <1>5, TypesOfMerge
<1> QED
  BY <1>4, <1>5, <1>7, <1>9, <1>10 DEF MergeInv

LEMMA MergeWriteMerge ==
    ASSUME MergeInv, BrickInv', NEW r \in Rank, MergeWrite(r)
    PROVE  MergeInv'
<1> DEFINE g == cur[r]
<1>1. /\ g \in Out3D /\ g \in Field
      /\ volume' = [f \in Field |-> volume'[f]]
      /\ \A f \in Field \ {g} : volume'[f] = volume[f]
      /\ \E w \in todo[r] :
            /\ todo' = [todo EXCEPT ![r] = todo[r] \ {w}]
            /\ DOMAIN volume'[g] = DOMAIN volume[g] \cup At(w)
            /\ \A p \in DOMAIN volume'[g] :
                  IF p \in At(w) THEN p \in VolumeAt /\ volume'[g][p] = Belongs3D(g, p)
                  ELSE volume'[g][p] = volume[g][p]
  BY VolumeWritten, Counts
<1>2. VolumePlaced'
  <2>1. ASSUME NEW f \in Field, NEW p \in DOMAIN volume'[f]
        PROVE  p \in VolumeAt /\ volume'[f][p] = Belongs3D(f, p)
    <3>1. CASE f = g
      BY <1>1, <2>1, <3>1 DEF MergeInv, VolumePlaced
    <3>2. CASE f # g
      BY <1>1, <2>1, <3>2 DEF MergeInv, VolumePlaced
    <3> QED
      BY <3>1, <3>2
  <2> QED
    BY <2>1 DEF VolumePlaced, Belongs3D, Pos, FieldSize
<1>3. UNCHANGED <<pc, cur, offset, taken, brick, data, aborted>>
  BY DEF MergeWrite
<1>4. /\ todo' = [q \in Rank |-> todo'[q]]
      /\ \A q \in Rank : todo'[q] \subseteq todo[q]
  <2> HIDE DEF g
  <2> QED
    BY <1>1, TypesOfMerge
<1>5. \A q \in Rank : Merging(q)'
  BY <1>3, <1>4, TypesOfMerge, MergingKept
<1>6. NetzTypeOK'
  BY <1>3, TypesOfMerge DEF NetzTypeOK, States
<1> QED
  BY <1>1, <1>2, <1>3, <1>4, <1>5, <1>6, TypesOfMerge DEF MergeInv

LEMMA MergeNextMerge ==
    ASSUME MergeInv, BrickInv', NEW r \in Rank, MergeNext(r)
    PROVE  MergeInv'
<1> DEFINE g == cur[r]
<1>1. /\ g \in Out3D /\ g \in Field /\ g + 1 \in Nat /\ g + 1 <= NFields
      /\ \A h \in Out3D : brick[r][h] = IF h > g THEN Run(r, Pos(h), FieldSize) ELSE <<>>
  BY Counts, TypesOfMerge DEF MergeNext, Merging
<1>2. /\ UNCHANGED <<offset, taken, todo, brick, volume, aborted>> /\ GoOn(r, g + 1)
      /\ data' = [data EXCEPT ![r] = <<>>]
  BY DEF MergeNext
<1>3. VolumePlaced' /\ volume' = [f \in Field |-> volume'[f]]
  BY <1>2, VolumeKept
<1>4. \A h \in Out3D :
         brick'[r][h] = IF h >= g + 1 THEN Run(r, Pos(h), FieldSize) ELSE <<>>
  <2> HIDE DEF g
  <2> QED
    BY <1>1, <1>2, Counts
<1>5. data' = [q \in Rank |-> data'[q]] /\ \A q \in Rank \ {r} : data'[q] = data[q]
  BY <1>2, TypesOfMerge
<1>6. /\ Merging(r)'
      /\ cur' \in [Rank -> 0..(NFiles + NFields + 1)] /\ pc' \in [Rank -> States]
      /\ \A q \in Rank \ {r} : pc'[q] = pc[q] /\ cur'[q] = cur[q]
  <2> HIDE DEF g
  <2> QED
    BY <1>1, <1>2, <1>4, GoOnKeeps
<1>7. \A q \in Rank : Merging(q)'
  BY <1>2, <1>5, <1>6, TypesOfMerge, MergingKept
<1>8. NetzTypeOK'
  BY <1>2, <1>6, TypesOfMerge DEF NetzTypeOK, States
<1> QED
  BY <1>2, <1>3, <1>5, <1>7, <1>8, TypesOfMerge DEF MergeInv

LEMMA MergeStep == SmallStream /\ MergeInv /\ [Next]_vars => MergeInv'
<1> SUFFICES ASSUME SmallStream, MergeInv, [Next]_vars PROVE MergeInv'
  OBVIOUS
<1>1. BrickInv'
  BY BrickStep DEF MergeInv
<1>2. ASSUME NEW r \in Rank, NEW n \in WriteSizes, Exec(r, n) PROVE MergeInv'
  BY <1>1, <1>2, ExecMerge
<1>3. ASSUME NEW r \in Rank, NEW n \in WriteSizes, ExecAborts(r, n) PROVE MergeInv'
  BY <1>1, <1>3, MergeIdle, TypesOfMerge DEF ExecAborts, ranks, files
<1>4. ASSUME NEW r \in Rank, SliceWrite(r) PROVE MergeInv'
  <2>1. PICK w \in todo[r] : todo' = [todo EXCEPT ![r] = todo[r] \ {w}]
    BY <1>4 DEF SliceWrite
  <2>2. /\ todo' = [q \in Rank |-> todo'[q]]
        /\ \A q \in Rank : todo'[q] \subseteq todo[q]
    BY <2>1, TypesOfMerge
  <2> QED
    BY <1>1, <1>4, <2>2, MergeIdle, TypesOfMerge DEF SliceWrite
<1>5. CASE UNCHANGED vars
  BY <1>1, <1>5, MergeIdle, TypesOfMerge DEF vars, ranks, files
<1> QED
  BY <1>1, <1>2, <1>3, <1>4, <1>5, StartMerge, OpenMerge, SliceNextMerge, FinishMerge,
     MergeOpenMerge, MergeWriteMerge, MergeNextMerge DEF Next

LEMMA MergeInit == Init => MergeInv
<1> SUFFICES ASSUME Init PROVE MergeInv
  OBVIOUS
<1>1. BrickInv
  BY BrickInit
<1>2. NetzTypeOK /\ \A r \in Rank : offset[r] + taken[r] <= Total
  <2>1. 0 \in 0..(NFiles + NFields + 1) /\ 0 \in 0..Total /\ <<>> \in Seq(Datum)
        /\ 0 + 0 <= Total
    BY Counts
  <2>2. NetzTypeOK
    BY <2>1 DEF Init, NetzTypeOK
  <2>3. \A r \in Rank : offset[r] = 0 /\ taken[r] = 0
    BY DEF Init
  <2> QED
    BY <2>1, <2>2, <2>3
<1>3. volume = [f \in Field |-> volume[f]] /\ \A f \in Field : volume[f] = <<>>
  BY DEF Init, Empty
<1>4. VolumePlaced
  BY <1>3 DEF VolumePlaced
<1>5. \A r \in Rank : Merging(r)
  BY DEF Init, Merging
<1>6. todo = [r \in Rank |-> todo[r]] /\ data = [r \in Rank |-> data[r]]
  BY DEF Init
<1> QED
  BY <1>1, <1>2, <1>3, <1>4, <1>5, <1>6 DEF MergeInv

(***************************************************************************)
(* Whatever the order in which the ranks stream, finish and merge, and     *)
(* wherever one is cut short by another in its list of writes, each of     *)
(* them has merged a beginning of out3d's fields and nothing else          *)
(* (netz.mpic:798-823): the invariant of merging.                          *)
(***************************************************************************)
THEOREM MergeInvariant == ASSUME SmallStream PROVE Spec => []MergeInv
<1>1. MergeInv /\ [Next]_vars => MergeInv'
  BY MergeStep
<1> QED
  BY <1>1, MergeInit, PTL DEF Spec

(***************************************************************************)
(* In the merged file of a field every float that is there lies where it   *)
(* belongs in the whole volume, whichever rank wrote it and in whatever    *)
(* order the ranks' scanlines are written: find_destination's addresses    *)
(* (netz.mpic:374-393) are those of the unified file, and no rank writes   *)
(* over another one's brick.                                               *)
(***************************************************************************)
THEOREM BricksLandRight == ASSUME SmallStream PROVE Spec => []MergedRight
<1>1. MergeInv => MergedRight
  BY DEF MergeInv, MergedRight
<1> QED
  BY <1>1, MergeInvariant, PTL

-----------------------------------------------------------------------------

(* The other way round: each place of the volume is in one brick. *)

LEMMA Quotient ==
    ASSUME NEW b \in Nat, NEW m \in Nat \ {0}, NEW p \in Nat, p < b * m
    PROVE  /\ p \div m \in Nat /\ p \div m < b
           /\ p % m \in 0..(m - 1) /\ p = (p \div m) * m + (p % m)
<1> DEFINE q == p \div m
           a == p % m
<1>1. q \in Nat /\ a \in Nat /\ a < m /\ p = q * m + a
  BY Remainder
<1> HIDE DEF q, a
<1>2. ~(b <= q)
  <2> SUFFICES ASSUME b <= q PROVE FALSE
    OBVIOUS
  <2>1. b * m <= q * m
    BY <1>1
  <2>2. b * m \in Nat /\ q * m \in Nat
    BY <1>1, ProductNat
  <2> QED
    BY <1>1, <2>1, <2>2
<1>3. q < b /\ a \in 0..(m - 1)
  BY <1>1, <1>2
<1> QED
  BY <1>1, <1>3 DEF q, a

(* A place of the volume that belongs to a rank is in the brick of that    *)
(* rank.                                                                   *)
LEMMA InOneBrick ==
    ASSUME NEW r, NEW f, NEW p \in VolumeAt, Belongs3D(f, p)[1] = r
    PROVE  \E dx, y, z : InBrick(dx, y, z) /\ p = Place(to3d(r, Bricks), dx, y, z)
<1> DEFINE b1 == Bricks[1]
           b2 == Bricks[2]
           b3 == Bricks[3]
           d1 == Dims[1]
           d2 == Dims[2]
           d3 == Dims[3]
           v1 == Voxels[1]
           v2 == Voxels[2]
           v3 == Voxels[3]
           pos == to3d(r, Bricks)
           X == p % v1
           Y == (p \div v1) % v2
           Z == p \div (v1 * v2)
           px == X \div d1
           py == Y \div d2
           pz == Z \div d3
           dx == X % d1
           y == Y % d2
           z == Z % d3
<1>1. /\ b1 \in Nat \ {0} /\ b2 \in Nat \ {0} /\ b3 \in Nat \ {0}
      /\ d1 \in Nat \ {0} /\ d2 \in Nat \ {0} /\ d3 \in Nat \ {0}
      /\ v1 \in Nat \ {0} /\ v2 \in Nat \ {0} /\ v3 \in Nat \ {0}
      /\ v1 = b1 * d1 /\ v2 = b2 * d2 /\ v3 = b3 * d3
  BY Sizes DEF Three
<1>2. p \in 0..(v1 * v2 * v3 - 1)
  BY DEF VolumeAt
<1>3. r = pz * b1 * b2 + py * b1 + px
  BY DEF Belongs3D
<1>4. pos[1] = r % b1 /\ pos[2] = (r \div b1) % b2 /\ pos[3] = r \div (b1 * b2)
  BY DEF to3d
<1>5. \A i, j, k : Place(pos, i, j, k) =
         (k + pos[3] * d3) * v2 * v1 + (j + pos[2] * d2) * v1 + pos[1] * d1 + i
  BY DEF Place
<1>6. InBrick(dx, y, z) <=> dx \in 0..(d1 - 1) /\ y \in 0..(d2 - 1) /\ z \in 0..(d3 - 1)
  BY DEF InBrick
<1> HIDE DEF b1, b2, b3, d1, d2, d3, v1, v2, v3, pos
<1>7. v1 * v2 * v3 \in Nat
  BY <1>1, ProductNat
<1>8. p \in Nat /\ p < v1 * v2 * v3
  BY <1>2, <1>7
<1>9. /\ X \in Nat /\ X < v1 /\ Y \in Nat /\ Y < v2 /\ Z \in Nat /\ Z < v3
      /\ p = At3(X, Y, Z, v1, v2)
  BY <1>1, <1>8, Whole
<1> HIDE DEF X, Y, Z
<1>10. /\ px \in Nat /\ px < b1 /\ dx \in 0..(d1 - 1) /\ X = px * d1 + dx
  BY <1>1, <1>9, Quotient
<1>11. /\ py \in Nat /\ py < b2 /\ y \in 0..(d2 - 1) /\ Y = py * d2 + y
  BY <1>1, <1>9, Quotient
<1>12. /\ pz \in Nat /\ pz < b3 /\ z \in 0..(d3 - 1) /\ Z = pz * d3 + z
  BY <1>1, <1>9, Quotient
<1> HIDE DEF px, py, pz, dx, y, z
<1>13. r = At3(px, py, pz, b1, b2)
  BY <1>1, <1>3, <1>10, <1>11, <1>12 DEF At3
<1>14. pos[1] = px /\ pos[2] = py /\ pos[3] = pz
  <2> DEFINE q == At3(px, py, pz, b1, b2)
  <2>1. q % b1 = px /\ (q \div b1) % b2 = py /\ q \div (b1 * b2) = pz
    BY <1>1, <1>10, <1>11, <1>12, Parts
  <2> HIDE DEF q
  <2>2. r = q
    BY <1>13 DEF q
  <2> QED
    BY <1>4, <2>1, <2>2
<1>15. p = (z + pz * d3) * v2 * v1 + (y + py * d2) * v1 + px * d1 + dx
  <2>1. p = (Z * v2 + Y) * v1 + X
    BY <1>9 DEF At3
  <2>2. Z = z + pz * d3 /\ Y = y + py * d2 /\ z \in Int /\ y \in Int /\ dx \in Int
    BY <1>1, <1>10, <1>11, <1>12
  <2>3. (Z * v2 + Y) * v1 + X = Z * v2 * v1 + Y * v1 + px * d1 + dx
    BY <1>1, <1>9, <1>10, <2>2
  <2> QED
    BY <2>1, <2>2, <2>3
<1>16. p = Place(pos, dx, y, z)
  BY <1>5, <1>14, <1>15
<1>17. InBrick(dx, y, z)
  BY <1>6, <1>10, <1>11, <1>12
<1> QED
  BY <1>16, <1>17 DEF pos

-----------------------------------------------------------------------------
(* What arrives in the volumes. *)

(* A write of a rank's list is places of its brick, and some at least.     *)
LEMMA PieceBelongs ==
    ASSUME NEW r \in Rank, NEW f, NEW w \in Destination(r)
    PROVE  /\ At(w) # {}
           /\ \A p \in At(w) : p \in VolumeAt /\ Belongs3D(f, p)[1] = r
<1>1. PICK y \in 0..(Dims[2] - 1), z \in 0..(Dims[3] - 1) : Scanline(r, w, y, z)
  BY Pieces
<1>2. /\ w.at \in Nat /\ w.n = Dims[1] /\ Dims[1] \in Nat \ {0}
      /\ \A p \in At(w) : /\ InBrick(p - w.at, y, z)
                          /\ p = Place(to3d(r, Bricks), p - w.at, y, z)
  BY <1>1, OnScanline, Sizes DEF At, Three
<1>3. w.at \in At(w)
  BY <1>2 DEF At
<1>4. ASSUME NEW p \in At(w) PROVE p \in VolumeAt /\ Belongs3D(f, p)[1] = r
  BY <1>2, VoxelBelongs
<1> QED
  BY <1>3, <1>4

(* The writes that a rank has made into the volume of field f.             *)
Put(r, f) ==
    IF Merged(r, f) THEN Destination(r)
    ELSE IF pc[r] = "writing" /\ cur[r] = f THEN Destination(r) \ todo[r] ELSE {}

(***************************************************************************)
(* The inductive invariant of what a volume holds: what a rank has written *)
(* is there, unless an open took data of it away; and only ranks that have *)
(* opened a volume are in it, or were.                                     *)
(***************************************************************************)
ArrivedInv ==
    /\ stripped = [f \in Field |-> stripped[f]]
    /\ \A f \in Out3D, r \in Rank :
          /\ r \notin stripped[f] => \A w \in Put(r, f) : At(w) \subseteq DOMAIN volume[f]
          /\ r \in stripped[f] => HasOpened(r, f)
          /\ \A p \in DOMAIN volume[f] : volume[f][p][1] = r => HasOpened(r, f)
    /\ OneSurvives

LEMMA ArrivedInit == Init => ArrivedInv
<1> SUFFICES ASSUME Init PROVE ArrivedInv
  OBVIOUS
<1>1. /\ stripped = [f \in Field |-> {}]
      /\ \A f \in Field : volume[f] = <<>>
      /\ \A r \in Rank : pc[r] = "header"
  BY DEF Init, Empty
<1>2. \A f \in Out3D, r \in Rank : Put(r, f) = {} /\ ~HasOpened(r, f)
  BY <1>1 DEF Put, HasOpened, Merged
<1>3. Out3D \subseteq Field
  BY Counts
<1> QED
  BY <1>1, <1>2, <1>3 DEF ArrivedInv, OneSurvives

(* A rank whose merge did not go on.                                       *)
LEMMA PutSame ==
    ASSUME NEW q \in Rank, NEW f \in Out3D,
           \/ pc'[q] = pc[q] /\ cur'[q] = cur[q] /\ todo'[q] = todo[q]
           \/ /\ pc[q] \in InStream \cup {"header", "done"} /\ pc'[q] = pc[q]
           \/ pc[q] \in InStream \cup {"header"} /\ pc'[q] \in InStream
    PROVE  Put(q, f)' = Put(q, f) /\ HasOpened(q, f)' = HasOpened(q, f)
BY DEF Put, HasOpened, Merged, Destination, InStream

LEMMA ArrivedKept ==
    ASSUME ArrivedInv, UNCHANGED <<volume, stripped>>,
           \A q \in Rank, f \in Out3D :
              Put(q, f)' = Put(q, f) /\ HasOpened(q, f)' = HasOpened(q, f)
    PROVE  ArrivedInv'
<1>1. OneSurvives'
  BY DEF ArrivedInv, OneSurvives
<1> QED
  BY <1>1 DEF ArrivedInv, At

LEMMA OpenArrives ==
    ASSUME MergeInv, ArrivedInv, NEW r \in Rank, MergeOpen(r)
    PROVE  ArrivedInv'
<1>0. cur[r] \in Out3D /\ pc[r] = "merging"
  BY TypesOfMerge DEF MergeOpen, Merging
<1> PICK g \in Out3D : g = cur[r]
  BY <1>0
<1> DEFINE there == {volume[g][p][1] : p \in DOMAIN volume[g]}
<1>1. /\ g \in Out3D /\ g \in Field /\ pc[r] = "merging" /\ Out3D \subseteq Field
  BY <1>0, Counts
<1>2. /\ volume = [f \in Field |-> volume[f]] /\ stripped = [f \in Field |-> stripped[f]]
      /\ volume' = [volume EXCEPT ![g] = <<>>]
      /\ stripped' = [stripped EXCEPT ![g] = stripped[g] \cup there]
  BY DEF MergeInv, ArrivedInv, MergeOpen, Empty
<1>3. /\ pc'[r] = "writing" /\ cur' = cur /\ todo'[r] = Destination(r)
      /\ \A q \in Rank \ {r} : pc'[q] = pc[q] /\ todo'[q] = todo[q]
  <2>1. /\ pc' = [pc EXCEPT ![r] = "writing"] /\ todo' = [todo EXCEPT ![r] = Destination(r)]
        /\ cur' = cur
    BY DEF MergeOpen
  <2> QED
    BY <2>1, TypesOfMerge
<1> HIDE DEF there
<1>4. /\ \A f \in Field \ {g} : volume'[f] = volume[f] /\ stripped'[f] = stripped[f]
      /\ DOMAIN volume'[g] = {} /\ stripped'[g] = stripped[g] \cup there
      /\ stripped' = [f \in Field |-> stripped'[f]]
  <2>1. DOMAIN (<<>>) = {}
    OBVIOUS
  <2>2. volume' = [f \in Field |-> IF f = g THEN <<>> ELSE volume[f]]
    BY <1>1, <1>2
  <2>3. stripped' = [f \in Field |-> IF f = g THEN stripped[g] \cup there ELSE stripped[f]]
    BY <1>1, <1>2
  <2>4. volume'[g] = <<>> /\ \A f \in Field \ {g} : volume'[f] = volume[f]
    BY <1>1, <2>2
  <2>5. /\ stripped'[g] = stripped[g] \cup there
        /\ \A f \in Field \ {g} : stripped'[f] = stripped[f]
    BY <1>1, <2>3
  <2> QED
    BY <2>1, <2>3, <2>4, <2>5
<1>5. \A q \in Rank \ {r}, f \in Out3D :
         Put(q, f)' = Put(q, f) /\ HasOpened(q, f)' = HasOpened(q, f)
  BY <1>3, PutSame
<1>6. ASSUME NEW f \in Out3D
      PROVE  /\ ~HasOpened(r, g) /\ HasOpened(r, g)'
             /\ Put(r, g)' = {}
             /\ f # g => Put(r, f)' = Put(r, f) /\ HasOpened(r, f)' = HasOpened(r, f)
  <2>1. f \in Nat /\ g \in Nat
    BY <1>1, Counts
  <2>2. cur'[r] = g
    BY <1>3
  <2>3. cur[r] = g
    OBVIOUS
  <2> QED
    BY <1>1, <1>3, <2>1, <2>2, <2>3 DEF Put, HasOpened, Merged, Destination
<1>7. r \notin stripped'[g]
  <2>1. r \notin stripped[g] /\ r \notin there
    BY <1>1, <1>6 DEF ArrivedInv, there
  <2> QED
    BY <1>4, <2>1
<1>8. ASSUME NEW f \in Out3D, NEW q \in Rank
      PROVE  /\ q \notin stripped'[f] => \A w \in Put(q, f)' : At(w) \subseteq DOMAIN volume'[f]
             /\ q \in stripped'[f] => HasOpened(q, f)'
             /\ \A p \in DOMAIN volume'[f] : volume'[f][p][1] = q => HasOpened(q, f)'
  <2>1. CASE f # g
    <3>1. Put(q, f)' = Put(q, f) /\ HasOpened(q, f)' = HasOpened(q, f)
      BY <2>1, <1>5, <1>6
    <3> QED
      BY <1>1, <1>4, <2>1, <3>1 DEF ArrivedInv
  <2>2. CASE f = g /\ q = r
    BY <1>4, <1>6, <1>7, <2>2
  <2>3. CASE f = g /\ q # r
    <3>1. Put(q, g)' = Put(q, g) /\ HasOpened(q, g)' = HasOpened(q, g)
      BY <1>1, <2>3, <1>5
    <3>2. q \in there => HasOpened(q, g)
      BY <1>1 DEF there, ArrivedInv
    <3>3. q \notin stripped[g] \cup there => Put(q, g) = {}
      <4> SUFFICES ASSUME q \notin stripped[g], q \notin there, NEW w \in Put(q, g)
                   PROVE  FALSE
        OBVIOUS
      <4>1. w \in Destination(q)
        BY DEF Put
      <4>2. PICK p : p \in At(w) /\ Belongs3D(g, p)[1] = q
        BY <4>1, PieceBelongs
      <4>3. p \in DOMAIN volume[g]
        BY <1>1, <4>2 DEF ArrivedInv
      <4>4. volume[g][p] = Belongs3D(g, p)
        BY <1>1, <4>3 DEF MergeInv, VolumePlaced
      <4> QED
        BY <4>2, <4>3, <4>4 DEF there
    <3> QED
      BY <1>1, <1>4, <2>3, <3>1, <3>2, <3>3 DEF ArrivedInv
  <2> QED
    BY <2>1, <2>2, <2>3
<1>9. OneSurvives'
  <2> SUFFICES ASSUME NEW f \in Out3D, NEW q \in Rank, HasOpened(q, f)'
               PROVE  \E s \in Rank : HasOpened(s, f)' /\ s \notin stripped'[f]
    BY DEF OneSurvives
  <2>1. CASE f = g
    BY <1>6, <1>7, <2>1
  <2>2. CASE f # g
    <3>1. \A s \in Rank : HasOpened(s, f)' = HasOpened(s, f)
      BY <2>2, <1>5, <1>6
    <3> QED
      BY <1>1, <1>4, <2>2, <3>1 DEF ArrivedInv, OneSurvives
  <2> QED
    BY <2>1, <2>2
<1> QED
  BY <1>4, <1>8, <1>9 DEF ArrivedInv, At

LEMMA WriteArrives ==
    ASSUME MergeInv, ArrivedInv, NEW r \in Rank, MergeWrite(r)
    PROVE  ArrivedInv'
<1>0. cur[r] \in Out3D
  BY TypesOfMerge DEF MergeWrite, Merging
<1> PICK g \in Out3D : g = cur[r]
  BY <1>0
<1>1. /\ g \in Out3D /\ g \in Field /\ Out3D \subseteq Field
      /\ \A f \in Field \ {g} : volume'[f] = volume[f]
      /\ UNCHANGED <<pc, cur, stripped>> /\ pc[r] = "writing"
      /\ todo[r] \subseteq Destination(r)
  BY VolumeWritten, Counts, TypesOfMerge DEF MergeWrite, history, Merging
<1>2. PICK v \in todo[r] :
         /\ todo' = [todo EXCEPT ![r] = todo[r] \ {v}]
         /\ DOMAIN volume'[g] = DOMAIN volume[g] \cup At(v)
         /\ \A p \in DOMAIN volume'[g] :
               IF p \in At(v) THEN p \in VolumeAt /\ volume'[g][p] = Belongs3D(g, p)
               ELSE volume'[g][p] = volume[g][p]
  BY VolumeWritten
<1>3. /\ todo'[r] = todo[r] \ {v} /\ \A q \in Rank \ {r} : todo'[q] = todo[q]
  BY <1>2, TypesOfMerge
<1>4. \A q \in Rank, f \in Out3D : HasOpened(q, f)' = HasOpened(q, f)
  BY <1>1 DEF HasOpened, Merged
<1>5. \A q \in Rank \ {r}, f \in Out3D : Put(q, f)' = Put(q, f)
  BY <1>1, <1>3, PutSame
<1>6. ASSUME NEW f \in Out3D
      PROVE  /\ f # g => Put(r, f)' = Put(r, f)
             /\ Put(r, g)' \subseteq Put(r, g) \cup {v}
             /\ HasOpened(r, g)
  <2>1. f \in Nat /\ g \in Nat
    BY <1>1, Counts
  <2>2. cur'[r] = g /\ cur[r] = g /\ pc'[r] = "writing"
    BY <1>1
  <2> QED
    BY <1>1, <1>3, <2>1, <2>2 DEF Put, HasOpened, Merged, Destination
<1>7. ASSUME NEW f \in Out3D, NEW q \in Rank
      PROVE  /\ q \notin stripped'[f] => \A w \in Put(q, f)' : At(w) \subseteq DOMAIN volume'[f]
             /\ q \in stripped'[f] => HasOpened(q, f)'
             /\ \A p \in DOMAIN volume'[f] : volume'[f][p][1] = q => HasOpened(q, f)'
  <2>1. CASE f # g
    <3>1. Put(q, f)' = Put(q, f)
      BY <2>1, <1>5, <1>6
    <3> QED
      BY <1>1, <1>4, <2>1, <3>1 DEF ArrivedInv
  <2>2. CASE f = g
    <3>1. Put(q, g)' \subseteq Put(q, g) \cup {v}
      BY <1>1, <1>5, <1>6
    <3>2. \A w \in Put(q, g) : q \notin stripped[g] => At(w) \subseteq DOMAIN volume[g]
      BY <1>1 DEF ArrivedInv
    <3>3. At(v) \subseteq DOMAIN volume'[g] /\ DOMAIN volume[g] \subseteq DOMAIN volume'[g]
      BY <1>2
    <3>4. ASSUME NEW p \in DOMAIN volume'[g], volume'[g][p][1] = q
          PROVE  HasOpened(q, g)
      <4>1. CASE p \in At(v)
        <5>1. volume'[g][p] = Belongs3D(g, p)
          BY <1>2, <4>1
        <5>2. v \in Destination(r)
          BY <1>1
        <5>3. Belongs3D(g, p)[1] = r
          BY <4>1, <5>2, PieceBelongs
        <5> QED
          BY <1>1, <1>6, <3>4, <5>1, <5>3
      <4>2. CASE p \notin At(v)
        <5>1. p \in DOMAIN volume[g] /\ volume'[g][p] = volume[g][p]
          BY <1>2, <4>2
        <5> QED
          BY <1>1, <3>4, <5>1 DEF ArrivedInv
      <4> QED
        BY <4>1, <4>2
    <3>5. stripped' = stripped /\ (q \in stripped[g] => HasOpened(q, g))
      BY <1>1 DEF ArrivedInv
    <3>6. HasOpened(q, g)' = HasOpened(q, g)
      BY <1>1, <1>4
    <3> QED
      BY <2>2, <3>1, <3>2, <3>3, <3>4, <3>5, <3>6
  <2> QED
    BY <2>1, <2>2
<1>8. OneSurvives'
  BY <1>1, <1>4 DEF ArrivedInv, OneSurvives
<1>9. stripped' = [f \in Field |-> stripped'[f]]
  BY <1>1 DEF ArrivedInv
<1> QED
  BY <1>7, <1>8, <1>9 DEF ArrivedInv, At

(* out3d goes on: what it leaves is merged, and no other field is.         *)
LEMMA GoOnArrives ==
    ASSUME MergeInv, NEW r \in Rank, NEW f \in Nat, GoOn(r, f), NEW h \in Out3D
    PROVE  /\ Merged(r, h)' <=> h < f
           /\ HasOpened(r, h)' <=> h < f
           /\ pc'[r] # "writing"
<1> DEFINE g == NextMerge(f)
<1>1. /\ cur'[r] = g
      /\ pc'[r] = IF g = NFields THEN "done" ELSE "merging"
  BY TypesOfMerge DEF GoOn
<1>2. \/ g = NFields /\ g \notin Out3D /\ \A k \in Out3D : k < f
      \/ /\ g \in Out3D /\ g # NFields /\ g >= f
         /\ \A k \in Out3D : k >= f => g <= k
  BY NextMergeFacts
<1> HIDE DEF g
<1>3. h \in Nat /\ h < NFields /\ NFields \in Nat /\ (g \in Out3D => g \in Nat)
  BY Counts
<1> QED
  BY <1>1, <1>2, <1>3 DEF Merged, HasOpened

LEMMA GoesOnArrives ==
    ASSUME MergeInv, ArrivedInv, NEW r \in Rank, Finish(r) \/ MergeNext(r)
    PROVE  ArrivedInv'
<1>1. /\ UNCHANGED <<todo, volume, stripped>>
      /\ \A q \in Rank \ {r} : pc'[q] = pc[q] /\ cur'[q] = cur[q]
  BY TypesOfMerge DEF Finish, MergeNext, GoOn, files, history
<1>2. ASSUME NEW f \in Out3D
      PROVE  Put(r, f)' = Put(r, f) /\ HasOpened(r, f)' = HasOpened(r, f)
  <2>1. CASE Finish(r)
    <3>1. GoOn(r, 0) /\ 0 \in Nat /\ pc[r] = "running" /\ ~(f < 0)
      BY <2>1, Counts DEF Finish
    <3>2. ~Merged(r, f)' /\ ~HasOpened(r, f)' /\ pc'[r] # "writing"
      BY <3>1, GoOnArrives
    <3> QED
      BY <3>1, <3>2 DEF Put, Merged, HasOpened
  <2>2. CASE MergeNext(r)
    <3>1. GoOn(r, cur[r] + 1) /\ pc[r] = "writing" /\ todo[r] = {} /\ cur[r] \in Nat
      BY <2>2, Counts, TypesOfMerge DEF MergeNext, Merging
    <3>2. f \in Nat /\ cur[r] + 1 \in Nat
      BY <3>1, Counts
    <3>3. /\ Merged(r, f)' <=> f < cur[r] + 1
          /\ HasOpened(r, f)' <=> f < cur[r] + 1
          /\ pc'[r] # "writing"
      BY <3>1, <3>2, GoOnArrives
    <3>4. Merged(r, f) <=> f < cur[r]
      BY <3>1, <3>2 DEF Merged
    <3>5. HasOpened(r, f) <=> f < cur[r] + 1
      BY <3>1, <3>2, <3>4 DEF HasOpened
    <3>6. Put(r, f) = IF f < cur[r] + 1 THEN Destination(r) ELSE {}
      BY <3>1, <3>2, <3>4 DEF Put
    <3>7. Put(r, f)' = IF f < cur[r] + 1 THEN Destination(r) ELSE {}
      BY <3>3 DEF Put, Destination
    <3>8. HasOpened(r, f) \in BOOLEAN /\ HasOpened(r, f)' \in BOOLEAN
      BY DEF HasOpened, Merged
    <3> QED
      BY <3>3, <3>5, <3>6, <3>7, <3>8
  <2> QED
    BY <2>1, <2>2
<1>3. \A q \in Rank \ {r}, f \in Out3D :
         Put(q, f)' = Put(q, f) /\ HasOpened(q, f)' = HasOpened(q, f)
  BY <1>1, PutSame
<1> QED
  BY <1>1, <1>2, <1>3, ArrivedKept

LEMMA ArrivedStep == MergeInv /\ ArrivedInv /\ [Next]_vars => ArrivedInv'
<1> SUFFICES ASSUME MergeInv, ArrivedInv, [Next]_vars PROVE ArrivedInv'
  OBVIOUS
<1>1. ASSUME NEW r \in Rank, UNCHANGED <<volume, stripped>>,
             pc[r] \in InStream \cup {"header"}, pc'[r] \in InStream,
             \A q \in Rank \ {r} : pc'[q] = pc[q] /\ cur'[q] = cur[q] /\ todo'[q] = todo[q]
      PROVE  ArrivedInv'
  BY <1>1, PutSame, ArrivedKept
<1>2. ASSUME NEW r \in Rank, Start(r) PROVE ArrivedInv'
  BY <1>1, <1>2, TypesOfMerge DEF Start, history, InStream
<1>3. ASSUME NEW r \in Rank, Open(r) PROVE ArrivedInv'
  BY <1>1, <1>3, TypesOfMerge DEF Open, InStream
<1>4. ASSUME NEW r \in Rank, NEW n, NEW k, SliceFrom(r, n, k)
      PROVE  /\ pc'[r] \in InStream
             /\ \A q \in Rank \ {r} : pc'[q] = pc[q] /\ cur'[q] = cur[q] /\ todo'[q] = todo[q]
  BY <1>4, TypesOfMerge DEF SliceFrom, InStream
<1>5. ASSUME NEW r \in Rank, NEW n \in WriteSizes, Exec(r, n) PROVE ArrivedInv'
  <2>1. SliceFrom(r, n, 1) /\ UNCHANGED <<volume, stripped>> /\ pc[r] = "running"
    BY <1>5 DEF Exec
  <2> QED
    BY <1>1, <1>4, <2>1 DEF InStream
<1>6. ASSUME NEW r \in Rank, SliceNext(r) PROVE ArrivedInv'
  <2>1. SliceFrom(r, taken[r], cur[r] + 1) /\ UNCHANGED <<volume, stripped>> /\ pc[r] = "slicing"
    BY <1>6 DEF SliceNext, files, history
  <2> QED
    BY <1>1, <1>4, <2>1 DEF InStream
<1>7. ASSUME NEW r \in Rank, SliceWrite(r) PROVE ArrivedInv'
  <2>1. /\ UNCHANGED <<pc, cur, volume, stripped>> /\ pc[r] = "slicing"
        /\ \A q \in Rank \ {r} : todo'[q] = todo[q]
    BY <1>7, TypesOfMerge DEF SliceWrite, history
  <2> QED
    BY <1>1, <2>1 DEF InStream
<1>8. ASSUME UNCHANGED <<pc, cur, todo, volume, stripped>> PROVE ArrivedInv'
  BY <1>8, PutSame, ArrivedKept
<1>9. ASSUME NEW r \in Rank, NEW n \in WriteSizes, ExecAborts(r, n) PROVE ArrivedInv'
  BY <1>8, <1>9 DEF ExecAborts, ranks, files, history
<1>10. CASE UNCHANGED vars
  BY <1>8, <1>10 DEF vars, ranks, files, history
<1> QED
  BY <1>2, <1>3, <1>5, <1>6, <1>7, <1>9, <1>10, OpenArrives, WriteArrives, GoesOnArrives
     DEF Next

(* What the invariant says of a brick.                                     *)
LEMMA BrickIsKept == MergeInv /\ ArrivedInv => BrickKept
<1> SUFFICES ASSUME MergeInv, ArrivedInv, NEW f \in Out3D, NEW r \in Rank,
                    Merged(r, f), r \notin stripped[f],
                    NEW p \in VolumeAt, Belongs3D(f, p)[1] = r
             PROVE  p \in DOMAIN volume[f] /\ volume[f][p] = Belongs3D(f, p)
  BY DEF BrickKept
<1>1. PICK dx, y, z : InBrick(dx, y, z) /\ p = Place(to3d(r, Bricks), dx, y, z)
  BY InOneBrick
<1>2. /\ dx \in 0..(Dims[1] - 1) /\ y \in 0..(Dims[2] - 1) /\ z \in 0..(Dims[3] - 1)
  BY <1>1 DEF InBrick
<1>3. PICK w \in Destination(r) : Scanline(r, w, y, z)
  BY <1>2, Pieces
<1>4. p \in At(w)
  BY <1>1, <1>2, <1>3, OnScanline DEF At
<1>5. Put(r, f) = Destination(r)
  BY DEF Put
<1>6. p \in DOMAIN volume[f]
  BY <1>3, <1>4, <1>5 DEF ArrivedInv
<1> QED
  BY <1>6, Counts DEF MergeInv, VolumePlaced

(* What has been written of a brick stays in the volume until another rank   *)
(* opens it (netz.mpic:482-506): the invariant of what arrives.             *)
THEOREM ArrivedInvariant == ASSUME SmallStream PROVE Spec => []ArrivedInv
<1>1. MergeInv /\ ArrivedInv /\ [Next]_vars => ArrivedInv'
  BY ArrivedStep
<1> QED
  BY <1>1, ArrivedInit, MergeInvariant, PTL DEF Spec

(***************************************************************************)
(* netz.mpic:803-804, "let's merge all those bricks", though no rank waits *)
(* for another: whatever the order of the opens, of the truncations and of *)
(* the scanlines of all ranks, a rank's brick is whole in its volume unless*)
(* another rank opened the volume when some of the brick was there; of the *)
(* ranks that have opened a volume one at least was not stripped; and a    *)
(* rank that is done has no brick left. That all bricks are there in the   *)
(* end does not follow: VolumeComplete is violated.                        *)
(***************************************************************************)
THEOREM BricksArriveWhole == ASSUME SmallStream PROVE Spec => []BricksMerged
<1>1. MergeInv /\ ArrivedInv => BricksMerged
  <2>1. MergeInv => EveryBrickMerged
    BY DEF MergeInv, Merging, EveryBrickMerged
  <2> QED
    BY <2>1, BrickIsKept DEF BricksMerged, ArrivedInv
<1> QED
  BY <1>1, MergeInvariant, ArrivedInvariant, PTL
-----------------------------------------------------------------------------
(* Places of a slice file. *)

(* A place of a slice file from its scanline l, its column x of bricks and *)
(* what is left, c; and how far into its source a write has it.            *)
OnRow(p, l, x, c, v, d) == p = l * v + x * d + c
Digits(p, l, x, c, v, d) == p \div v = l /\ p % d = c /\ (p % v) \div d = x
Brings(w, p, l, c, d, off) == w.src + (p - w.at) = l * d + c - off /\ l * d + c >= off

LEMMA RowParts ==
    ASSUME NEW b \in Nat \ {0}, NEW d \in Nat \ {0}, NEW h \in Nat \ {0}, NEW v \in Nat, v = b * d,
           NEW l \in Nat, l < h, NEW x \in Nat, x < b, NEW c \in Nat, c < d,
           NEW p, OnRow(p, l, x, c, v, d)
    PROVE  p \in Nat /\ p < v * h /\ Digits(p, l, x, c, v, d)
<1> DEFINE X == x * d + c
<1>1. v \in Nat \ {0} /\ X \in Nat /\ X < v
  BY ProductNat, Inside
<1>2. X \div d = x /\ X % d = c
  <2>1. X = Join(x, d, c)
    BY DEF Join
  <2>2. Join(x, d, c) \div d = x /\ Join(x, d, c) % d = c
    BY Separated
  <2> QED
    BY <2>1, <2>2
<1>3. p = Join(l, v, X)
  <2>1. l * v \in Nat /\ x * d \in Nat
    BY <1>1, ProductNat
  <2> QED
    BY <2>1 DEF Join, OnRow
<1>4. p = Join(l * b + x, d, c) /\ l * b + x \in Nat
  <2>1. l * v = l * b * d /\ l * b \in Nat
    BY ProductNat
  <2> QED
    BY <2>1 DEF Join, OnRow
<1> HIDE DEF X
<1>5. p \div v = l /\ p % v = X
  BY <1>1, <1>3, Separated
<1>6. p % d = c
  <2> DEFINE q == l * b + x
  <2>1. q \in Nat /\ p = Join(q, d, c)
    BY <1>4
  <2> HIDE DEF q
  <2> QED
    BY <2>1, Separated
<1>7. p \in Nat /\ p < h * v
  <2>1. l * v + X \in Nat /\ l * v + X < h * v
    BY <1>1, Inside
  <2> QED
    BY <1>3, <2>1 DEF Join
<1>8. h * v = v * h
  BY <1>1
<1> QED
  BY <1>2, <1>5, <1>6, <1>7, <1>8 DEF Digits

LEMMA RowOfParts ==
    ASSUME NEW b \in Nat \ {0}, NEW d \in Nat \ {0}, NEW h \in Nat \ {0}, NEW v \in Nat, v = b * d,
           NEW p \in Nat, p < v * h
    PROVE  /\ p \div v \in Nat /\ p \div v < h
           /\ (p % v) \div d \in Nat /\ (p % v) \div d < b
           /\ p % d \in Nat /\ p % d < d
           /\ OnRow(p, p \div v, (p % v) \div d, p % d, v, d)
<1> DEFINE l == p \div v
           X == p % v
           x == X \div d
           c == X % d
<1>1. v \in Nat \ {0} /\ p < h * v
  BY ProductNat
<1>2. l \in Nat /\ l < h /\ X \in 0..(v - 1) /\ p = l * v + X
  BY <1>1, Quotient
<1> HIDE DEF l, X
<1>3. X \in Nat /\ X < b * d
  BY <1>1, <1>2
<1>4. x \in Nat /\ x < b /\ c \in 0..(d - 1) /\ X = x * d + c
  BY <1>3, Quotient
<1> HIDE DEF x, c
<1>5. c \in Nat /\ c < d /\ p = l * v + x * d + c
  <2>1. l * v \in Nat /\ x * d \in Nat
    BY <1>1, <1>2, <1>4, ProductNat
  <2> QED
    BY <1>2, <1>4, <2>1
<1>6. OnRow(p, l, x, c, v, d)
  BY <1>5 DEF OnRow
<1>7. p % d = c
  <2>1. Digits(p, l, x, c, v, d)
    BY <1>1, <1>2, <1>4, <1>5, <1>6, RowParts
  <2> QED
    BY <2>1 DEF Digits
<1> QED
  BY <1>2, <1>4, <1>5, <1>6, <1>7 DEF l, X, x

(* Where wlist2d puts the floats of a write (netz.mpic:405-429): the float *)
(* that is `off' and some into the slice goes to its scanline, in the      *)
(* column of the brick.                                                    *)
LEMMA ListRight ==
    ASSUME NEW b \in Nat \ {0}, NEW d \in Nat \ {0}, NEW h \in Nat \ {0},
           NEW v \in Nat, v = b * d, NEW vox, vox[1] = v, NEW layout, NEW x \in Nat, x < b, layout[1] = x,
           NEW off \in Nat, NEW n \in Nat \ {0}, off + n <= d * h,
           NEW w \in wlist2d(vox, off, n, layout, d), NEW p \in At(w)
    PROVE  \E l \in Nat, c \in Nat :
              l < h /\ c < d /\ OnRow(p, l, x, c, v, d) /\ Brings(w, p, l, c, d, off)
<1> DEFINE s == off % d
           sline == off \div d
           Later(i) == (d - s) + (i - 1) * d
           head == [at |-> sline * v + d * x + s, src |-> 0, n |-> d - s]
           Piece(i) == [at |-> (sline + i) * v + x * d, src |-> Later(i),
                        n |-> IF d < n - Later(i) THEN d ELSE n - Later(i)]
           m == Ceil(n, d)
<1>1. wlist2d(vox, off, n, layout, d) = {head} \cup {Piece(i) : i \in 1..(m - 1)}
  BY DEF wlist2d
<1>2. s \in Nat /\ s < d /\ sline \in Nat /\ off = sline * d + s
  BY Remainder
<1>3. v \in Nat /\ x * d \in Nat /\ d * x = x * d
  BY ProductNat
<1>4. m = (n + d - 1) \div d
  BY DEF Ceil
<1> HIDE DEF s, sline, m, Piece, head
<1>5. sline < h
  <2> SUFFICES ASSUME h <= sline PROVE FALSE
    BY <1>2
  <2>1. h * d <= sline * d /\ h * d \in Nat /\ sline * d \in Nat /\ d * h = h * d
    BY <1>2, ProductNat
  <2> QED
    BY <1>2, <2>1
<1>6. CASE w = head
  <2> DEFINE c == p - (sline * v + x * d)
  <2>1. sline * v \in Nat /\ sline * d \in Nat
    BY <1>2, <1>3, ProductNat
  <2>2. w.at = sline * v + x * d + s /\ w.src = 0 /\ w.n = d - s
    BY <1>3, <1>6 DEF head
  <2>3. p \in (sline * v + x * d + s)..(sline * v + x * d + d - 1)
    BY <1>2, <1>3, <2>1, <2>2 DEF At
  <2>4. c \in Nat /\ c < d /\ s <= c /\ p = sline * v + x * d + c /\ p - w.at = c - s
    BY <1>2, <1>3, <2>1, <2>2, <2>3
  <2>5. w.src + (p - w.at) = sline * d + c - off /\ sline * d + c >= off
    BY <1>2, <2>1, <2>2, <2>4
  <2> HIDE DEF c
  <2> QED
    BY <1>2, <1>5, <2>4, <2>5 DEF OnRow, Brings
<1>7. CASE w # head
  <2>1. PICK i \in 1..(m - 1) : w = Piece(i)
    BY <1>1, <1>7
  <2>2. m \in Nat /\ m * d <= n + d - 1
    <3>1. m \in Nat /\ (n + d - 1) % d \in Nat
          /\ n + d - 1 = m * d + ((n + d - 1) % d)
      BY <1>4, Remainder
    <3>2. m * d \in Nat
      BY <3>1, ProductNat
    <3> QED
      BY <3>1, <3>2
  <2>3. i \in Nat /\ i + 1 <= m
    BY <2>1, <2>2
  <2> DEFINE at == (sline + i) * v + x * d
             g == i * d
             later == g - s
  <2>4. Later(i) = later /\ g \in Nat
    <3>1. (i - 1) * d = i * d - d /\ i * d \in Nat
      BY <2>3, ProductNat
    <3> QED
      BY <1>2, <3>1
  <2>5. g + d <= n + d - 1
    <3>1. (i + 1) * d <= m * d /\ (i + 1) * d = g + d
      BY <2>2, <2>3
    <3>2. m * d \in Nat
      BY <2>2, ProductNat
    <3> QED
      BY <2>2, <2>4, <3>1, <3>2
  <2>6. /\ w.at = at /\ w.src = later
        /\ w.n = IF d < n - later THEN d ELSE n - later
    BY <2>1, <2>4 DEF Piece
  <2> DEFINE l == sline + i
             c == p - at
  <2>7. at \in Nat /\ l \in Nat /\ l * v \in Nat /\ at = l * v + x * d
        /\ sline * d \in Nat /\ l * d \in Nat /\ l * d = sline * d + g
    BY <1>2, <1>3, <2>3, ProductNat
  <2> HIDE DEF at, g, later
  <2>8. c \in Nat /\ c < d /\ p = at + c
    BY <2>4, <2>5, <2>6, <2>7, <1>2 DEF At, later
  <2>9. p = l * v + x * d + c
    <3> HIDE DEF c, l
    <3> QED
      BY <1>3, <2>7, <2>8
  <2>10. w.src + (p - w.at) = l * d + c - off /\ l * d + c >= off
    <3>1. s <= g
      <4>1. d <= g
        BY <2>3, <2>1 DEF g
      <4> QED
        BY <1>2, <2>4, <4>1
    <3>2. p - w.at = c /\ w.src = g - s
      BY <2>6 DEF later
    <3> HIDE DEF c, l
    <3>3. w.src + (p - w.at) = g - s + c
      BY <1>2, <2>4, <2>8, <3>2
    <3> DEFINE ld == l * d
               sd == sline * d
               e == w.src + (p - w.at)
    <3>4. ld = sd + g /\ off = sd + s /\ sd \in Nat /\ e = g - s + c
      BY <1>2, <2>7, <3>3
    <3> HIDE DEF ld, sd, e
    <3>5. e = ld + c - off /\ ld + c >= off
      BY <1>2, <2>4, <2>8, <3>1, <3>4
    <3> QED
      BY <3>5 DEF ld, e
  <2>11. l < h
    <3> SUFFICES ASSUME h <= l PROVE FALSE
      BY <2>7
    <3>1. h * d <= l * d /\ h * d \in Nat /\ d * h = h * d
      BY <2>7, ProductNat
    <3>2. l * d < off + n
      BY <1>2, <2>4, <2>5, <2>7
    <3> QED
      BY <2>7, <3>1, <3>2
  <2> HIDE DEF c, l
  <2> QED
    BY <2>7, <2>8, <2>9, <2>10, <2>11 DEF OnRow, Brings
<1> QED
  BY <1>6, <1>7

(* The other way round: of what the write has of the slice, wlist2d's list *)
(* has all that is on the scanlines that nwrites counts.                   *)
LEMMA ListCovers ==
    ASSUME NEW b \in Nat \ {0}, NEW d \in Nat \ {0},
           NEW v \in Nat, v = b * d, NEW vox, vox[1] = v, NEW layout, NEW x \in Nat, layout[1] = x,
           NEW off \in Nat, NEW n \in Nat \ {0},
           NEW l \in Nat, NEW c \in Nat, c < d,
           off <= l * d + c, l * d + c < off + n, l < off \div d + Ceil(n, d)
    PROVE  \E w \in wlist2d(vox, off, n, layout, d) : l * v + x * d + c \in At(w)
<1> DEFINE s == off % d
           sline == off \div d
           Later(i) == (d - s) + (i - 1) * d
           head == [at |-> sline * v + d * x + s, src |-> 0, n |-> d - s]
           Piece(i) == [at |-> (sline + i) * v + x * d, src |-> Later(i),
                        n |-> IF d < n - Later(i) THEN d ELSE n - Later(i)]
           m == Ceil(n, d)
           p == l * v + x * d + c
<1>1. wlist2d(vox, off, n, layout, d) = {head} \cup {Piece(i) : i \in 1..(m - 1)}
  BY DEF wlist2d
<1>2. s \in Nat /\ s < d /\ sline \in Nat /\ off = sline * d + s
  BY Remainder
<1>3. v \in Nat /\ x * d \in Nat /\ d * x = x * d /\ l * v \in Nat /\ l * d \in Nat
  BY ProductNat
<1>4. m \in Int
  <2>1. n + d - 1 \in Nat
    OBVIOUS
  <2> QED
    BY <2>1, Remainder DEF Ceil
<1> HIDE DEF s, sline, m, Piece, head
<1>5. sline <= l
  <2> SUFFICES ASSUME l < sline PROVE FALSE
    BY <1>2
  <2>1. (l + 1) * d <= sline * d /\ (l + 1) * d = l * d + d /\ sline * d \in Nat
    BY <1>2, ProductNat
  <2> QED
    BY <1>2, <1>3, <2>1
<1>6. CASE l = sline
  <2>1. head.at = l * v + x * d + s /\ head.n = d - s
    BY <1>3, <1>6 DEF head
  <2>2. s <= c
    BY <1>2, <1>3, <1>6
  <2>3. p \in At(head)
    <3>1. At(head) = (l * v + x * d + s)..(l * v + x * d + s + (d - s) - 1)
      BY <2>1 DEF At
    <3> QED
      BY <1>2, <1>3, <2>2, <3>1
  <2> QED
    BY <1>1, <2>3
<1>7. CASE l # sline
  <2> DEFINE i == l - sline
             g == i * d
             q == l * v + x * d
             len == IF d < n - (g - s) THEN d ELSE n - (g - s)
  <2>1. i \in 1..(m - 1) /\ sline + i = l
    BY <1>2, <1>4, <1>5, <1>7 DEF sline, m
  <2>2. g \in Nat /\ Later(i) = g - s /\ l * d = sline * d + g /\ sline * d \in Nat
    <3>1. i \in Nat
      BY <2>1
    <3>2. (i - 1) * d = i * d - d /\ i * d \in Nat /\ (sline + i) * d = sline * d + i * d
      BY <1>2, <3>1, ProductNat
    <3>3. sline * d \in Nat
      BY <1>2, ProductNat
    <3> QED
      BY <1>2, <2>1, <3>2, <3>3
  <2>3. Piece(i).at = q /\ Piece(i).n = len
    BY <2>1, <2>2 DEF Piece
  <2>4. q \in Nat
    BY <1>3
  <2>5. p = q + c
    OBVIOUS
  <2> HIDE DEF g, q, p, Later
  <2>6. c < len
    BY <1>2, <1>3, <2>2
  <2> HIDE DEF len
  <2>7. p \in q..(q + len - 1)
    <3>1. len \in Int
      BY <1>2, <2>2 DEF len
    <3> QED
      BY <2>4, <2>5, <2>6, <3>1
  <2>8. p \in At(Piece(i))
    BY <2>3, <2>7 DEF At
  <2>9. Piece(i) \in wlist2d(vox, off, n, layout, d)
    BY <1>1, <2>1
  <2> QED
    BY <2>8, <2>9 DEF p
<1> QED
  BY <1>6, <1>7
-----------------------------------------------------------------------------
(* Slices.                                                                 *)

(* Where a slice begins in the stream. *)
From(k) == Pos(FieldOf(k)) + SliceOf(k) * Dims[2] * Dims[1]
PlaneSize == Dims[2] * Dims[1]

LEMMA FileFacts ==
    ASSUME NEW k \in File
    PROVE  FieldOf(k) \in Field /\ SliceOf(k) \in Nat
<1> DEFINE len == Len(Slices)
<1>1. len \in Nat /\ NFields \in Nat \ {0} /\ k \in 1..(NFields * len) /\ NFields * len \in Nat
  BY Counts DEF NFiles
<1>2. Slices \in Seq(Nat)
  BY NetzAssumption
<1>3. FieldOf(k) = (k - 1) \div len /\ SliceOf(k) = Slices[((k - 1) % len) + 1]
  BY DEF FieldOf, SliceOf
<1> HIDE DEF len
<1>4. len # 0 /\ k - 1 \in Nat /\ k - 1 < NFields * len
  BY <1>1
<1>5. /\ (k - 1) \div len \in Nat /\ (k - 1) \div len < NFields
      /\ (k - 1) % len \in 0..(len - 1)
  BY <1>1, <1>4, Quotient
<1>6. ((k - 1) % len) + 1 \in 1..len
  BY <1>1, <1>5
<1> QED
  BY <1>1, <1>2, <1>3, <1>5, <1>6 DEF Field, len

LEMMA PlaneFacts ==
    ASSUME NEW k \in File
    PROVE  From(k) \in Nat /\ PlaneSize \in Nat \ {0}
<1>1. /\ SliceOf(k) \in Nat /\ Pos(FieldOf(k)) \in Nat
      /\ Dims[1] \in Nat \ {0} /\ Dims[2] \in Nat \ {0}
  BY FileFacts, Counts, Sizes DEF Three
<1>2. SliceOf(k) * Dims[2] \in Nat
  BY <1>1, ProductNat
<1>3. SliceOf(k) * Dims[2] * Dims[1] \in Nat
  BY <1>1, <1>2, ProductNat
<1>4. From(k) \in Nat
  BY <1>1, <1>3 DEF From
<1> DEFINE a == Dims[2]
           b == Dims[1]
<1>5. a * b \in Nat \ {0}
  <2>1. a \in Nat \ {0} /\ b \in Nat \ {0}
    BY <1>1
  <2> HIDE DEF a, b
  <2> QED
    BY <2>1, ProductNat
<1> QED
  BY <1>4, <1>5 DEF PlaneSize

(* What of a write is in a slice: all of it that there is.                 *)
LEMMA SliceCut ==
    ASSUME SmallStream, NEW r \in Rank, NEW n \in Nat \ {0}, NEW k \in File,
           offset[r] \in Nat, Fits(In2D(r, n, k), n)
    PROVE  LET x == In2D(r, n, k)
               off == StreamOffset(r, n, k)
           IN  /\ x.hit \in BOOLEAN
               /\ x.hit =>
                    /\ off \in Nat
                    /\ x.skip \in Nat /\ offset[r] + x.skip = From(k) + off
                    /\ x.nwrite \in Nat \ {0}
                    /\ x.skip + x.nwrite <= n /\ off + x.nwrite <= PlaneSize
               /\ \A t \in Nat :
                    /\ From(k) <= t /\ t < From(k) + PlaneSize
                    /\ offset[r] <= t /\ t < offset[r] + n
                    => x.hit /\ From(k) + off <= t /\ t < From(k) + off + x.nwrite
<1> DEFINE x == In2D(r, n, k)
           off == StreamOffset(r, n, k)
           low == offset[r]
           flower == From(k)
           size == PlaneSize
<1>2. flower \in Nat /\ size \in Nat \ {0}
  BY PlaneFacts
<1>3. Lower(FieldOf(k)) = Pos(FieldOf(k)) /\ Pos(FieldOf(k)) \in Nat
  BY FileFacts, FieldFacts
<1>4. x = byteintersect(low, low + n, flower, flower + size)
  BY <1>3 DEF In2D, byteintersect2d, From, PlaneSize
<1>5. off = low + x.skip - Pos(FieldOf(k)) - SliceOf(k) * Dims[2] * Dims[1]
  BY <1>3 DEF StreamOffset
<1>6. low \in Nat
  OBVIOUS
<1>7. x.ok /\ (x.hit => x.nwrite <= n /\ x.skip < n)
  BY DEF Fits
<1>8. flower = Pos(FieldOf(k)) + SliceOf(k) * Dims[2] * Dims[1]
      /\ SliceOf(k) * Dims[2] * Dims[1] \in Int
  <2>1. SliceOf(k) \in Nat /\ Dims[2] \in Nat /\ Dims[1] \in Nat
    BY FileFacts, Sizes DEF Three
  <2> QED
    BY <2>1 DEF From
<1> HIDE DEF x, off, low, flower, size
<1>9. /\ x.hit \in BOOLEAN /\ x.skip \in Nat /\ x.nwrite \in Nat
      /\ x.hit =>
           /\ flower <= low + n /\ low < flower + size
           /\ low + x.skip = IF low < flower THEN flower ELSE low
           /\ low + x.skip + x.nwrite =
                IF low + n < flower + size THEN low + n ELSE flower + size
      /\ ~x.hit => low + n < flower \/ low >= flower + size
  <2> DEFINE y == byteintersect(low, low + n, flower, flower + size)
  <2>1. y.ok =>
          /\ y.hit \in BOOLEAN /\ y.skip \in Nat /\ y.nwrite \in Nat
          /\ y.hit =>
               /\ flower <= low + n /\ low < flower + size
               /\ low + y.skip = IF low < flower THEN flower ELSE low
               /\ low + y.skip + y.nwrite =
                    IF low + n < flower + size THEN low + n ELSE flower + size
          /\ ~y.hit => low + n < flower \/ low >= flower + size
    BY <1>2, <1>6, IntersectionExact
  <2>2. x = y
    BY <1>4
  <2> HIDE DEF y
  <2> QED
    BY <2>1, <2>2, <1>7
<1> DEFINE first == low + x.skip
           last == first + x.nwrite
<1>10. ASSUME x.hit
       PROVE  /\ off \in Nat /\ first = flower + off
              /\ x.nwrite \in Nat \ {0}
              /\ x.skip + x.nwrite <= n /\ off + x.nwrite <= size
  <2>1. /\ first \in Nat /\ last \in Nat
        /\ first = (IF low < flower THEN flower ELSE low)
        /\ last = (IF low + n < flower + size THEN low + n ELSE flower + size)
        /\ first >= flower /\ last >= first /\ last <= low + n /\ last <= flower + size
    BY <1>2, <1>6, <1>9, <1>10
  <2>4. off = first - flower
    BY <1>3, <1>5, <1>6, <1>8, <1>9
  <2>5. x.nwrite = last - first
    BY <1>6, <1>9
  <2> HIDE DEF first, last
  <2>7. x.nwrite # 0
    <3>1. first < low + n
      BY <1>6, <1>7, <1>9, <1>10 DEF first
    <3>2. first < flower + size
      BY <1>2, <1>6, <1>9, <1>10, <2>1
    <3>3. first < last
      BY <2>1, <3>1, <3>2
    <3> QED
      BY <2>1, <2>5, <3>3
  <2>8. x.skip + x.nwrite <= n
    BY <1>6, <1>9, <2>1, <2>5 DEF first
  <2> QED
    BY <1>2, <1>9, <2>1, <2>4, <2>5, <2>7, <2>8
<1>11. ASSUME NEW t \in Nat, flower <= t, t < flower + size, low <= t, t < low + n
       PROVE  x.hit /\ flower + off <= t /\ t < flower + off + x.nwrite
  <2>1. x.hit
    BY <1>2, <1>6, <1>9, <1>11
  <2>2. first = flower + off
    BY <1>10, <2>1
  <2>3. first <= t /\ t < last
    BY <1>2, <1>6, <1>9, <1>11, <2>1
  <2> QED
    BY <2>1, <2>2, <2>3
<1> QED
  BY <1>9, <1>10, <1>11 DEF x, off, low, flower, size

-----------------------------------------------------------------------------
(* A slice file, and what a rank writes into it.                           *)

LEMMA RowSizes ==
    /\ Bricks[1] \in Nat \ {0} /\ Dims[1] \in Nat \ {0} /\ Dims[2] \in Nat \ {0}
    /\ Voxels[1] = Bricks[1] * Dims[1] /\ Voxels[1] \in Nat
    /\ \A p : p \in RowAt <=> p \in Nat /\ p < Voxels[1] * Dims[2]
<1>1. /\ Bricks[1] \in Nat \ {0} /\ Dims[1] \in Nat \ {0} /\ Dims[2] \in Nat \ {0}
      /\ Voxels[1] = Bricks[1] * Dims[1] /\ Voxels[1] \in Nat
  BY Sizes DEF Three
<1>2. Voxels[1] * Dims[2] \in Nat
  BY <1>1, ProductNat
<1> QED
  BY <1>1, <1>2 DEF RowAt

LEMMA RankColumn ==
    ASSUME NEW r \in Rank
    PROVE  /\ r % Bricks[1] \in Nat /\ r % Bricks[1] < Bricks[1]
           /\ to3d(r, <<Bricks[1], Bricks[2], 1>>)[1] = r % Bricks[1]
<1>1. /\ Bricks[1] \in Nat \ {0} /\ r \in Nat
  BY RowSizes DEF Rank
<1>2. to3d(r, <<Bricks[1], Bricks[2], 1>>)[1] = r % Bricks[1]
  BY DEF to3d
<1> DEFINE b == Bricks[1]
<1>3. b \in Nat \ {0}
  BY <1>1
<1> HIDE DEF b
<1>4. r % b \in Nat /\ r % b < b
  BY <1>1, <1>3, Remainder
<1> QED
  BY <1>2, <1>4 DEF b

(* The place of a float in the stream.                                     *)
LEMMA StreamPlace ==
    ASSUME NEW k \in File, NEW p \in RowAt
    PROVE  /\ StreamAt(k, p) = From(k) + (p \div Voxels[1]) * Dims[1] + (p % Dims[1])
           /\ StreamAt(k, p) \in Nat
           /\ From(k) <= StreamAt(k, p) /\ StreamAt(k, p) < From(k) + PlaneSize
<1> DEFINE d == Dims[1]
           h == Dims[2]
           v == Voxels[1]
           b == Bricks[1]
           l == p \div v
           c == p % d
           s == SliceOf(k)
           pos == Pos(FieldOf(k))
           base == From(k)
<1>1. /\ b \in Nat \ {0} /\ d \in Nat \ {0} /\ h \in Nat \ {0} /\ v = b * d /\ v \in Nat
      /\ p \in Nat /\ p < v * h
  BY RowSizes
<1>2. s \in Nat /\ pos \in Nat /\ base = pos + s * h * d /\ base \in Nat /\ PlaneSize = h * d
  BY FileFacts, Counts, PlaneFacts DEF From, PlaneSize
<1>3. StreamAt(k, p) = pos + s * d * h + l * d + c
  BY DEF StreamAt
<1> HIDE DEF d, h, v, b, s, pos, base
<1>4. l \in Nat /\ l < h /\ c \in Nat /\ c < d
  BY <1>1, RowOfParts
<1> HIDE DEF l, c
<1>5. s * d * h = s * h * d /\ s * h * d \in Nat /\ l * d \in Nat
  <2>1. s * h \in Nat
    BY <1>1, <1>2, ProductNat
  <2> QED
    BY <1>1, <1>2, <1>4, <2>1, ProductNat
<1>6. StreamAt(k, p) = base + (l * d + c)
  BY <1>2, <1>3, <1>4, <1>5
<1>7. l * d + c \in Nat /\ l * d + c < h * d
  BY <1>1, <1>4, Inside
<1>8. StreamAt(k, p) = base + l * d + c
  BY <1>2, <1>4, <1>5, <1>6
<1> QED
  BY <1>2, <1>6, <1>7, <1>8 DEF base, l, d, c, v

(* What a piece of a rank's list is: places of the rank's column, and for  *)
(* each the float of the stream that belongs there.                        *)
LEMMA PieceRight ==
    ASSUME SmallStream, NEW r \in Rank, NEW n \in Nat \ {0}, NEW k \in File,
           offset[r] \in Nat, Fits(In2D(r, n, k), n), In2D(r, n, k).hit,
           NEW w \in Scanlines(r, n, k), NEW p \in At(w)
    PROVE  LET i == w.src + (p - w.at) IN
           /\ p \in RowAt /\ r \in Column(p)
           /\ offset[r] + In2D(r, n, k).skip + i = StreamAt(k, p)
           /\ In2D(r, n, k).skip + i < n <=> StreamAt(k, p) < offset[r] + n
<1> DEFINE d == Dims[1]
           h == Dims[2]
           b == Bricks[1]
           v == Voxels[1]
           x == r % b
           off == StreamOffset(r, n, k)
           m == In2D(r, n, k).nwrite
           skip == In2D(r, n, k).skip
           base == From(k)
           low == offset[r]
           layout == to3d(r, <<Bricks[1], Bricks[2], 1>>)
           i == w.src + (p - w.at)
<1>1. /\ b \in Nat \ {0} /\ d \in Nat \ {0} /\ h \in Nat \ {0} /\ v = b * d /\ v \in Nat
      /\ x \in Nat /\ x < b /\ layout[1] = x
      /\ \A q : q \in RowAt <=> q \in Nat /\ q < v * h
  BY RowSizes, RankColumn
<1>2. /\ off \in Nat /\ m \in Nat \ {0} /\ off + m <= h * d
      /\ skip \in Nat /\ low + skip = base + off /\ base \in Nat /\ low \in Nat
  BY SliceCut, PlaneFacts DEF PlaneSize
<1>3. w \in wlist2d(Voxels, off, m, layout, d) /\ Voxels[1] = v
  BY <1>1 DEF Scanlines
<1>4. \A q : r \in Column(q) <=> x = (q % v) \div d
  BY DEF Column
<1>5. p \in RowAt => StreamAt(k, p) = base + (p \div v) * d + (p % d)
  BY StreamPlace
<1> HIDE DEF d, h, b, v, x, off, m, skip, base, low, layout
<1>6. off + m <= d * h
  BY <1>1, <1>2
<1>7. PICK l \in Nat, c \in Nat :
         /\ l < h /\ c < d /\ p = l * v + x * d + c
         /\ i = l * d + c - off /\ l * d + c >= off
  <2> DEFINE list == wlist2d(Voxels, off, m, layout, d)
  <2>1. \A u \in list : \A q \in At(u) :
           \E l \in Nat, c \in Nat :
              l < h /\ c < d /\ OnRow(q, l, x, c, v, d) /\ Brings(u, q, l, c, d, off)
    BY <1>1, <1>2, <1>3, <1>6, ListRight
  <2>2. w \in list /\ p \in At(w)
    BY <1>3
  <2> HIDE DEF list
  <2>3. PICK l \in Nat, c \in Nat :
           l < h /\ c < d /\ OnRow(p, l, x, c, v, d) /\ Brings(w, p, l, c, d, off)
    BY <2>1, <2>2
  <2> QED
    BY <2>3 DEF Brings, OnRow
<1>8. p \in Nat /\ p < v * h /\ p \div v = l /\ p % d = c /\ (p % v) \div d = x
  <2>1. OnRow(p, l, x, c, v, d)
    BY <1>1, <1>7 DEF OnRow
  <2>2. /\ b \in Nat \ {0} /\ d \in Nat \ {0} /\ h \in Nat \ {0} /\ v = b * d /\ v \in Nat
        /\ l \in Nat /\ l < h /\ x \in Nat /\ x < b /\ c \in Nat /\ c < d
    BY <1>1, <1>7
  <2>3. p \in Nat /\ p < v * h /\ Digits(p, l, x, c, v, d)
    BY <2>1, <2>2, RowParts
  <2> QED
    BY <2>3 DEF Digits
<1>9. p \in RowAt /\ r \in Column(p) /\ StreamAt(k, p) = base + l * d + c
  BY <1>1, <1>4, <1>5, <1>8
<1> HIDE DEF i
<1>10. low + skip + i = base + l * d + c
  <2>1. l * d \in Nat
    BY <1>1, ProductNat
  <2> QED
    BY <1>2, <1>7, <2>1
<1>11. skip + i < n <=> low + skip + i < low + n
  <2>1. l * d \in Nat
    BY <1>1, ProductNat
  <2>2. i \in Nat
    BY <1>2, <1>7, <2>1
  <2> QED
    BY <1>2, <2>2
<1> QED
  BY <1>9, <1>10, <1>11 DEF i, low, skip

(* The list misses no float of the write that is in the slice, but for     *)
(* those on a scanline too many.                                           *)
LEMMA PieceThere ==
    ASSUME SmallStream, NEW r \in Rank, NEW n \in Nat \ {0}, NEW k \in File,
           offset[r] \in Nat, Fits(In2D(r, n, k), n),
           NEW p \in RowAt, r \in Column(p),
           offset[r] <= StreamAt(k, p), StreamAt(k, p) < offset[r] + n
    PROVE  /\ In2D(r, n, k).hit
           /\ <<r, StreamAt(k, p)>> \notin Unlisted(r, n, k) =>
                 \E w \in Scanlines(r, n, k) : p \in At(w)
<1> DEFINE d == Dims[1]
           h == Dims[2]
           b == Bricks[1]
           v == Voxels[1]
           x == r % b
           off == StreamOffset(r, n, k)
           m == In2D(r, n, k).nwrite
           skip == In2D(r, n, k).skip
           base == From(k)
           low == offset[r]
           layout == to3d(r, <<Bricks[1], Bricks[2], 1>>)
           t == StreamAt(k, p)
           l == p \div v
           c == p % d
<1>1. /\ b \in Nat \ {0} /\ d \in Nat \ {0} /\ h \in Nat \ {0} /\ v = b * d /\ v \in Nat
      /\ x \in Nat /\ x < b /\ layout[1] = x
      /\ p \in Nat /\ p < v * h /\ x = (p % v) \div d
  BY RowSizes, RankColumn DEF Column
<1>2. t = base + l * d + c /\ t \in Nat /\ base <= t /\ t < base + PlaneSize
  BY StreamPlace
<1>3. In2D(r, n, k).hit /\ base + off <= t /\ t < base + off + m
  BY <1>2, SliceCut
<1>4. /\ off \in Nat /\ m \in Nat \ {0}
      /\ skip \in Nat /\ low + skip = base + off /\ base \in Nat /\ low \in Nat
  BY <1>3, SliceCut, PlaneFacts
<1>5. /\ Scanlines(r, n, k) = wlist2d(Voxels, off, m, layout, d) /\ Voxels[1] = v
      /\ Unlisted(r, n, k) =
            {<<r, low + skip + i>> : i \in
               {j \in 0..(m - 1) : (off + j) \div d >= off \div d + Ceil(m, d)}}
  BY <1>1 DEF Scanlines, Unlisted
<1> HIDE DEF d, h, b, v, x, off, m, skip, base, low, layout
<1>6. l \in Nat /\ l < h /\ c \in Nat /\ c < d /\ p = l * v + x * d + c
  <2> DEFINE y == (p % v) \div d
  <2>1. /\ l \in Nat /\ l < h /\ y \in Nat /\ c \in Nat /\ c < d
        /\ OnRow(p, l, y, c, v, d)
    BY <1>1, RowOfParts
  <2>2. y = x
    BY <1>1
  <2> HIDE DEF y, l, c
  <2> QED
    BY <2>1, <2>2 DEF OnRow
<1> HIDE DEF l, c, t
<1> DEFINE j == l * d + c - off
<1>7. /\ l * d \in Nat /\ j \in 0..(m - 1) /\ off + j = l * d + c /\ low + skip + j = t
      /\ off <= l * d + c /\ l * d + c < off + m
  <2>1. l * d \in Nat
    BY <1>1, <1>6, ProductNat
  <2> QED
    BY <1>2, <1>3, <1>4, <1>6, <2>1
<1>8. (off + j) \div d = l
  <2>1. Join(l, d, c) \div d = l
    BY <1>1, <1>6, Separated
  <2> QED
    BY <1>7, <2>1 DEF Join
<1> HIDE DEF j
<1>9. ASSUME <<r, t>> \notin Unlisted(r, n, k) PROVE l < off \div d + Ceil(m, d)
  <2>1. ~((off + j) \div d >= off \div d + Ceil(m, d))
    BY <1>5, <1>7, <1>9
  <2>2. off \div d \in Nat /\ Ceil(m, d) \in Nat
    <3>1. m + d - 1 \in Nat
      BY <1>1, <1>4
    <3> QED
      BY <1>1, <1>4, <3>1, Remainder DEF Ceil
  <2> QED
    BY <1>6, <1>8, <2>1, <2>2
<1>10. ASSUME <<r, t>> \notin Unlisted(r, n, k)
       PROVE  \E w \in Scanlines(r, n, k) : p \in At(w)
  <2>1. l < off \div d + Ceil(m, d)
    BY <1>9, <1>10
  <2>2. \E w \in wlist2d(Voxels, off, m, layout, d) : l * v + x * d + c \in At(w)
    BY <1>1, <1>4, <1>5, <1>6, <1>7, <2>1, ListCovers
  <2> QED
    BY <1>1, <1>5, <1>6, <2>2
<1> QED
  BY <1>3, <1>10 DEF t
-----------------------------------------------------------------------------
(* The slice files. *)

(* What a rank has brought to place p of slice file k, as far as it knows. *)
Reached(r, k, p) ==
    \/ StreamAt(k, p) < Streamed(r, k) /\ <<r, StreamAt(k, p)>> \notin unlisted
    \/ /\ pc[r] = "slicing" /\ cur[r] = k /\ StreamAt(k, p) < offset[r] + taken[r]
       /\ \E w \in Scanlines(r, taken[r], k) \ todo[r] : p \in At(w)

Found(r, k, p) ==
    /\ p \in DOMAIN slicefile[k]
    /\ OneRow => slicefile[k][p] = <<r, StreamAt(k, p)>>

(* A rank in the midst of a write's list.                                  *)
Slicing(r) ==
    pc[r] = "slicing" =>
       /\ cur[r] \in File /\ taken[r] \in Nat \ {0} /\ AllFit(r, taken[r])
       /\ In2D(r, taken[r], cur[r]).hit
       /\ todo[r] \subseteq Scanlines(r, taken[r], cur[r])
       /\ \A k \in File : In2D(r, taken[r], k).hit => Unlisted(r, taken[r], k) \subseteq unlisted

(***************************************************************************)
(* The inductive invariant of the slice files, the rank that is in the     *)
(* midst of a list included.                                               *)
(***************************************************************************)
SliceInv ==
    /\ MergeInv
    /\ slicefile = [k \in File |-> slicefile[k]] /\ wiped = [k \in File |-> wiped[k]]
    /\ \A r \in Rank : Slicing(r)
    /\ SlicePlaced
    /\ \A k \in File, p \in RowAt : \A r \in Column(p) \ wiped[k] :
          Reached(r, k, p) => Found(r, k, p)

LEMMA SameStreamAt == ASSUME NEW k, NEW p PROVE StreamAt(k, p)' = StreamAt(k, p)
BY DEF StreamAt

LEMMA SameIn2D == ASSUME NEW r, NEW k, NEW n, offset'[r] = offset[r] PROVE In2D(r, n, k)' = In2D(r, n, k)
BY DEF In2D

LEMMA SameScanlines == ASSUME NEW r, NEW k, NEW n, offset'[r] = offset[r] PROVE Scanlines(r, n, k)' = Scanlines(r, n, k)
BY SameIn2D DEF Scanlines, StreamOffset

(* A rank that did not move.                                               *)
LEMMA SlicingSame ==
    ASSUME NEW q \in Rank, Slicing(q), unlisted \subseteq unlisted',
           pc'[q] = pc[q], cur'[q] = cur[q], offset'[q] = offset[q], taken'[q] = taken[q],
           todo'[q] = todo[q]
    PROVE  Slicing(q)'
BY DEF Slicing, AllFit, In3D, In2D, Scanlines, StreamOffset, Unlisted

LEMMA ReachedSame ==
    ASSUME NEW q \in Rank, NEW k \in File, NEW p \in RowAt, unlisted \subseteq unlisted',
           pc'[q] = pc[q], cur'[q] = cur[q], offset'[q] = offset[q], taken'[q] = taken[q],
           todo'[q] = todo[q], Reached(q, k, p)'
    PROVE  Reached(q, k, p)
BY DEF Reached, Streamed, StreamAt, In2D, Scanlines, StreamOffset

(* A rank that neither was nor is in a list, and whose stream got no       *)
(* further.                                                                *)
LEMMA ReachedIdle ==
    ASSUME NEW q \in Rank, NEW k \in File, NEW p \in RowAt, unlisted \subseteq unlisted',
           pc[q] # "slicing", pc'[q] # "slicing",
           StreamAt(k, p) < Streamed(q, k)' => StreamAt(k, p) < Streamed(q, k),
           Reached(q, k, p)'
    PROVE  Reached(q, k, p)
BY DEF Reached, StreamAt

LEMMA SlicesKept ==
    ASSUME SliceInv, MergeInv', UNCHANGED <<slicefile, wiped>>,
           \A q \in Rank : Slicing(q)',
           \A k \in File, p \in RowAt : \A q \in Column(p) :
              Reached(q, k, p)' => Reached(q, k, p)
    PROVE  SliceInv'
<1>1. SlicePlaced'
  BY DEF SliceInv, SlicePlaced, StreamAt
<1>2. \A k \in File, p \in RowAt : \A q \in Column(p) : Found(q, k, p)' <=> Found(q, k, p)
  BY DEF Found, StreamAt
<1> QED
  BY <1>1, <1>2 DEF SliceInv

(* A step of one rank that is no step of a list.                           *)
LEMMA SlicesIdle ==
    ASSUME SliceInv, MergeInv', UNCHANGED <<slicefile, wiped, unlisted>>,
           NEW r \in Rank, pc[r] # "slicing", pc'[r] # "slicing",
           \A q \in Rank \ {r} : /\ pc'[q] = pc[q] /\ cur'[q] = cur[q] /\ offset'[q] = offset[q]
                                 /\ taken'[q] = taken[q] /\ todo'[q] = todo[q],
           \A k \in File, t \in Nat : t < Streamed(r, k)' => t < Streamed(r, k)
    PROVE  SliceInv'
<1>1. Slicing(r)'
  BY DEF Slicing
<1>2. \A q \in Rank \ {r} : Slicing(q)'
  BY SlicingSame DEF SliceInv
<1>3. ASSUME NEW k \in File, NEW p \in RowAt, NEW q \in Column(p), Reached(q, k, p)'
      PROVE  Reached(q, k, p)
  <2>1. q \in Rank /\ StreamAt(k, p) \in Nat
    BY StreamPlace DEF Column
  <2>2. CASE q # r
    BY <1>3, <2>1, <2>2, ReachedSame
  <2>3. CASE q = r
    BY <1>3, <2>1, <2>3, ReachedIdle
  <2> QED
    BY <2>2, <2>3
<1> QED
  BY <1>1, <1>2, <1>3, SlicesKept

(* slice_outputs passes over the files that the write does not concern: of *)
(* those nothing went by.                                                  *)
LEMMA NothingMissed ==
    ASSUME SmallStream, MergeInv, NEW r \in Rank, NEW n \in Nat \ {0}, NEW k \in File,
           AllFit(r, n), ~In2D(r, n, k).hit, NEW p \in RowAt, r \in Column(p),
           StreamAt(k, p) < offset[r] + n
    PROVE  StreamAt(k, p) < offset[r]
<1>1. offset[r] \in Nat /\ Fits(In2D(r, n, k), n) /\ StreamAt(k, p) \in Nat
  BY StreamPlace DEF MergeInv, BrickInv, AllFit
<1>2. ~(offset[r] <= StreamAt(k, p))
  BY <1>1, PieceThere
<1> QED
  BY <1>1, <1>2

LEMMA SliceFromSlicing ==
    ASSUME MergeInv, NEW r \in Rank, NEW n \in Nat \ {0}, NEW c \in Nat \ {0},
           SliceFrom(r, n, c), AllFit(r, n),
           \A k \in File : In2D(r, n, k).hit => Unlisted(r, n, k) \subseteq unlisted'
    PROVE  Slicing(r)'
<1> PICK next : next = NextHit(r, n, c)
  OBVIOUS
<1>1. next \in File => In2D(r, n, next).hit
  BY NextHitFacts
<1>2. /\ pc \in [Rank -> States] /\ offset \in [Rank -> Nat] /\ taken \in [Rank -> Nat]
      /\ cur'[r] = next /\ todo = [q \in Rank |-> todo[q]]
  BY TypesOfMerge DEF SliceFrom, MergeInv, BrickInv
<1>3. CASE next \in File
  <2>1. /\ pc'[r] = "slicing" /\ todo'[r] = Scanlines(r, n, next)
        /\ taken'[r] = n /\ offset'[r] = offset[r]
    BY <1>2, <1>3 DEF SliceFrom
  <2> QED
    BY <1>1, <1>2, <1>3, <2>1
       DEF Slicing, AllFit, In3D, In2D, Scanlines, StreamOffset, Unlisted
<1>4. CASE next \notin File
  <2>1. pc'[r] = "running"
    BY <1>2, <1>4 DEF SliceFrom
  <2> QED
    BY <2>1 DEF Slicing
<1> QED
  BY <1>3, <1>4

(* How far the streams have gone for a slice file, when slice_outputs goes *)
(* on from file c.                                                         *)
LEMMA SliceFromReaches ==
    ASSUME SmallStream, MergeInv, NEW r \in Rank, NEW n \in Nat \ {0}, NEW c \in Nat \ {0},
           SliceFrom(r, n, c), pc[r] \in {"running", "slicing"}, AllFit(r, n),
           unlisted \subseteq unlisted', NEW k \in File, NEW p \in RowAt, r \in Column(p),
           Reached(r, k, p)'
    PROVE  /\ <<r, StreamAt(k, p)>> \notin unlisted
           /\ StreamAt(k, p) < offset[r] \/ (k < c /\ StreamAt(k, p) < offset[r] + n)
<1> DEFINE t == StreamAt(k, p)
<1> PICK next : next = NextHit(r, n, c)
  OBVIOUS
<1>1. \/ /\ next \in File /\ next >= c /\ In2D(r, n, next).hit
         /\ \A m \in c..NFiles : In2D(r, n, m).hit => next <= m
      \/ next = NFiles + 1 /\ next \notin File /\ \A m \in c..NFiles : ~In2D(r, n, m).hit
  BY NextHitFacts
<1>2. /\ pc \in [Rank -> States] /\ offset \in [Rank -> Nat] /\ taken \in [Rank -> Nat]
      /\ cur'[r] = next
      /\ todo = [q \in Rank |-> todo[q]] /\ t \in Nat /\ NFiles \in Nat /\ File = 1..NFiles
  BY StreamPlace, TypesOfMerge, Counts DEF SliceFrom, MergeInv, BrickInv
<1>3. \A m \in File : Fits(In2D(r, n, m), n)
  BY DEF AllFit
<1>4. ASSUME k >= c, next \notin File \/ k < next, t < offset[r] + n PROVE t < offset[r]
  <2>1. ~In2D(r, n, k).hit
    BY <1>1, <1>2, <1>4
  <2> QED
    BY <1>4, <2>1, NothingMissed
<1>5. CASE next \in File
  <2>1. /\ pc'[r] = "slicing" /\ todo'[r] = Scanlines(r, n, next)
        /\ taken'[r] = n /\ offset'[r] = offset[r]
    BY <1>2, <1>5 DEF SliceFrom
  <2>2. cur'[r] = k => ~(\E w \in Scanlines(r, taken[r], k)' \ todo'[r] : p \in At(w))
    BY <1>2, <2>1 DEF Scanlines, StreamOffset, In2D
  <2>3. t < Streamed(r, k)' /\ <<r, t>> \notin unlisted'
    BY <2>2 DEF Reached, StreamAt, At
  <2>4. Scanlines(r, n, next) # {}
    BY DEF Scanlines, wlist2d
  <2>5. Streamed(r, k)' = IF next > k THEN offset[r] + n ELSE offset[r]
    BY <1>2, <2>1, <2>4 DEF Streamed
  <2> QED
    BY <1>2, <1>4, <2>3, <2>5
<1>6. CASE next \notin File
  <2>1. pc'[r] = "running" /\ offset'[r] = offset[r] + n
    BY <1>2, <1>6 DEF SliceFrom
  <2>2. t < offset[r] + n /\ <<r, t>> \notin unlisted'
    BY <2>1 DEF Reached, StreamAt, Streamed
  <2> QED
    BY <1>1, <1>2, <1>4, <1>6, <2>2
<1> QED
  BY <1>5, <1>6

LEMMA ExecSlices ==
    ASSUME SmallStream, SliceInv, MergeInv', NEW r \in Rank, NEW n \in WriteSizes, Exec(r, n)
    PROVE  SliceInv'
<1>1. /\ SliceFrom(r, n, 1) /\ pc[r] = "running" /\ AllFit(r, n) /\ UNCHANGED <<slicefile, wiped>>
      /\ unlisted' = unlisted \cup
                       UNION {Unlisted(r, n, k) : k \in {l \in File : In2D(r, n, l).hit}}
  BY DEF Exec
<1>2. n \in Nat \ {0} /\ 1 \in Nat \ {0} /\ MergeInv /\ pc \in [Rank -> States]
  BY NetzAssumption, TypesOfMerge DEF SliceInv
<1>3. /\ unlisted \subseteq unlisted'
      /\ \A k \in File : In2D(r, n, k).hit => Unlisted(r, n, k) \subseteq unlisted'
  BY <1>1
<1>4. \A q \in Rank \ {r} : /\ pc'[q] = pc[q] /\ cur'[q] = cur[q] /\ offset'[q] = offset[q]
                            /\ taken'[q] = taken[q] /\ todo'[q] = todo[q]
  BY <1>1, <1>2, TypesOfMerge DEF SliceFrom
<1>5. \A q \in Rank \ {r} : Slicing(q)'
  BY <1>3, <1>4, SlicingSame DEF SliceInv
<1>6. ASSUME NEW k \in File, NEW p \in RowAt, NEW q \in Column(p), Reached(q, k, p)'
      PROVE  Reached(q, k, p)
  <2>1. q \in Rank
    BY DEF Column
  <2>2. CASE q # r
    BY <1>3, <1>4, <1>6, <2>1, <2>2, ReachedSame
  <2>3. CASE q = r
    <3>1. /\ <<r, StreamAt(k, p)>> \notin unlisted
          /\ \/ StreamAt(k, p) < offset[r]
             \/ k < 1 /\ StreamAt(k, p) < offset[r] + n
      BY <1>1, <1>2, <1>3, <1>6, <2>3, SliceFromReaches
    <3>2. ~(k < 1)
      BY Counts
    <3> QED
      BY <1>1, <2>3, <3>1, <3>2 DEF Reached, Streamed
  <2> QED
    BY <2>2, <2>3
<1>7. Slicing(r)'
  BY <1>1, <1>2, <1>3, SliceFromSlicing
<1> QED
  BY <1>1, <1>5, <1>6, <1>7, SlicesKept

LEMMA SliceNextSlices ==
    ASSUME SmallStream, SliceInv, MergeInv', NEW r \in Rank, SliceNext(r)
    PROVE  SliceInv'
<1> PICK n : n = taken[r]
  OBVIOUS
<1> PICK c : c = cur[r]
  OBVIOUS
<1>1. /\ SliceFrom(r, n, c + 1) /\ pc[r] = "slicing" /\ todo[r] = {}
      /\ UNCHANGED <<slicefile, wiped, unlisted>>
  BY DEF SliceNext, files, history
<1>2. /\ c \in File /\ n \in Nat \ {0} /\ AllFit(r, n) /\ offset[r] \in Nat
      /\ \A k \in File : In2D(r, n, k).hit => Unlisted(r, n, k) \subseteq unlisted
  BY <1>1 DEF SliceInv, Slicing, MergeInv, BrickInv
<1>3. c \in Nat /\ c + 1 \in Nat \ {0} /\ MergeInv /\ unlisted \subseteq unlisted'
  BY <1>1, <1>2, Counts DEF SliceInv
<1>4. \A q \in Rank \ {r} : /\ pc'[q] = pc[q] /\ cur'[q] = cur[q] /\ offset'[q] = offset[q]
                            /\ taken'[q] = taken[q] /\ todo'[q] = todo[q]
  BY <1>1, <1>3, TypesOfMerge DEF SliceFrom
<1>5. \A q \in Rank \ {r} : Slicing(q)'
  BY <1>3, <1>4, SlicingSame DEF SliceInv
<1>6. ASSUME NEW k \in File, NEW p \in RowAt, NEW q \in Column(p), Reached(q, k, p)'
      PROVE  Reached(q, k, p)
  <2>1. q \in Rank
    BY DEF Column
  <2>2. CASE q # r
    BY <1>3, <1>4, <1>6, <2>1, <2>2, ReachedSame
  <2>3. CASE q = r
    <3>1. /\ <<r, StreamAt(k, p)>> \notin unlisted
          /\ \/ StreamAt(k, p) < offset[r]
             \/ k < c + 1 /\ StreamAt(k, p) < offset[r] + n
      BY <1>1, <1>2, <1>3, <1>6, <2>3, SliceFromReaches
    <3>2. StreamAt(k, p) \in Nat /\ k \in Nat
      BY StreamPlace, Counts
    <3>3. Streamed(r, k) = IF k <= c THEN offset[r] + n ELSE offset[r]
      BY <1>1, <1>3, <3>2 DEF Streamed
    <3>4. StreamAt(k, p) < Streamed(r, k)
      BY <1>2, <1>3, <3>1, <3>2, <3>3
    <3> QED
      BY <2>3, <3>1, <3>4 DEF Reached
  <2> QED
    BY <2>2, <2>3
<1>7. Slicing(r)'
  BY <1>1, <1>2, <1>3, SliceFromSlicing
<1> QED
  BY <1>1, <1>5, <1>6, <1>7, SlicesKept

(* Side by side in x, a column of a slice is one brick's.                  *)
LEMMA OneColumn ==
    ASSUME OneRow, NEW p, NEW q \in Column(p), NEW r \in Column(p)
    PROVE  q = r
<1> DEFINE b == Bricks[1]
<1>1. b \in Nat \ {0} /\ Rank = 0..(b * 1 * 1 - 1) /\ q % b = r % b /\ q \in Rank /\ r \in Rank
  BY RowSizes DEF OneRow, Rank, Column
<1> HIDE DEF b
<1>2. q \in Nat /\ q < b /\ r \in Nat /\ r < b
  BY <1>1
<1>3. q % b = q /\ r % b = r
  BY <1>1, <1>2, NoWrap
<1> QED
  BY <1>1, <1>3

LEMMA SliceWriteSlices ==
    ASSUME SmallStream, SliceInv, MergeInv', NEW r \in Rank, SliceWrite(r)
    PROVE  SliceInv'
<1> PICK n : n = taken[r]
  OBVIOUS
<1> PICK k : k = cur[r]
  OBVIOUS
<1> DEFINE low == offset[r]
           skip == In2D(r, n, k).skip
           old == slicefile[k]
           Source(i) == IF skip + i < n THEN <<r, low + skip + i>> ELSE Garbage
           New(w) == [p \in DOMAIN old \cup At(w) |->
                        IF p \in At(w) THEN Source(w.src + (p - w.at)) ELSE old[p]]
<1>1. /\ UNCHANGED <<pc, cur, offset, taken, unlisted, wiped>> /\ pc[r] = "slicing"
      /\ k \in File /\ n \in Nat \ {0} /\ AllFit(r, n) /\ In2D(r, n, k).hit
      /\ todo[r] \subseteq Scanlines(r, n, k) /\ Unlisted(r, n, k) \subseteq unlisted
      /\ low \in Nat /\ Fits(In2D(r, n, k), n)
  BY DEF SliceWrite, SliceInv, Slicing, MergeInv, BrickInv, AllFit, history
<1>2. PICK w \in todo[r] :
         slicefile' = [slicefile EXCEPT ![k] = New(w)] /\ todo' = [todo EXCEPT ![r] = todo[r] \ {w}]
  BY DEF SliceWrite, Written
<1> DEFINE new == New(w)
           D == DOMAIN old \cup At(w)
<1>3. ASSUME NEW p \in At(w)
      PROVE  /\ p \in RowAt /\ r \in Column(p)
             /\ new[p] = IF StreamAt(k, p) < low + n THEN <<r, StreamAt(k, p)>> ELSE Garbage
  <2> DEFINE i == w.src + (p - w.at)
  <2>1. /\ p \in RowAt /\ r \in Column(p)
        /\ low + skip + i = StreamAt(k, p)
        /\ skip + i < n <=> StreamAt(k, p) < low + n
    BY <1>1, <1>2, PieceRight
  <2>2. new[p] = Source(i)
    OBVIOUS
  <2> HIDE DEF i, new
  <2> QED
    BY <2>1, <2>2
<1>4. DOMAIN new = D /\ \A p \in D \ At(w) : new[p] = old[p]
  OBVIOUS
<1> HIDE DEF new, New, Source, skip
<1>5. /\ slicefile' = [m \in File |-> slicefile'[m]] /\ slicefile'[k] = new
      /\ \A m \in File \ {k} : slicefile'[m] = slicefile[m]
  <2>1. slicefile = [m \in File |-> slicefile[m]] /\ slicefile' = [slicefile EXCEPT ![k] = new]
    BY <1>2 DEF SliceInv, new
  <2>2. slicefile' = [m \in File |-> IF m = k THEN new ELSE slicefile[m]]
    BY <2>1
  <2> QED
    BY <1>1, <2>2
<1>6. SlicePlaced'
  <2> SUFFICES ASSUME NEW m \in File, NEW p \in DOMAIN slicefile'[m]
               PROVE  /\ p \in RowAt
                      /\ \/ slicefile'[m][p] = Garbage
                         \/ slicefile'[m][p] \in Column(p) \X {StreamAt(m, p)}
    BY DEF SlicePlaced, StreamAt
  <2>1. CASE m = k /\ p \in At(w)
    <3>1. /\ slicefile'[m][p] = new[p] /\ p \in RowAt
          /\ r \in Column(p) /\ new[p] \in {<<r, StreamAt(k, p)>>, Garbage}
      BY <1>3, <1>5, <2>1
    <3>2. <<r, StreamAt(k, p)>> \in Column(p) \X {StreamAt(m, p)}
      BY <2>1, <3>1
    <3> QED
      BY <3>1, <3>2
  <2>2. CASE m # k \/ p \notin At(w)
    <3>1. p \in DOMAIN slicefile[m] /\ slicefile'[m][p] = slicefile[m][p]
      BY <1>4, <1>5, <2>2
    <3> QED
      BY <3>1 DEF SliceInv, SlicePlaced
  <2> QED
    BY <2>1, <2>2
<1>7. todo'[r] = todo[r] \ {w} /\ \A q \in Rank \ {r} : todo'[q] = todo[q]
  BY <1>2, TypesOfMerge DEF SliceInv
<1>8. \A q \in Rank : Slicing(q)'
  <2>1. \A q \in Rank \ {r} : Slicing(q)'
    BY <1>1, <1>7, SlicingSame DEF SliceInv
  <2>2. Slicing(r)'
    BY <1>1, <1>7 DEF SliceInv, Slicing, AllFit, In3D, In2D, Scanlines, StreamOffset, Unlisted
  <2> QED
    BY <2>1, <2>2
<1>9. ASSUME NEW m \in File, NEW p \in RowAt, NEW q \in Column(p), Found(q, m, p),
             q = r /\ m = k => StreamAt(k, p) < low + n
      PROVE  Found(q, m, p)'
  <2>1. CASE m # k
    BY <1>5, <1>9, <2>1 DEF Found, StreamAt
  <2>2. CASE m = k
    <3>1. p \in DOMAIN new
      BY <1>4, <1>9, <2>2 DEF Found
    <3>2. ASSUME OneRow PROVE new[p] = <<q, StreamAt(k, p)>>
      <4>1. CASE p \in At(w)
        <5>1. q = r
          BY <1>3, <3>2, <4>1, OneColumn
        <5> QED
          BY <1>3, <1>9, <2>2, <4>1, <5>1
      <4>2. CASE p \notin At(w)
        BY <1>4, <1>9, <2>2, <3>1, <3>2, <4>2 DEF Found
      <4> QED
        BY <4>1, <4>2
    <3> QED
      BY <1>5, <2>2, <3>1, <3>2 DEF Found, StreamAt, OneRow
  <2> QED
    BY <2>1, <2>2
<1>10. ASSUME NEW p \in RowAt, r \in Column(p), r \notin wiped[k], StreamAt(k, p) < low + n,
              NEW u \in Scanlines(r, n, k) \ todo'[r], p \in At(u)
       PROVE  Found(r, k, p)'
  <2>1. CASE u = w
    <3>1. p \in DOMAIN new /\ new[p] = <<r, StreamAt(k, p)>>
      BY <1>3, <1>4, <1>10, <2>1
    <3> QED
      BY <1>5, <3>1 DEF Found, StreamAt
  <2>2. CASE u # w
    <3>1. u \in Scanlines(r, n, k) \ todo[r]
      BY <1>7, <2>2
    <3>2. Reached(r, k, p)
      BY <1>1, <1>10, <3>1 DEF Reached
    <3>3. Found(r, k, p)
      BY <1>1, <1>10, <3>2 DEF SliceInv
    <3> QED
      BY <1>1, <1>9, <1>10, <3>3
  <2> QED
    BY <2>1, <2>2
<1>11. ASSUME NEW m \in File, NEW p \in RowAt, NEW q \in Column(p), q \notin wiped[m],
              Reached(q, m, p)'
       PROVE  Found(q, m, p)'
  <2>0. q \in Rank /\ StreamAt(k, p) \in Nat /\ (Reached(q, m, p) => Found(q, m, p))
    BY <1>1, <1>11, StreamPlace DEF Column, SliceInv
  <2>1. CASE q # r
    <3>1. Reached(q, m, p)
      BY <1>1, <1>7, <1>11, <2>0, <2>1, ReachedSame
    <3> QED
      BY <1>9, <2>0, <2>1, <3>1
  <2>2. CASE q = r /\ m # k
    <3>1. Reached(r, m, p)
      BY <1>1, <1>11, <2>2 DEF Reached, Streamed, StreamAt
    <3> QED
      BY <1>9, <2>0, <2>2, <3>1
  <2>3. CASE q = r /\ m = k
    <3>1. CASE StreamAt(k, p) < low /\ <<r, StreamAt(k, p)>> \notin unlisted
      <4>1. low <= Streamed(r, k) /\ Streamed(r, k) \in Nat
        BY <1>1 DEF Streamed
      <4>2. Reached(r, k, p)
        BY <1>1, <2>0, <3>1, <4>1 DEF Reached
      <4> QED
        BY <1>1, <1>9, <2>0, <2>3, <3>1, <4>2
    <3>2. CASE low <= StreamAt(k, p) /\ <<r, StreamAt(k, p)>> \notin unlisted
               /\ todo'[r] = {} /\ StreamAt(k, p) < low + n
      <4>1. \E u \in Scanlines(r, n, k) : p \in At(u)
        BY <1>1, <2>3, <3>2, PieceThere
      <4> QED
        BY <1>10, <1>11, <2>3, <3>2, <4>1
    <3>3. CASE StreamAt(k, p) < low + n /\ \E u \in Scanlines(r, n, k) \ todo'[r] : p \in At(u)
      BY <1>10, <1>11, <2>3, <3>3
    <3>4. \/ StreamAt(k, p) < Streamed(r, k)' /\ <<r, StreamAt(k, p)>> \notin unlisted
          \/ StreamAt(k, p) < low + n /\ \E u \in Scanlines(r, n, k) \ todo'[r] : p \in At(u)
      BY <1>1, <1>11, <2>3 DEF Reached, StreamAt, Scanlines, StreamOffset, In2D
    <3>5. Streamed(r, k)' = IF todo'[r] = {} THEN low + n ELSE low
      BY <1>1, Counts DEF Streamed
    <3> QED
      BY <1>1, <2>0, <3>1, <3>2, <3>3, <3>4, <3>5
  <2> QED
    BY <2>1, <2>2, <2>3
<1> QED
  BY <1>1, <1>5, <1>6, <1>8, <1>11 DEF SliceInv

LEMMA OpenSlices ==
    ASSUME SliceInv, MergeInv', NEW r \in Rank, Open(r)
    PROVE  SliceInv'
<1> PICK k : k = cur[r]
  OBVIOUS
<1> DEFINE stale == UNION {Column(p) : p \in DOMAIN slicefile[k]}
<1>1. /\ UNCHANGED <<offset, taken, todo, unlisted>> /\ pc[r] = "opening"
      /\ k \in File /\ MergeInv
      /\ slicefile = [m \in File |-> slicefile[m]] /\ wiped = [m \in File |-> wiped[m]]
      /\ slicefile' = [slicefile EXCEPT ![k] = <<>>]
      /\ wiped' = [wiped EXCEPT ![k] = wiped[k] \cup stale]
  BY TypesOfMerge DEF Open, SliceInv, Merging, Empty
<1>2. /\ pc'[r] \in {"opening", "running"}
      /\ \A q \in Rank \ {r} : pc'[q] = pc[q] /\ cur'[q] = cur[q]
  BY <1>1, TypesOfMerge DEF Open
<1> HIDE DEF stale
<1>3. /\ slicefile' = [m \in File |-> slicefile'[m]] /\ DOMAIN slicefile'[k] = {}
      /\ \A m \in File \ {k} : slicefile'[m] = slicefile[m]
  <2>1. slicefile' = [m \in File |-> IF m = k THEN <<>> ELSE slicefile[m]]
    BY <1>1
  <2>2. DOMAIN (<<>>) = {}
    OBVIOUS
  <2> QED
    BY <1>1, <2>1, <2>2
<1>4. /\ wiped' = [m \in File |-> wiped'[m]] /\ wiped'[k] = wiped[k] \cup stale
      /\ \A m \in File \ {k} : wiped'[m] = wiped[m]
  <2>1. wiped' = [m \in File |-> IF m = k THEN wiped[k] \cup stale ELSE wiped[m]]
    BY <1>1
  <2> QED
    BY <1>1, <2>1
<1>5. SlicePlaced'
  BY <1>3 DEF SliceInv, SlicePlaced, StreamAt
<1>6. \A q \in Rank : Slicing(q)'
  <2>1. \A q \in Rank \ {r} : Slicing(q)'
    BY <1>1, <1>2, SlicingSame DEF SliceInv
  <2>2. Slicing(r)'
    BY <1>2 DEF Slicing
  <2> QED
    BY <2>1, <2>2
<1>7. ASSUME NEW m \in File, NEW p \in RowAt, NEW q \in Column(p), q \notin wiped'[m],
             Reached(q, m, p)'
      PROVE  Found(q, m, p)'
  <2>1. q \in Rank
    BY DEF Column
  <2>2. Reached(q, m, p)
    <3>1. CASE q # r
      BY <1>1, <1>2, <1>7, <2>1, <3>1, ReachedSame
    <3>2. CASE q = r
      <4>1. Streamed(r, m)' = Streamed(r, m) /\ pc[r] # "slicing" /\ pc'[r] # "slicing"
        BY <1>1, <1>2 DEF Streamed
      <4> QED
        BY <1>1, <1>7, <2>1, <3>2, <4>1, ReachedIdle
    <3> QED
      BY <3>1, <3>2
  <2>3. q \notin wiped[m]
    BY <1>4, <1>7
  <2>4. Found(q, m, p)
    BY <2>2, <2>3 DEF SliceInv
  <2>5. m # k
    <3> SUFFICES ASSUME m = k PROVE FALSE
      OBVIOUS
    <3>1. q \in stale
      BY <2>4 DEF Found, stale
    <3> QED
      BY <1>4, <1>7, <3>1
  <2> QED
    BY <1>3, <2>4, <2>5 DEF Found, StreamAt
<1> QED
  BY <1>3, <1>4, <1>5, <1>6, <1>7 DEF SliceInv

LEMMA SliceStep == SmallStream /\ SliceInv /\ MergeInv' /\ [Next]_vars => SliceInv'
<1> SUFFICES ASSUME SmallStream, SliceInv, MergeInv', [Next]_vars PROVE SliceInv'
  OBVIOUS
<1>0. MergeInv
  BY DEF SliceInv
<1>1. ASSUME NEW r \in Rank, Start(r) PROVE SliceInv'
  <2>1. /\ UNCHANGED <<slicefile, wiped, unlisted, taken, todo>> /\ pc[r] = "header"
        /\ pc'[r] \in {"running", "opening"} /\ offset'[r] = 0
        /\ \A q \in Rank \ {r} : pc'[q] = pc[q] /\ cur'[q] = cur[q] /\ offset'[q] = offset[q]
    BY <1>0, <1>1, TypesOfMerge DEF Start, history
  <2>2. \A k \in File : Streamed(r, k)' = 0
    BY <2>1 DEF Streamed
  <2>3. \A k \in File, t \in Nat : ~(t < Streamed(r, k)')
    BY <2>2
  <2> QED
    BY <2>1, <2>3, SlicesIdle
<1>2. ASSUME NEW r \in Rank, Finish(r) PROVE SliceInv'
  <2>1. /\ UNCHANGED <<slicefile, wiped, unlisted, taken, todo>> /\ pc[r] = "running"
        /\ pc'[r] \in {"done", "merging"} /\ offset[r] = Total
        /\ \A q \in Rank \ {r} : pc'[q] = pc[q] /\ cur'[q] = cur[q] /\ offset'[q] = offset[q]
    BY <1>0, <1>2, TypesOfMerge DEF Finish, GoOn, history, files
  <2>2. \A k \in File : Streamed(r, k)' = Total /\ Streamed(r, k) = Total
    BY <2>1 DEF Streamed
  <2> QED
    BY <2>1, <2>2, SlicesIdle
<1>3. ASSUME NEW r \in Rank, UNCHANGED <<slicefile, wiped, unlisted, offset, taken>>,
             pc[r] \in {"merging", "writing"}, pc'[r] \in {"merging", "writing", "done"},
             \A q \in Rank \ {r} : pc'[q] = pc[q] /\ cur'[q] = cur[q] /\ todo'[q] = todo[q]
      PROVE  SliceInv'
  <2>1. \A k \in File : Streamed(r, k)' = Total /\ Streamed(r, k) = Total
    BY <1>3 DEF Streamed
  <2> QED
    BY <1>3, <2>1, SlicesIdle
<1>4. ASSUME NEW r \in Rank, MergeOpen(r) \/ MergeWrite(r) \/ MergeNext(r) PROVE SliceInv'
  BY <1>0, <1>3, <1>4, TypesOfMerge DEF MergeOpen, MergeWrite, MergeNext, GoOn, history
<1>5. ASSUME UNCHANGED <<pc, cur, offset, taken, todo, slicefile, wiped, unlisted>> PROVE SliceInv'
  <2>1. \A q \in Rank : Slicing(q)'
    BY <1>5, SlicingSame DEF SliceInv
  <2>2. ASSUME NEW k \in File, NEW p \in RowAt, NEW q \in Column(p), Reached(q, k, p)'
        PROVE  Reached(q, k, p)
    BY <1>5, <2>2, ReachedSame DEF Column
  <2> QED
    BY <1>5, <2>1, <2>2, SlicesKept
<1>6. ASSUME NEW r \in Rank, NEW n \in WriteSizes, ExecAborts(r, n) PROVE SliceInv'
  BY <1>5, <1>6 DEF ExecAborts, ranks, files, history
<1>7. CASE UNCHANGED vars
  BY <1>5, <1>7 DEF vars, ranks, files, history
<1> QED
  BY <1>1, <1>2, <1>4, <1>6, <1>7, ExecSlices, SliceNextSlices, SliceWriteSlices, OpenSlices
     DEF Next

LEMMA SliceInit == Init => SliceInv
<1> SUFFICES ASSUME Init PROVE SliceInv
  OBVIOUS
<1>1. MergeInv
  BY MergeInit
<1>2. /\ slicefile = [k \in File |-> <<>>] /\ wiped = [k \in File |-> {}]
      /\ \A r \in Rank : pc[r] = "header" /\ offset[r] = 0
  BY DEF Init, Empty
<1>3. DOMAIN (<<>>) = {}
  OBVIOUS
<1>4. SlicePlaced /\ \A r \in Rank : Slicing(r)
  BY <1>2, <1>3 DEF SlicePlaced, Slicing
<1>5. ASSUME NEW k \in File, NEW p \in RowAt, NEW r \in Column(p) PROVE ~Reached(r, k, p)
  <2>1. r \in Rank /\ StreamAt(k, p) \in Nat
    BY StreamPlace DEF Column
  <2>2. Streamed(r, k) = 0
    BY <1>2, <2>1 DEF Streamed
  <2> QED
    BY <1>2, <2>1, <2>2 DEF Reached
<1> QED
  BY <1>1, <1>2, <1>4, <1>5 DEF SliceInv

(* What the lists of a write have brought to a slice file stays there until    *)
(* another rank opens it (netz.mpic:309, 704-710): the invariant of slices.  *)
THEOREM SliceInvariant == ASSUME SmallStream PROVE Spec => []SliceInv
<1>1. SliceInv /\ MergeInv' /\ [Next]_vars => SliceInv'
  BY SliceStep
<1> QED
  BY <1>1, SliceInit, MergeInvariant, PTL DEF Spec

(***************************************************************************)
(* netz.mpic:681-683, "This takes a write, figures out where it goes, and   *)
(* writes it out": for every arrangement of bricks and every way of cutting *)
(* the stream, a write that begins inside a scanline included, and whatever*)
(* the order of the ranks' opens and of the single writes of their lists.  *)
(* SlicesRight says what is left out: the ranks of whose data an open took *)
(* some away, and what wlist2d puts into no list.                          *)
(***************************************************************************)
THEOREM WritesReachSlices == ASSUME SmallStream PROVE Spec => []SlicesRight
<1>1. SliceInv => SlicesRight
  <2> SUFFICES ASSUME SliceInv, NEW k \in File, NEW p \in RowAt, NEW r \in Column(p) \ wiped[k],
                      StreamAt(k, p) < Streamed(r, k), <<r, StreamAt(k, p)>> \notin unlisted
               PROVE  /\ p \in DOMAIN slicefile[k]
                      /\ OneRow => slicefile[k][p] = <<r, StreamAt(k, p)>>
    BY DEF SliceInv, SlicesRight, SliceArrived
  <2>1. Reached(r, k, p)
    BY DEF Reached
  <2> QED
    BY <2>1 DEF SliceInv, Found
<1> QED
  BY <1>1, SliceInvariant, PTL

=============================================================================
