-------------------------- MODULE SimpleSituProofs --------------------------
(* The stdio interposer, for every table size, every number of FILE*s and    *)
(* every depth of nesting.                                                  *)
EXTENDS SimpleSitu, FprocProofs, SequenceTheorems, FiniteSetTheorems

(***************************************************************************)
(* What the interposer relies on: finish() hooks keep away from stdio and    *)
(* exit, and file() hooks may use them only if opens of interesting names    *)
(* do not fail.                                                             *)
(***************************************************************************)
SafeEnvelope ==
    /\ "finish" \notin Reentrant
    /\ "file" \in Reentrant => ~OpensFail

(* What every call in progress, at any depth, can rely on. *)
FrameOK(f) ==
    /\ f.todo \subseteq Visible
    /\ files[f.slot].fp = f.fp
    /\ f.fp = NULL => f.hook = "file" /\ OpensFail
    /\ f.fp # NULL =>
        /\ files[f.slot].name = f.name
        /\ f.hook = "file" => owner[f.fp] = NULL /\ open[f.fp] = f.name
        /\ f.hook = "exec" => owner[f.fp] # NULL
        /\ f.hook = "finish" => owner[f.fp] = NULL /\ open[f.fp] = NULL

(* Only the innermost call may be in a hook that does not use stdio. *)
OuterReentrant == \A k \in 1..Len(stack) : k < Len(stack) => stack[k].hook \in Reentrant

(* No two fopens in progress share a stream. *)
FileFramesApart ==
    \A k, m \in 1..Len(stack) :
        /\ stack[k].hook = "file" /\ stack[m].hook = "file"
        /\ stack[k].fp = stack[m].fp /\ stack[k].fp # NULL
        => k = m

SlotsWhole == \A s \in Slot : files[s].fp = NULL <=> files[s].name = NULL

SlotsApart ==
    \A s, t \in Slot : files[s].fp = files[t].fp /\ files[s].fp # NULL => s = t

SlotsTrue ==
    \A s \in Slot : files[s].fp # NULL =>
        \/ open[files[s].fp] = files[s].name
        \/ stack # <<>> /\ Top.hook = "finish" /\ Top.slot = s

OwnedOpen == \A fp \in FPs : owner[fp] # NULL => open[fp] # NULL

SituInv ==
    /\ FprocInv
    /\ SituTypeOK
    /\ SlotsWhole
    /\ SlotsApart
    /\ SlotsTrue
    /\ OwnedOpen
    /\ \A k \in 1..Len(stack) : FrameOK(stack[k])
    /\ OuterReentrant
    /\ FileFramesApart

-----------------------------------------------------------------------------
(* The stack. *)

LEMMA PushFacts ==
    ASSUME stack \in Seq(Frame), NEW f \in Frame, Push(f)
    PROVE  /\ stack' \in Seq(Frame) /\ stack' # <<>>
           /\ Len(stack) \in Nat /\ Len(stack') = Len(stack) + 1
           /\ \A k \in 1..Len(stack) : stack'[k] = stack[k]
           /\ stack'[Len(stack) + 1] = f
BY DEF Push

LEMMA PopFacts ==
    ASSUME stack \in Seq(Frame), stack # <<>>, Pop
    PROVE  /\ stack' \in Seq(Frame)
           /\ Len(stack) \in Nat \ {0} /\ Len(stack') = Len(stack) - 1
           /\ \A k \in 1..(Len(stack) - 1) : stack'[k] = stack[k]
           /\ Top \in Frame
<1>1. Len(stack) \in Nat \ {0}
  OBVIOUS
<1>2. Top \in Frame
  BY <1>1 DEF Top
<1> DEFINE n == Len(stack) - 1
<1>a. n \in Nat /\ 1 \in Int /\ n \in Int /\ \A k \in 1..n : stack[k] \in Frame
  BY <1>1
<1> HIDE DEF n
<1>b. /\ SubSeq(stack, 1, n) \in Seq(Frame)
      /\ Len(SubSeq(stack, 1, n)) = IF 1 <= n THEN n - 1 + 1 ELSE 0
      /\ \A k \in 1..(n - 1 + 1) : SubSeq(stack, 1, n)[k] = stack[1 + k - 1]
  BY <1>a, SubSeqProperties
<1>c. stack' = SubSeq(stack, 1, n)
  BY DEF Pop, n
<1>3. stack' \in Seq(Frame)
  BY <1>b, <1>c
<1>d. Len(stack') = n
  BY <1>a, <1>b, <1>c, Z3
<1>4. Len(stack') = Len(stack) - 1
  BY <1>d DEF n
<1>e. \A k \in 1..n : stack'[k] = stack[k]
  BY <1>a, <1>b, <1>c
<1>5. \A k \in 1..(Len(stack) - 1) : stack'[k] = stack[k]
  BY <1>e DEF n
<1> QED
  BY <1>1, <1>2, <1>3, <1>4, <1>5

LEMMA TopFacts ==
    ASSUME stack \in Seq(Frame), stack # <<>>
    PROVE  /\ Len(stack) \in 1..Len(stack) /\ Len(stack) \in Nat
           /\ Top = stack[Len(stack)] /\ Top \in Frame
BY DEF Top

(* While somebody can call, every call in progress is in a re-entrant hook,  *)
(* so none is in finish() and none has a failed open.                       *)
LEMMA ActiveFacts ==
    ASSUME SafeEnvelope, SituInv, NEW c \in Caller, Active(c)
    PROVE  /\ \A k \in 1..Len(stack) :
                /\ stack[k].hook \in Reentrant /\ stack[k].hook # "finish"
                /\ stack[k].fp # NULL
                /\ stack[k] \in Frame
           /\ \A s \in Slot : files[s].fp # NULL =>
                files[s].fp \in FPs /\ open[files[s].fp] = files[s].name
                /\ open[files[s].fp] # NULL
           /\ c # NULL
<1>1. stack \in Seq(Frame)
  BY DEF SituInv, SituTypeOK
<1>2. ASSUME NEW k \in 1..Len(stack) PROVE stack[k].hook \in Reentrant /\ stack[k] \in Frame
  <2>1. stack # <<>> /\ Len(stack) \in Nat
    BY <1>1, <1>2
  <2>2. Top.hook \in Reentrant
    BY <2>1 DEF Active
  <2> QED
    BY <1>1, <1>2, <2>1, <2>2 DEF SituInv, OuterReentrant, Top
<1>3. ASSUME NEW k \in 1..Len(stack) PROVE stack[k].fp # NULL
  BY <1>2, <1>3 DEF SafeEnvelope, SituInv, FrameOK
<1>4. stack = <<>> \/ Top.hook # "finish"
  BY <1>1, <1>2, TopFacts DEF SafeEnvelope
<1>5. ASSUME NEW s \in Slot, files[s].fp # NULL
      PROVE files[s].fp \in FPs /\ open[files[s].fp] = files[s].name
            /\ open[files[s].fp] # NULL
  BY <1>4, <1>5 DEF SituInv, SituTypeOK, SlotsTrue, SlotsWhole
<1>6. c # NULL
  BY SimpleSituAssumption
<1> QED
  BY <1>2, <1>3, <1>5, <1>6 DEF SafeEnvelope

-----------------------------------------------------------------------------
(* The interposed calls leave the processor table alone. *)

LEMMA TableUnchanged ==
    ASSUME SituInv, UNCHANGED fprocVars
    PROVE  FprocInv' /\ FprocTypeOK' /\ Visible' = Visible
<1>1. FprocInv'
  BY DEF fprocVars, SituInv, FprocInv, FprocTypeOK, EntryHeld, PrefixInstalled,
         RestInstalled, RefsOwned, Progress, EntryOf, Good, Opens, Truncated
<1> QED
  BY <1>1 DEF FprocInv, Visible, fprocVars

LEMMA CalledFacts ==
    ASSUME NEW h, NEW n PROVE Called(h, n) \subseteq Visible /\ Called(h, n) \subseteq Entry
BY DEF Called, Visible

(* Handing out a free address for an untracked stream. *)
LEMMA FopenUntrackedStep ==
    ASSUME SafeEnvelope, SituInv, NEW c \in Caller, NEW n \in Name, NEW m,
           FopenUntracked(c, n, m)
    PROVE  SituInv'
<1>1. PICK fp \in FPs : /\ open[fp] = NULL
                        /\ open' = [open EXCEPT ![fp] = n]
                        /\ owner' = [owner EXCEPT ![fp] = c]
  BY DEF FopenUntracked
<1>2. Active(c) /\ UNCHANGED fprocVars /\ files' = files /\ stack' = stack /\ live' = live
  BY DEF FopenUntracked
<1>3. FprocInv' /\ FprocTypeOK' /\ Visible' = Visible
  BY <1>2, TableUnchanged
<1>4. n # NULL /\ c # NULL
  BY FprocAssumption, SimpleSituAssumption
<1>5. /\ open'[fp] = n /\ owner'[fp] = c
      /\ \A q \in FPs \ {fp} : open'[q] = open[q] /\ owner'[q] = owner[q]
  BY <1>1 DEF SituInv, SituTypeOK
<1>6. \A s \in Slot : files[s].fp # fp
  BY <1>1, <1>2, ActiveFacts, SimpleSituAssumption
<1>7. SituTypeOK'
  BY <1>1, <1>2, <1>3 DEF SituInv, SituTypeOK
<1>8. SlotsTrue'
  BY <1>2, <1>5, <1>6 DEF SituInv, SituTypeOK, SlotsTrue, Top
<1>9. OwnedOpen'
  BY <1>4, <1>5 DEF SituInv, OwnedOpen
<1>10. ASSUME NEW k \in 1..Len(stack) PROVE FrameOK(stack[k])'
  <2>1. stack[k] \in Frame /\ FrameOK(stack[k])
    BY <1>2, ActiveFacts DEF SituInv
  <2>2. stack[k].fp # fp
    BY <1>6, <2>1 DEF Frame, FrameOK
  <2>3. stack[k].fp = NULL \/ stack[k].fp \in FPs \ {fp}
    BY <2>1, <2>2 DEF Frame
  <2> QED
    BY <1>2, <1>3, <1>5, <2>1, <2>3 DEF FrameOK
<1> QED
  BY <1>2, <1>3, <1>7, <1>8, <1>9, <1>10
  DEF SituInv, SlotsWhole, SlotsApart, OuterReentrant, FileFramesApart

(* Closing a stream that has no slot. *)
LEMMA FcloseUntrackedStep ==
    ASSUME SafeEnvelope, SituInv, NEW c \in Caller, NEW fp \in FPs, FcloseUntracked(c, fp)
    PROVE  SituInv'
<1>1. /\ open' = [open EXCEPT ![fp] = NULL] /\ owner' = [owner EXCEPT ![fp] = NULL]
      /\ \A s \in Slot : files[s].fp # fp
      /\ Active(c) /\ UNCHANGED fprocVars /\ files' = files /\ stack' = stack /\ live' = live
  BY DEF FcloseUntracked, LibcClose, NotFound
<1>2. FprocInv' /\ FprocTypeOK' /\ Visible' = Visible
  BY <1>1, TableUnchanged
<1>3. /\ owner'[fp] = NULL
      /\ \A q \in FPs \ {fp} : open'[q] = open[q] /\ owner'[q] = owner[q]
  BY <1>1 DEF SituInv, SituTypeOK
<1>4. SituTypeOK'
  BY <1>1, <1>2 DEF SituInv, SituTypeOK
<1>5. SlotsTrue'
  BY <1>1, <1>3 DEF SituInv, SituTypeOK, SlotsTrue, Top
<1>6. OwnedOpen'
  BY <1>3 DEF SituInv, OwnedOpen
<1>7. ASSUME NEW k \in 1..Len(stack) PROVE FrameOK(stack[k])'
  <2>1. stack[k] \in Frame /\ FrameOK(stack[k])
    BY <1>1, ActiveFacts DEF SituInv
  <2>2. stack[k].fp # fp
    BY <1>1, <2>1 DEF Frame, FrameOK
  <2>3. stack[k].fp = NULL \/ stack[k].fp \in FPs \ {fp}
    BY <2>1, <2>2 DEF Frame
  <2> QED
    BY <1>1, <1>2, <1>3, <2>1, <2>3 DEF FrameOK
<1> QED
  BY <1>1, <1>2, <1>4, <1>5, <1>6, <1>7
  DEF SituInv, SlotsWhole, SlotsApart, OuterReentrant, FileFramesApart

(* fwrite enters its loop: the slot it found stays as it is. *)
LEMMA FwriteStep ==
    ASSUME SafeEnvelope, SituInv, NEW c \in Caller, NEW fp \in FPs, Fwrite(c, fp)
    PROVE  SituInv'
<1> DEFINE F(s) == [hook |-> "exec", slot |-> s, name |-> files[s].name, fp |-> fp,
                    who |-> c, todo |-> Called("exec", files[s].name)]
<1>1. PICK s \in Slot : files[s].fp = fp /\ Push(F(s))
  BY DEF Fwrite, Finds
<1>2. /\ Active(c) /\ owner[fp] = c /\ UNCHANGED fprocVars
      /\ files' = files /\ open' = open /\ owner' = owner /\ live' = live
  BY DEF Fwrite
<1>3. FprocInv' /\ FprocTypeOK' /\ Visible' = Visible
  BY <1>2, TableUnchanged
<1>4. c # NULL /\ fp # NULL /\ files[s].name \in Name
  BY <1>1, <1>2, ActiveFacts, SimpleSituAssumption DEF SituInv, SituTypeOK, SlotsWhole
<1>5. F(s) \in Frame
  BY <1>1, <1>4, CalledFacts DEF Frame, Dispatched
<1>6. /\ stack' \in Seq(Frame) /\ stack' # <<>>
      /\ Len(stack) \in Nat /\ Len(stack') = Len(stack) + 1
      /\ \A k \in 1..Len(stack) : stack'[k] = stack[k]
      /\ stack'[Len(stack) + 1] = F(s)
  BY <1>1, <1>5, PushFacts DEF SituInv, SituTypeOK
<1>7. \A k \in 1..Len(stack) : stack[k].hook \in Reentrant
  BY <1>2, ActiveFacts
<1>8. ASSUME NEW k \in 1..Len(stack)' PROVE FrameOK(stack[k])'
  <2>1. CASE k \in 1..Len(stack)
    <3>1. FrameOK(stack[k]) /\ stack'[k] = stack[k]
      BY <1>6, <2>1 DEF SituInv
    <3> QED
      BY <1>2, <1>3, <3>1 DEF FrameOK
  <2>2. CASE k = Len(stack) + 1
    BY <1>1, <1>2, <1>3, <1>4, <1>6, <2>2, CalledFacts DEF FrameOK
  <2> QED
    BY <1>6, <1>8, <2>1, <2>2
<1>11. OuterReentrant'
  BY <1>6, <1>7 DEF OuterReentrant
<1>12. FileFramesApart'
  BY <1>6 DEF SituInv, FileFramesApart
<1>13. SlotsTrue'
  BY <1>2, ActiveFacts DEF SlotsTrue
<1>14. SituTypeOK'
  BY <1>2, <1>3, <1>6 DEF SituInv, SituTypeOK
<1> QED
  BY <1>2, <1>3, <1>8, <1>11, <1>12, <1>13, <1>14
  DEF SituInv, SlotsWhole, SlotsApart, OwnedOpen

(* fopen fills the first empty slot with a fresh address, or leaves it empty. *)
LEMMA FopenTrackedStep ==
    ASSUME SafeEnvelope, SituInv, NEW c \in Caller, NEW n \in Name, FopenTracked(c, n)
    PROVE  SituInv'
<1> DEFINE F(s, fp) == [hook |-> "file", slot |-> s, name |-> n, fp |-> fp,
                        who |-> c, todo |-> Called("file", n)]
<1>1. PICK s \in Slot, fp \in FPs \cup {NULL} :
        /\ files[s].fp = NULL
        /\ IF fp = NULL
           THEN /\ OpensFail
                /\ files' = [files EXCEPT ![s] = NoFile]
                /\ UNCHANGED <<open, live>>
           ELSE /\ open[fp] = NULL
                /\ files' = [files EXCEPT ![s] = [name |-> n, fp |-> fp]]
                /\ open' = [open EXCEPT ![fp] = n]
                /\ live' = [live EXCEPT ![n] = @ + 1]
        /\ Push(F(s, fp))
  BY DEF FopenTracked, Finds
<1>2. Active(c) /\ UNCHANGED fprocVars /\ owner' = owner
  BY DEF FopenTracked
<1>3. FprocInv' /\ FprocTypeOK' /\ Visible' = Visible
  BY <1>2, TableUnchanged
<1>4. n # NULL /\ c # NULL
  BY FprocAssumption, SimpleSituAssumption
<1>5. F(s, fp) \in Frame
  BY CalledFacts DEF Frame, Dispatched
<1>6. /\ stack' \in Seq(Frame) /\ stack' # <<>>
      /\ Len(stack) \in Nat /\ Len(stack') = Len(stack) + 1
      /\ \A k \in 1..Len(stack) : stack'[k] = stack[k]
      /\ stack'[Len(stack) + 1] = F(s, fp)
  BY <1>1, <1>5, PushFacts DEF SituInv, SituTypeOK
<1>7. \A k \in 1..Len(stack) : /\ stack[k].hook \in Reentrant /\ stack[k].fp # NULL
                               /\ stack[k] \in Frame /\ FrameOK(stack[k])
  BY <1>2, ActiveFacts DEF SituInv
<1>8. \A t \in Slot : files[t].fp # NULL =>
        files[t].fp \in FPs /\ open[files[t].fp] = files[t].name /\ open[files[t].fp] # NULL
  BY <1>2, ActiveFacts
<1>9. /\ files'[s] = IF fp = NULL THEN NoFile ELSE [name |-> n, fp |-> fp]
      /\ \A t \in Slot \ {s} : files'[t] = files[t]
      /\ files' \in [Slot -> [name : Name \cup {NULL}, fp : FPs \cup {NULL}]]
  BY <1>1 DEF SituInv, SituTypeOK, NoFile
<1>10. /\ open' \in [FPs -> Name \cup {NULL}]
       /\ fp # NULL => open'[fp] = n
       /\ \A q \in FPs \ {fp} : open'[q] = open[q]
  BY <1>1 DEF SituInv, SituTypeOK
<1>11. \A t \in Slot : fp # NULL => files[t].fp # fp
  BY <1>1, <1>8
<1>12. SituTypeOK'
  <2>1. live' \in [Name -> Int]
    BY <1>1 DEF SituInv, SituTypeOK
  <2> QED
    BY <1>2, <1>3, <1>6, <1>9, <1>10, <2>1 DEF SituInv, SituTypeOK
<1>13. SlotsWhole' /\ SlotsApart'
  BY <1>4, <1>9, <1>11 DEF SituInv, SlotsWhole, SlotsApart, NoFile
<1>14. SlotsTrue'
  BY <1>8, <1>9, <1>10, <1>11 DEF SlotsTrue, NoFile
<1>15. OwnedOpen'
  BY <1>2, <1>4, <1>10, SimpleSituAssumption DEF SituInv, OwnedOpen
<1>16. ASSUME NEW k \in 1..Len(stack)' PROVE FrameOK(stack[k])'
  <2>1. CASE k \in 1..Len(stack)
    <3>1. /\ FrameOK(stack[k]) /\ stack'[k] = stack[k]
          /\ stack[k].fp \in FPs /\ stack[k].fp # NULL /\ stack[k].slot \in Slot
      BY <1>6, <1>7, <2>1 DEF Frame
    <3>2. stack[k].slot # s /\ stack[k].fp # fp
      BY <1>1, <1>11, <3>1 DEF FrameOK
    <3> QED
      BY <1>2, <1>3, <1>9, <1>10, <3>1, <3>2 DEF FrameOK
  <2>2. CASE k = Len(stack) + 1
    <3>1. fp # NULL => owner[fp] = NULL
      BY <1>1 DEF SituInv, OwnedOpen
    <3> QED
      BY <1>1, <1>2, <1>3, <1>6, <1>9, <1>10, <2>2, <3>1, CalledFacts DEF FrameOK, NoFile
  <2> QED
    BY <1>6, <1>16, <2>1, <2>2
<1>17. OuterReentrant'
  BY <1>6, <1>7 DEF OuterReentrant
<1>18. FileFramesApart'
  <2>1. \A k \in 1..Len(stack) : stack[k].fp # fp
    BY <1>7, <1>11 DEF FrameOK, Frame
  <2> QED
    BY <1>6, <2>1 DEF SituInv, FileFramesApart
<1> QED
  BY <1>3, <1>12, <1>13, <1>14, <1>15, <1>16, <1>17, <1>18 DEF SituInv

(* fclose frees the address and enters its loop with the slot still filled. *)
LEMMA FcloseTrackedStep ==
    ASSUME SafeEnvelope, SituInv, NEW c \in Caller, NEW fp \in FPs, FcloseTracked(c, fp)
    PROVE  SituInv'
<1> DEFINE F(s) == [hook |-> "finish", slot |-> s, name |-> files[s].name, fp |-> fp,
                    who |-> c, todo |-> Called("finish", files[s].name)]
<1>1. PICK s \in Slot : /\ files[s].fp = fp /\ Push(F(s))
                        /\ live' = [live EXCEPT ![files[s].name] = @ - 1]
  BY DEF FcloseTracked, Finds, Finishing
<1>2. /\ Active(c) /\ owner[fp] = c /\ ~Busy(fp)
      /\ UNCHANGED fprocVars /\ files' = files
      /\ open' = [open EXCEPT ![fp] = NULL] /\ owner' = [owner EXCEPT ![fp] = NULL]
  BY DEF FcloseTracked, LibcClose
<1>3. FprocInv' /\ FprocTypeOK' /\ Visible' = Visible
  BY <1>2, TableUnchanged
<1>4. c # NULL /\ fp # NULL /\ files[s].name \in Name
  BY <1>1, <1>2, ActiveFacts, SimpleSituAssumption DEF SituInv, SituTypeOK, SlotsWhole
<1>5. F(s) \in Frame
  BY <1>4, CalledFacts DEF Frame, Dispatched
<1>6. /\ stack' \in Seq(Frame) /\ stack' # <<>>
      /\ Len(stack) \in Nat /\ Len(stack') = Len(stack) + 1
      /\ \A k \in 1..Len(stack) : stack'[k] = stack[k]
      /\ stack'[Len(stack) + 1] = F(s)
  BY <1>1, <1>5, PushFacts DEF SituInv, SituTypeOK
<1>7. \A k \in 1..Len(stack) : /\ stack[k].hook \in Reentrant /\ stack[k].fp # NULL
                               /\ stack[k].hook # "finish"
                               /\ stack[k] \in Frame /\ FrameOK(stack[k])
  BY <1>2, ActiveFacts DEF SituInv
<1>8. /\ open'[fp] = NULL /\ owner'[fp] = NULL
      /\ \A q \in FPs \ {fp} : open'[q] = open[q] /\ owner'[q] = owner[q]
      /\ open' \in [FPs -> Name \cup {NULL}] /\ owner' \in [FPs -> Caller \cup {NULL}]
  BY <1>2 DEF SituInv, SituTypeOK
<1>9. \A k \in 1..Len(stack) : stack[k].fp # fp
  <2> SUFFICES ASSUME NEW k \in 1..Len(stack), stack[k].fp = fp PROVE FALSE
    OBVIOUS
  <2>1. stack[k].hook # "file"
    BY <1>2, <1>4, <1>7 DEF FrameOK
  <2>2. stack[k].hook # "exec"
    BY <1>2 DEF Busy
  <2> QED
    BY <1>7, <2>1, <2>2 DEF Frame, Dispatched
<1>10. SituTypeOK'
  <2>1. live' \in [Name -> Int]
    BY <1>1, <1>4 DEF SituInv, SituTypeOK
  <2> QED
    BY <1>2, <1>3, <1>6, <1>8, <2>1 DEF SituInv, SituTypeOK
<1>11. SlotsTrue'
  <2> SUFFICES ASSUME NEW t \in Slot, files[t].fp # NULL
               PROVE  \/ open'[files[t].fp] = files[t].name
                      \/ stack'[Len(stack')].hook = "finish" /\ stack'[Len(stack')].slot = t
    BY <1>2, <1>6 DEF SlotsTrue, Top
  <2>1. CASE t = s
    BY <1>6, <2>1
  <2>2. CASE t # s
    BY <1>1, <1>2, <1>4, <1>8, <2>2, ActiveFacts DEF SituInv, SlotsApart
  <2> QED
    BY <2>1, <2>2
<1>12. OwnedOpen'
  BY <1>8 DEF SituInv, OwnedOpen
<1>13. ASSUME NEW k \in 1..Len(stack)' PROVE FrameOK(stack[k])'
  <2>1. CASE k \in 1..Len(stack)
    <3>1. /\ FrameOK(stack[k]) /\ stack'[k] = stack[k]
          /\ stack[k].fp \in FPs \ {fp} /\ stack[k].fp # NULL /\ stack[k].slot \in Slot
      BY <1>6, <1>7, <1>9, <2>1 DEF Frame
    <3> QED
      BY <1>2, <1>3, <1>8, <3>1 DEF FrameOK
  <2>2. CASE k = Len(stack) + 1
    BY <1>1, <1>2, <1>3, <1>4, <1>6, <1>8, <2>2, CalledFacts DEF FrameOK
  <2> QED
    BY <1>6, <1>13, <2>1, <2>2
<1>14. OuterReentrant'
  BY <1>6, <1>7 DEF OuterReentrant
<1>15. FileFramesApart'
  BY <1>6 DEF SituInv, FileFramesApart
<1> QED
  BY <1>2, <1>3, <1>10, <1>11, <1>12, <1>13, <1>14, <1>15
  DEF SituInv, SlotsWhole, SlotsApart

(* fopen hands out the stream its slot holds, which nobody else was given. *)
LEMMA FopenReturnStep ==
    ASSUME SafeEnvelope, SituInv, FopenReturn
    PROVE  SituInv'
<1>1. /\ stack # <<>> /\ Top.hook = "file" /\ Pop
      /\ UNCHANGED fprocVars /\ files' = files /\ open' = open /\ live' = live
      /\ owner' = [fp \in FPs |-> IF fp = files[Top.slot].fp THEN Top.who ELSE owner[fp]]
  BY DEF FopenReturn
<1>2. FprocInv' /\ FprocTypeOK' /\ Visible' = Visible
  BY <1>1, TableUnchanged
<1>3. /\ stack' \in Seq(Frame) /\ Top \in Frame
      /\ Len(stack) \in Nat \ {0} /\ Len(stack') = Len(stack) - 1
      /\ \A k \in 1..(Len(stack) - 1) : stack'[k] = stack[k]
  BY <1>1, PopFacts DEF SituInv, SituTypeOK
<1>4. Top = stack[Len(stack)] /\ FrameOK(Top) /\ Top.slot \in Slot
  BY <1>3 DEF Top, SituInv, Frame
<1>5. /\ \A fp \in FPs : fp # Top.fp => owner'[fp] = owner[fp]
      /\ Top.fp \in FPs => owner'[Top.fp] = Top.who /\ Top.who # NULL /\ open[Top.fp] # NULL
  BY <1>1, <1>3, <1>4, SimpleSituAssumption, FprocAssumption DEF FrameOK, Frame
<1>6. SituTypeOK'
  BY <1>1, <1>2, <1>3 DEF SituInv, SituTypeOK, Frame
<1>7. SlotsTrue'
  BY <1>1, <1>4 DEF SituInv, SlotsTrue
<1>8. OwnedOpen'
  BY <1>1, <1>5 DEF SituInv, OwnedOpen
<1>9. ASSUME NEW k \in 1..Len(stack)' PROVE FrameOK(stack[k])'
  <2>1. /\ k \in 1..Len(stack) /\ k < Len(stack) /\ stack'[k] = stack[k]
        /\ stack[k] \in Frame /\ FrameOK(stack[k])
    BY <1>3, <1>9 DEF SituInv, SituTypeOK
  <2>2. stack[k].hook # "finish"
    BY <2>1 DEF SafeEnvelope, SituInv, OuterReentrant
  <2>3. stack[k].hook = "file" => stack[k].fp = NULL \/ stack[k].fp # Top.fp
    BY <1>1, <1>3, <1>4, <2>1 DEF SituInv, FileFramesApart
  <2>4. stack[k].fp = NULL \/ stack[k].fp \in FPs
    BY <2>1 DEF Frame
  <2> QED
    BY <1>1, <1>2, <1>5, <2>1, <2>2, <2>3, <2>4 DEF FrameOK
<1>10. OuterReentrant' /\ FileFramesApart'
  BY <1>3 DEF SituInv, OuterReentrant, FileFramesApart
<1> QED
  BY <1>1, <1>2, <1>6, <1>7, <1>8, <1>9, <1>10 DEF SituInv, SlotsWhole, SlotsApart

LEMMA FwriteReturnStep ==
    ASSUME SafeEnvelope, SituInv, FwriteReturn
    PROVE  SituInv'
<1>1. /\ stack # <<>> /\ Top.hook = "exec" /\ Pop /\ UNCHANGED fprocVars
      /\ files' = files /\ open' = open /\ owner' = owner /\ live' = live
  BY DEF FwriteReturn
<1>2. FprocInv' /\ FprocTypeOK' /\ Visible' = Visible
  BY <1>1, TableUnchanged
<1>3. /\ stack' \in Seq(Frame)
      /\ Len(stack) \in Nat \ {0} /\ Len(stack') = Len(stack) - 1
      /\ \A k \in 1..(Len(stack) - 1) : stack'[k] = stack[k]
  BY <1>1, PopFacts DEF SituInv, SituTypeOK
<1>4. SituTypeOK'
  BY <1>1, <1>2, <1>3 DEF SituInv, SituTypeOK
<1>5. SlotsTrue'
  BY <1>1 DEF SituInv, SlotsTrue
<1>6. ASSUME NEW k \in 1..Len(stack)' PROVE FrameOK(stack[k])'
  <2>1. k \in 1..Len(stack) /\ stack'[k] = stack[k] /\ FrameOK(stack[k])
    BY <1>3, <1>6 DEF SituInv
  <2> QED
    BY <1>1, <1>2, <2>1 DEF FrameOK
<1>7. OuterReentrant' /\ FileFramesApart'
  BY <1>3 DEF SituInv, OuterReentrant, FileFramesApart
<1> QED
  BY <1>1, <1>2, <1>4, <1>5, <1>6, <1>7 DEF SituInv, SlotsWhole, SlotsApart, OwnedOpen

(* fclose empties the slot it has kept: no call further out uses it. *)
LEMMA FcloseReturnStep ==
    ASSUME SafeEnvelope, SituInv, FcloseReturn
    PROVE  SituInv'
<1>1. /\ stack # <<>> /\ Top.hook = "finish" /\ Pop /\ UNCHANGED fprocVars
      /\ files' = [files EXCEPT ![Top.slot] = NoFile]
      /\ open' = open /\ owner' = owner /\ live' = live
  BY DEF FcloseReturn
<1>2. FprocInv' /\ FprocTypeOK' /\ Visible' = Visible
  BY <1>1, TableUnchanged
<1>3. /\ stack' \in Seq(Frame) /\ Top \in Frame
      /\ Len(stack) \in Nat \ {0} /\ Len(stack') = Len(stack) - 1
      /\ \A k \in 1..(Len(stack) - 1) : stack'[k] = stack[k]
  BY <1>1, PopFacts DEF SituInv, SituTypeOK
<1>4. Top = stack[Len(stack)] /\ FrameOK(Top) /\ Top.slot \in Slot /\ Top.fp # NULL
  BY <1>1, <1>3 DEF Top, SituInv, Frame, FrameOK
<1>5. /\ files'[Top.slot] = NoFile
      /\ \A t \in Slot \ {Top.slot} : files'[t] = files[t]
      /\ files' \in [Slot -> [name : Name \cup {NULL}, fp : FPs \cup {NULL}]]
  BY <1>1, <1>4 DEF SituInv, SituTypeOK, NoFile
<1>6. SituTypeOK'
  BY <1>1, <1>2, <1>3, <1>5 DEF SituInv, SituTypeOK
<1>7. SlotsWhole' /\ SlotsApart'
  BY <1>4, <1>5 DEF SituInv, SlotsWhole, SlotsApart, NoFile
<1>8. SlotsTrue'
  BY <1>1, <1>4, <1>5 DEF SituInv, SlotsTrue, NoFile
<1>9. ASSUME NEW k \in 1..Len(stack)' PROVE FrameOK(stack[k])'
  <2>1. /\ k \in 1..Len(stack) /\ k < Len(stack) /\ stack'[k] = stack[k]
        /\ stack[k] \in Frame /\ FrameOK(stack[k])
    BY <1>3, <1>9 DEF SituInv, SituTypeOK
  <2>2. stack[k].hook \in Reentrant /\ stack[k].hook \in {"file", "exec"}
    BY <2>1 DEF SafeEnvelope, SituInv, OuterReentrant, Frame, Dispatched
  <2>3. stack[k].fp # NULL /\ stack[k].fp \in FPs
    BY <2>1, <2>2 DEF SafeEnvelope, FrameOK, Frame
  <2>4. open[stack[k].fp] # NULL
    BY <2>1, <2>2, <2>3, FprocAssumption DEF FrameOK, SituInv, OwnedOpen, Frame
  <2>5. stack[k].slot # Top.slot /\ stack[k].slot \in Slot
    BY <1>1, <1>4, <2>1, <2>4 DEF FrameOK, Frame
  <2> QED
    BY <1>1, <1>2, <1>5, <2>1, <2>5 DEF FrameOK
<1>10. OuterReentrant' /\ FileFramesApart'
  BY <1>3 DEF SituInv, OuterReentrant, FileFramesApart
<1> QED
  BY <1>1, <1>2, <1>6, <1>7, <1>8, <1>9, <1>10 DEF SituInv, OwnedOpen

(* A hook returns to its loop. *)
LEMMA HookReturnStep ==
    ASSUME SafeEnvelope, SituInv, HookReturn
    PROVE  SituInv'
<1>1. /\ stack # <<>> /\ UNCHANGED fprocVars
      /\ files' = files /\ open' = open /\ owner' = owner /\ live' = live
  BY DEF HookReturn
<1>2. PICK e \in Entry : stack' = [stack EXCEPT ![Len(stack)].todo = @ \ {e}]
  BY DEF HookReturn
<1>3. FprocInv' /\ FprocTypeOK' /\ Visible' = Visible
  BY <1>1, TableUnchanged
<1> DEFINE F == [Top EXCEPT !.todo = @ \ {e}]
<1>4. Len(stack) \in Nat \ {0} /\ stack \in Seq(Frame) /\ Top = stack[Len(stack)] /\ Top \in Frame
  BY <1>1 DEF SituInv, SituTypeOK, Top
<1>5. /\ F \in Frame /\ F.hook = Top.hook /\ F.slot = Top.slot /\ F.name = Top.name
      /\ F.fp = Top.fp /\ F.who = Top.who /\ F.todo \subseteq Top.todo
  BY <1>4 DEF Frame
<1>6. stack' = [stack EXCEPT ![Len(stack)] = F]
  BY <1>2, <1>4
<1> HIDE DEF F
<1>7. /\ stack' \in Seq(Frame) /\ Len(stack') = Len(stack)
      /\ stack'[Len(stack)] = F
      /\ \A k \in 1..Len(stack) : k # Len(stack) => stack'[k] = stack[k]
  BY <1>4, <1>5, <1>6
<1>8. \A k \in 1..Len(stack) : /\ stack'[k].hook = stack[k].hook
                               /\ stack'[k].slot = stack[k].slot
                               /\ stack'[k].name = stack[k].name
                               /\ stack'[k].fp = stack[k].fp
                               /\ stack'[k].todo \subseteq stack[k].todo
  BY <1>4, <1>5, <1>7
<1>9. SituTypeOK'
  BY <1>1, <1>3, <1>7 DEF SituInv, SituTypeOK
<1>10. SlotsTrue'
  BY <1>1, <1>4, <1>7, <1>8 DEF SituInv, SlotsTrue, Top
<1>11. ASSUME NEW k \in 1..Len(stack)' PROVE FrameOK(stack[k])'
  <2>1. k \in 1..Len(stack) /\ FrameOK(stack[k])
    BY <1>7, <1>11 DEF SituInv
  <2> QED
    BY <1>1, <1>3, <1>8, <2>1 DEF FrameOK
<1>12. OuterReentrant' /\ FileFramesApart'
  BY <1>7, <1>8 DEF SituInv, OuterReentrant, FileFramesApart
<1> QED
  BY <1>1, <1>3, <1>9, <1>10, <1>11, <1>12 DEF SituInv, SlotsWhole, SlotsApart, OwnedOpen

(* exit() from a hook leaves no slot in the middle of its fclose. *)
LEMMA ExitInHookStep ==
    ASSUME SafeEnvelope, SituInv, ExitInHook
    PROVE  SituInv'
<1>1. /\ stack # <<>> /\ Top.hook \in Reentrant /\ UnloadBegin /\ stack' = <<>>
      /\ files' = files /\ open' = open /\ owner' = owner /\ live' = live
  BY DEF ExitInHook
<1>2. FprocInv' /\ FprocTypeOK'
  BY <1>1, FprocStepInv DEF SituInv, FprocNext, FprocInv
<1>3. Top.hook # "finish"
  BY <1>1 DEF SafeEnvelope
<1>4. SituTypeOK'
  BY <1>1, <1>2 DEF SituInv, SituTypeOK
<1>5. SlotsTrue'
  BY <1>1, <1>3 DEF SituInv, SlotsTrue
<1> QED
  BY <1>1, <1>2, <1>4, <1>5
  DEF SituInv, SlotsWhole, SlotsApart, OwnedOpen, OuterReentrant, FileFramesApart

(* The loader and the unloader run with no call in progress. *)
LEMMA LoaderStep ==
    ASSUME SafeEnvelope, SituInv, Loader \/ Exit
    PROVE  SituInv'
<1>1. stack = <<>> /\ stack' = <<>> /\ UNCHANGED situVars /\ FprocNext
  BY DEF Loader, Exit, FprocNext, situVars
<1>2. FprocInv' /\ FprocTypeOK'
  BY <1>1, FprocStepInv DEF SituInv, FprocInv
<1>3. SituTypeOK'
  BY <1>1, <1>2 DEF SituInv, SituTypeOK, situVars
<1> QED
  BY <1>1, <1>2, <1>3
  DEF SituInv, SlotsWhole, SlotsApart, SlotsTrue, OwnedOpen, OuterReentrant, FileFramesApart,
      situVars

LEMMA StutterStep ==
    ASSUME SituInv, UNCHANGED vars
    PROVE  SituInv'
<1>1. FprocInv' /\ FprocTypeOK' /\ Visible' = Visible
  BY TableUnchanged DEF vars
<1>2. /\ files' = files /\ open' = open /\ owner' = owner /\ stack' = stack /\ live' = live
  BY DEF vars, situVars
<1>3. SituTypeOK'
  BY <1>1, <1>2 DEF SituInv, SituTypeOK
<1>4. (\A k \in 1..Len(stack) : FrameOK(stack[k]))'
  BY <1>1, <1>2 DEF SituInv, FrameOK
<1>5. SlotsTrue' /\ OuterReentrant' /\ FileFramesApart'
  BY <1>2 DEF SituInv, SlotsTrue, Top, OuterReentrant, FileFramesApart
<1> QED
  BY <1>1, <1>2, <1>3, <1>4, <1>5 DEF SituInv, SlotsWhole, SlotsApart, OwnedOpen

LEMMA SituInitInv == Init => SituInv
<1> SUFFICES ASSUME Init PROVE SituInv
  OBVIOUS
<1>1. FprocInv
  BY FprocInitInv DEF Init
<1>2. SituTypeOK
  BY <1>1 DEF Init, SituInit, SituTypeOK, FprocInv, NoFile
<1> QED
  BY <1>1, <1>2
  DEF Init, SituInit, SituInv, NoFile, SlotsWhole, SlotsApart, SlotsTrue, OwnedOpen,
      OuterReentrant, FileFramesApart

LEMMA SituStepInv == SafeEnvelope /\ SituInv /\ [Next]_vars => SituInv'
<1> SUFFICES ASSUME SafeEnvelope, SituInv, [Next]_vars PROVE SituInv'
  OBVIOUS
<1>1. CASE Calls
  <2> PICK c \in Caller :
        \/ \E n \in Name, mode \in {"r", "w"} : FopenUntracked(c, n, mode)
        \/ \E n \in Name : FopenTracked(c, n)
        \/ \E fp \in FPs : Fwrite(c, fp) \/ FcloseUntracked(c, fp) \/ FcloseTracked(c, fp)
    BY <1>1 DEF Calls
  <2> QED
    BY FopenUntrackedStep, FopenTrackedStep, FwriteStep, FcloseUntrackedStep,
       FcloseTrackedStep
<1>2. CASE Returns
  BY <1>2, FopenReturnStep, FwriteReturnStep, FcloseReturnStep, HookReturnStep DEF Returns
<1>3. CASE Exit \/ Loader
  BY <1>3, LoaderStep
<1>4. CASE ExitInHook
  BY <1>4, ExitInHookStep
<1>5. CASE UNCHANGED vars
  BY <1>5, StutterStep
<1> QED
  BY <1>1, <1>2, <1>3, <1>4, <1>5 DEF Next

-----------------------------------------------------------------------------

THEOREM SituInvariant == SafeEnvelope => (Spec => []SituInv)
<1> SUFFICES ASSUME SafeEnvelope PROVE Spec => []SituInv
  OBVIOUS
<1>1. Init => SituInv
  BY SituInitInv
<1>2. SituInv /\ [Next]_vars => SituInv'
  BY SituStepInv
<1> QED
  BY <1>1, <1>2, PTL DEF Spec

LEMMA InvTableIsMap == SituInv => TableIsMap
<1> SUFFICES ASSUME SituInv PROVE TableIsMap
  OBVIOUS
<1>1. ASSUME NEW s \in Slot, files[s].fp # NULL, ~IsFinishing(s)
      PROVE  open[files[s].fp] = files[s].name
  <2>1. CASE stack = <<>>
    BY <1>1, <2>1 DEF SituInv, SlotsTrue
  <2>2. CASE stack # <<>>
    BY <1>1, <2>2, TopFacts DEF SituInv, SituTypeOK, SlotsTrue, IsFinishing
  <2> QED
    BY <2>1, <2>2
<1> QED
  BY <1>1 DEF TableIsMap, SituInv, SlotsApart

LEMMA InvReturnRight == SituInv => ReturnRight
BY DEF SituInv, ReturnRight, FrameOK

LEMMA InvNameAlive == SituInv => NameAlive
BY DEF SituInv, NameAlive, FrameOK

(* The table of open files stays a map from live FILE*s to the names they     *)
(* write, whatever exec() and file() hooks do (simplesitu.c:30-45).           *)
THEOREM FilesIsMap == SafeEnvelope => (Spec => []TableIsMap)
BY InvTableIsMap, SituInvariant, PTL

(* fopen answers with the stream of its own file although it reads its slot   *)
(* again after hooks have run (simplesitu.c:131-132).                         *)
THEOREM FopenAnswersRight == SafeEnvelope => (Spec => []ReturnRight)
BY InvReturnRight, SituInvariant, PTL

(* The file name a hook was given outlives the hook (simplesitu.c:144, 166).  *)
THEOREM NamesOutliveHooks == SafeEnvelope => (Spec => []NameAlive)
BY InvNameAlive, SituInvariant, PTL

(* The table, and the strings it lends to hooks, stay right at any depth of   *)
(* nesting (simplesitu.c:30-32, 144, 166-169).                               *)
THEOREM FilesStayRight == SafeEnvelope => (Spec => []FilesKept)
<1>1. TableIsMap /\ NameAlive => FilesKept
  BY DEF FilesKept
<1> QED
  BY <1>1, FilesIsMap, NamesOutliveHooks, PTL

-----------------------------------------------------------------------------
(* Counting.  The streams the table still has to finish are the slots of a    *)
(* name that are not in their finish() loop; live counts them.               *)

Kept(n) == {s \in Slot : files[s].name = n /\ ~IsFinishing(s)}

LEMMA KeptFinite == ASSUME NEW n PROVE IsFiniteSet(Kept(n))
<1>1. IsFiniteSet(Slot)
  BY FS_Interval, SimpleSituAssumption DEF Slot
<1> QED
  BY <1>1, FS_Subset DEF Kept

(* A step that moves no stream in or out. *)
LEMMA KeptStays ==
    ASSUME Balanced, live' = live,
           \A s \in Slot : /\ files'[s].name = files[s].name
                           /\ IsFinishing(s)' <=> IsFinishing(s)
    PROVE  Balanced'
<1>1. ASSUME NEW n \in Name PROVE Kept(n)' = Kept(n)
  BY DEF Kept
<1> QED
  BY <1>1 DEF Balanced, Kept

(* Entering a loop that is not finish()'s, and leaving one. *)
LEMMA PushFinishing ==
    ASSUME SituTypeOK, NEW f \in Frame, Push(f), NEW s
    PROVE  IsFinishing(s)' <=> IsFinishing(s) \/ (f.hook = "finish" /\ f.slot = s)
<1>1. /\ Len(stack) \in Nat /\ Len(stack') = Len(stack) + 1
      /\ \A k \in 1..Len(stack) : stack'[k] = stack[k]
      /\ stack'[Len(stack) + 1] = f
  BY PushFacts DEF SituTypeOK
<1>2. \A k : k \in 1..Len(stack') <=> k \in 1..Len(stack) \/ k = Len(stack) + 1
  BY <1>1
<1>3. \A k \in 1..Len(stack) : k # Len(stack) + 1
  BY <1>1
<1> QED
  BY <1>1, <1>2, <1>3, Zenon DEF IsFinishing

LEMMA PopFinishing ==
    ASSUME SituTypeOK, stack # <<>>, Pop, Top.hook # "finish", NEW s
    PROVE  IsFinishing(s)' <=> IsFinishing(s)
<1>1. /\ Len(stack) \in Nat \ {0} /\ Len(stack') = Len(stack) - 1
      /\ \A k \in 1..(Len(stack) - 1) : stack'[k] = stack[k]
      /\ Top = stack[Len(stack)]
  BY PopFacts, TopFacts DEF SituTypeOK
<1>2. \A k : k \in 1..Len(stack) <=> k \in 1..Len(stack') \/ k = Len(stack)
  BY <1>1
<1>3. \A k \in 1..Len(stack') : stack'[k] = stack[k]
  BY <1>1
<1>4. stack[Len(stack)].hook # "finish"
  BY <1>1
<1> QED
  BY <1>2, <1>3, <1>4, Zenon DEF IsFinishing

(* Nobody calls while a stream is in its finish() loop. *)
LEMMA NoneFinishing ==
    ASSUME SafeEnvelope, SituInv, NEW c \in Caller, Active(c), NEW s
    PROVE  ~IsFinishing(s)
BY ActiveFacts DEF IsFinishing

LEMMA BalancedFopen ==
    ASSUME SafeEnvelope, SituInv, Balanced, NEW c \in Caller, NEW n \in Name,
           FopenTracked(c, n)
    PROVE  Balanced'
<1> DEFINE F(s, fp) == [hook |-> "file", slot |-> s, name |-> n, fp |-> fp,
                        who |-> c, todo |-> Called("file", n)]
<1>1. PICK s \in Slot, fp \in FPs \cup {NULL} :
        /\ files[s].fp = NULL
        /\ IF fp = NULL
           THEN /\ files' = [files EXCEPT ![s] = NoFile]
                /\ UNCHANGED <<open, live>>
           ELSE /\ files' = [files EXCEPT ![s] = [name |-> n, fp |-> fp]]
                /\ live' = [live EXCEPT ![n] = @ + 1]
        /\ Push(F(s, fp))
  BY DEF FopenTracked, Finds
<1>2. Active(c) /\ SituTypeOK /\ files[s].name = NULL /\ n # NULL
  BY <1>1, FprocAssumption DEF FopenTracked, SituInv, SlotsWhole
<1>3. F(s, fp) \in Frame /\ F(s, fp).hook # "finish"
  BY CalledFacts DEF Frame, Dispatched
<1>4. ASSUME NEW t PROVE ~IsFinishing(t) /\ ~IsFinishing(t)'
  BY <1>1, <1>2, <1>3, NoneFinishing, PushFinishing
<1>5. CASE fp = NULL
  <2>1. \A t \in Slot : files'[t].name = files[t].name
    BY <1>1, <1>2, <1>5 DEF SituTypeOK, NoFile
  <2> QED
    BY <1>1, <1>4, <1>5, <2>1, KeptStays
<1>6. CASE fp # NULL
  <2>1. \A t \in Slot : files'[t].name = IF t = s THEN n ELSE files[t].name
    BY <1>1, <1>2, <1>6 DEF SituTypeOK
  <2>2. Kept(n)' = Kept(n) \cup {s} /\ s \notin Kept(n)
    BY <1>2, <1>4, <2>1 DEF Kept
  <2>3. ASSUME NEW m \in Name, m # n PROVE Kept(m)' = Kept(m)
    <3>1. m # NULL
      BY FprocAssumption
    <3> QED
      BY <1>2, <1>4, <2>1, <2>3, <3>1 DEF Kept
  <2>4. Cardinality(Kept(n)') = Cardinality(Kept(n)) + 1
    BY <2>2, KeptFinite, FS_AddElement
  <2>5. \A m \in Name : live'[m] = IF m = n THEN live[n] + 1 ELSE live[m]
    BY <1>1, <1>2, <1>6 DEF SituTypeOK
  <2>6. \A m \in Name : live[m] = Cardinality(Kept(m))
    BY DEF Balanced, Kept
  <2>7. \A m \in Name : live'[m] = Cardinality(Kept(m)')
    BY <2>3, <2>4, <2>5, <2>6
  <2> QED
    BY <2>7 DEF Balanced, Kept
<1> QED
  BY <1>5, <1>6

LEMMA BalancedFclose ==
    ASSUME SafeEnvelope, SituInv, Balanced, NEW c \in Caller, NEW fp \in FPs,
           FcloseTracked(c, fp)
    PROVE  Balanced'
<1> DEFINE F(s) == [hook |-> "finish", slot |-> s, name |-> files[s].name, fp |-> fp,
                    who |-> c, todo |-> Called("finish", files[s].name)]
<1>1. PICK s \in Slot : /\ files[s].fp = fp /\ Push(F(s))
                        /\ live' = [live EXCEPT ![files[s].name] = @ - 1]
  BY DEF FcloseTracked, Finds, Finishing
<1>2. Active(c) /\ SituTypeOK /\ files' = files
  BY DEF FcloseTracked, SituInv
<1>3. PICK n \in Name : n = files[s].name
  BY <1>1, SimpleSituAssumption DEF SituInv, SituTypeOK, SlotsWhole
<1>4. F(s) \in Frame
  BY <1>3, CalledFacts DEF Frame, Dispatched
<1>5. ASSUME NEW t PROVE ~IsFinishing(t) /\ (IsFinishing(t)' <=> t = s)
  BY <1>1, <1>2, <1>4, NoneFinishing, PushFinishing
<1>6. Kept(n)' = Kept(n) \ {s} /\ s \in Kept(n)
  BY <1>2, <1>3, <1>5 DEF Kept
<1>7. ASSUME NEW m \in Name, m # n PROVE Kept(m)' = Kept(m)
  BY <1>2, <1>3, <1>5, <1>7 DEF Kept
<1>8. Cardinality(Kept(n)') = Cardinality(Kept(n)) - 1
  BY <1>6, KeptFinite, FS_RemoveElement
<1>9. \A m \in Name : live'[m] = IF m = n THEN live[n] - 1 ELSE live[m]
  BY <1>1, <1>2, <1>3 DEF SituTypeOK
<1>10. \A m \in Name : live[m] = Cardinality(Kept(m))
  BY DEF Balanced, Kept
<1>11. \A m \in Name : live'[m] = Cardinality(Kept(m)')
  <2>1. live'[n] = Cardinality(Kept(n)')
    BY <1>3, <1>8, <1>9, <1>10
  <2>2. ASSUME NEW m \in Name, m # n PROVE live'[m] = Cardinality(Kept(m)')
    <3>1. live'[m] = live[m] /\ live[m] = Cardinality(Kept(m))
      BY <1>9, <1>10, <2>2
    <3>2. Kept(m)' = Kept(m)
      BY <1>7, <2>2
    <3> QED
      BY <3>1, <3>2
  <2> QED
    BY <2>1, <2>2
<1> QED
  BY <1>11 DEF Balanced, Kept

LEMMA BalancedReturns ==
    ASSUME SafeEnvelope, SituInv, Balanced, Returns
    PROVE  Balanced'
<1>1. SituTypeOK
  BY DEF SituInv
<1>2. CASE FopenReturn \/ FwriteReturn
  <2>1. stack # <<>> /\ Pop /\ Top.hook # "finish" /\ files' = files /\ live' = live
    BY <1>2 DEF FopenReturn, FwriteReturn
  <2> QED
    BY <1>1, <2>1, PopFinishing, KeptStays
<1>3. CASE FcloseReturn
  <2>1. /\ stack # <<>> /\ Pop /\ Top.hook = "finish" /\ live' = live
        /\ files' = [files EXCEPT ![Top.slot] = NoFile]
    BY <1>3 DEF FcloseReturn
  <2>2. /\ stack \in Seq(Frame) /\ Top = stack[Len(stack)]
        /\ Len(stack) \in 1..Len(stack) /\ Top.slot \in Slot
    BY <1>1, <2>1, TopFacts DEF SituTypeOK, Frame
  <2>3. \A k \in 1..Len(stack) : k < Len(stack) => stack[k].hook # "finish"
    BY DEF SafeEnvelope, SituInv, OuterReentrant
  <2>4. ASSUME NEW t PROVE IsFinishing(t) <=> t = Top.slot
    BY <2>1, <2>2, <2>3 DEF IsFinishing
  <2>5. /\ Len(stack) \in Nat \ {0} /\ Len(stack') = Len(stack) - 1
        /\ \A k \in 1..(Len(stack) - 1) : stack'[k] = stack[k]
    BY <1>1, <2>1, PopFacts DEF SituTypeOK
  <2>6. ASSUME NEW t PROVE ~IsFinishing(t)'
    BY <2>3, <2>5 DEF IsFinishing
  <2>7. \A t \in Slot : files'[t].name = IF t = Top.slot THEN NULL ELSE files[t].name
    BY <1>1, <2>1, <2>2 DEF SituTypeOK, NoFile
  <2>8. ASSUME NEW n \in Name PROVE Kept(n)' = Kept(n)
    <3>1. n # NULL
      BY FprocAssumption
    <3> QED
      BY <2>4, <2>6, <2>7, <3>1 DEF Kept
  <2> QED
    BY <2>1, <2>8 DEF Balanced, Kept
<1>4. CASE HookReturn
  <2>1. stack # <<>> /\ files' = files /\ live' = live
    BY <1>4 DEF HookReturn
  <2>2. PICK e \in Entry : stack' = [stack EXCEPT ![Len(stack)].todo = @ \ {e}]
    BY <1>4 DEF HookReturn
  <2> DEFINE G == [Top EXCEPT !.todo = @ \ {e}]
  <2>3. Len(stack) \in Nat \ {0} /\ stack \in Seq(Frame) /\ Top = stack[Len(stack)] /\ Top \in Frame
    BY <1>1, <2>1 DEF SituTypeOK, Top
  <2>4. G.hook = Top.hook /\ G.slot = Top.slot
    BY <2>3 DEF Frame
  <2>5. stack' = [stack EXCEPT ![Len(stack)] = G]
    BY <2>2, <2>3
  <2> HIDE DEF G
  <2>6. /\ Len(stack') = Len(stack) /\ stack'[Len(stack)] = G
        /\ \A k \in 1..Len(stack) : k # Len(stack) => stack'[k] = stack[k]
    BY <2>3, <2>5
  <2>7. \A k \in 1..Len(stack) : stack'[k].hook = stack[k].hook /\ stack'[k].slot = stack[k].slot
    BY <2>3, <2>4, <2>6
  <2>8. ASSUME NEW t PROVE IsFinishing(t)' <=> IsFinishing(t)
    BY <2>6, <2>7 DEF IsFinishing
  <2> QED
    BY <2>1, <2>8, KeptStays
<1> QED
  BY <1>2, <1>3, <1>4 DEF Returns

LEMMA BalancedStep == SafeEnvelope /\ SituInv /\ Balanced /\ [Next]_vars => Balanced'
<1> SUFFICES ASSUME SafeEnvelope, SituInv, Balanced, [Next]_vars PROVE Balanced'
  OBVIOUS
<1>t. SituTypeOK
  BY DEF SituInv
<1>1. CASE Calls
  <2> PICK c \in Caller :
        \/ \E n \in Name, mode \in {"r", "w"} : FopenUntracked(c, n, mode)
        \/ \E n \in Name : FopenTracked(c, n)
        \/ \E fp \in FPs : Fwrite(c, fp) \/ FcloseUntracked(c, fp) \/ FcloseTracked(c, fp)
    BY <1>1 DEF Calls
  <2>1. ASSUME files' = files, stack' = stack, live' = live PROVE Balanced'
    BY <2>1, KeptStays DEF IsFinishing
  <2>2. ASSUME NEW fp \in FPs, Fwrite(c, fp) PROVE Balanced'
    <3>1. PICK s \in Slot :
            /\ files[s].fp = fp
            /\ Push([hook |-> "exec", slot |-> s, name |-> files[s].name, fp |-> fp,
                     who |-> c, todo |-> Called("exec", files[s].name)])
      BY <2>2 DEF Fwrite, Finds
    <3> DEFINE F == [hook |-> "exec", slot |-> s, name |-> files[s].name, fp |-> fp,
                     who |-> c, todo |-> Called("exec", files[s].name)]
    <3>2. files' = files /\ live' = live
      BY <2>2 DEF Fwrite
    <3>3. files[s].name \in Name
      BY <3>1, SimpleSituAssumption DEF SituInv, SituTypeOK, SlotsWhole
    <3>4. F \in Frame /\ F.hook # "finish"
      BY <3>3, CalledFacts DEF Frame, Dispatched
    <3>5. ASSUME NEW t PROVE IsFinishing(t)' <=> IsFinishing(t)
      BY <1>t, <3>1, <3>4, PushFinishing
    <3> QED
      BY <3>2, <3>5, KeptStays
  <2>3. ASSUME NEW n \in Name, NEW mode, FopenUntracked(c, n, mode) PROVE Balanced'
    BY <2>1, <2>3 DEF FopenUntracked
  <2>4. ASSUME NEW fp \in FPs, FcloseUntracked(c, fp) PROVE Balanced'
    BY <2>1, <2>4 DEF FcloseUntracked
  <2> QED
    BY <2>2, <2>3, <2>4, BalancedFopen, BalancedFclose
<1>2. CASE Returns
  BY <1>2, BalancedReturns
<1>3. CASE Exit \/ Loader
  <2>1. stack' = stack /\ files' = files /\ live' = live
    BY <1>3 DEF Exit, Loader, situVars
  <2> QED
    BY <2>1, KeptStays DEF IsFinishing
<1>4. CASE ExitInHook
  <2>1. stack # <<>> /\ Top.hook \in Reentrant /\ stack' = <<>> /\ files' = files /\ live' = live
    BY <1>4 DEF ExitInHook
  <2>2. Top = stack[Len(stack)] /\ stack \in Seq(Frame) /\ Len(stack) \in Nat
    BY <1>t DEF Top, SituTypeOK
  <2>3. \A k \in 1..Len(stack) : stack[k].hook # "finish"
    BY <2>1, <2>2 DEF SafeEnvelope, SituInv, OuterReentrant
  <2>4. ASSUME NEW t PROVE ~IsFinishing(t) /\ ~IsFinishing(t)'
    BY <2>1, <2>3 DEF IsFinishing
  <2> QED
    BY <2>1, <2>4, KeptStays
<1>5. CASE UNCHANGED vars
  BY <1>5, KeptStays DEF vars, situVars, IsFinishing
<1> QED
  BY <1>1, <1>2, <1>3, <1>4, <1>5 DEF Next

(* Every stream announced to file() hooks is finished exactly once, however   *)
(* exec() and file() hooks nest their own calls (simplesitu.c:125-174).       *)
THEOREM StreamsBalanced == SafeEnvelope => (Spec => []Balanced)
<1> SUFFICES ASSUME SafeEnvelope PROVE Spec => []Balanced
  OBVIOUS
<1>1. Init => SituInv /\ Balanced
  <2> SUFFICES ASSUME Init PROVE Balanced
    BY SituInitInv
  <2>1. ASSUME NEW n \in Name PROVE Kept(n) = {} /\ live[n] = 0
    BY FprocAssumption DEF Init, SituInit, NoFile, Kept
  <2> QED
    BY <2>1, FS_EmptySet DEF Balanced, Kept
<1>2. SituInv /\ Balanced /\ [Next]_vars => (SituInv /\ Balanced)'
  BY SituStepInv, BalancedStep
<1> QED
  BY <1>1, <1>2, PTL DEF Spec

-----------------------------------------------------------------------------
(* What holds of every hook, re-entrant or not, and of every libc: the calls  *)
(* in progress only ever have entries to visit that a scan can still reach.   *)

CallInv ==
    /\ FprocInv
    /\ SituTypeOK
    /\ SlotsWhole
    /\ \A k \in 1..Len(stack) : stack[k].todo \subseteq Visible

LEMMA CallTable ==
    ASSUME CallInv, UNCHANGED fprocVars
    PROVE  FprocInv' /\ FprocTypeOK' /\ Visible' = Visible
<1>1. FprocInv'
  BY DEF fprocVars, CallInv, FprocInv, FprocTypeOK, EntryHeld, PrefixInstalled,
         RestInstalled, RefsOwned, Progress, EntryOf, Good, Opens, Truncated
<1> QED
  BY <1>1 DEF FprocInv, Visible, fprocVars

(* The name in a slot that holds a stream is a name. *)
LEMMA SlotNamed ==
    ASSUME CallInv, NEW s \in Slot, files[s].fp # NULL
    PROVE  files[s].name \in Name
BY DEF CallInv, SituTypeOK, SlotsWhole

(* Entering a loop whose entries are visible. *)
LEMMA CallPush ==
    ASSUME CallInv, UNCHANGED fprocVars, NEW f \in Frame, f.todo \subseteq Visible, Push(f),
           SituTypeOK /\ stack' \in Seq(Frame) => SituTypeOK', SlotsWhole'
    PROVE  CallInv'
<1>1. FprocInv' /\ FprocTypeOK' /\ Visible' = Visible
  BY CallTable
<1>2. /\ stack' \in Seq(Frame) /\ Len(stack) \in Nat /\ Len(stack') = Len(stack) + 1
      /\ \A k \in 1..Len(stack) : stack'[k] = stack[k]
      /\ stack'[Len(stack) + 1] = f
  BY PushFacts DEF CallInv, SituTypeOK
<1>3. ASSUME NEW k \in 1..Len(stack') PROVE stack'[k].todo \subseteq Visible
  <2>1. k \in 1..Len(stack) \/ k = Len(stack) + 1
    BY <1>2
  <2> QED
    BY <1>2, <2>1 DEF CallInv
<1> QED
  BY <1>1, <1>2, <1>3 DEF CallInv

(* Leaving one. *)
LEMMA CallPop ==
    ASSUME CallInv, UNCHANGED fprocVars, stack # <<>>, Pop,
           SituTypeOK /\ stack' \in Seq(Frame) => SituTypeOK', SlotsWhole'
    PROVE  CallInv'
<1>1. FprocInv' /\ FprocTypeOK' /\ Visible' = Visible
  BY CallTable
<1>2. /\ stack' \in Seq(Frame) /\ Len(stack) \in Nat /\ Len(stack') = Len(stack) - 1
      /\ \A k \in 1..(Len(stack) - 1) : stack'[k] = stack[k]
  BY PopFacts DEF CallInv, SituTypeOK
<1>3. ASSUME NEW k \in 1..Len(stack') PROVE stack'[k].todo \subseteq Visible
  <2>1. k \in 1..(Len(stack) - 1) /\ k \in 1..Len(stack)
    BY <1>2
  <2> QED
    BY <1>2, <2>1 DEF CallInv
<1> QED
  BY <1>1, <1>2, <1>3 DEF CallInv

LEMMA CallCalls == ASSUME CallInv, Calls PROVE CallInv'
<1> PICK c \in Caller :
        \/ \E n \in Name, mode \in {"r", "w"} : FopenUntracked(c, n, mode)
        \/ \E n \in Name : FopenTracked(c, n)
        \/ \E fp \in FPs : Fwrite(c, fp) \/ FcloseUntracked(c, fp) \/ FcloseTracked(c, fp)
  BY DEF Calls
<1>1. ASSUME NEW n \in Name, NEW mode, FopenUntracked(c, n, mode) PROVE CallInv'
  <2>1. UNCHANGED <<fprocVars, files, stack, live>>
    BY <1>1 DEF FopenUntracked
  <2>2. SituTypeOK'
    BY <1>1, <2>1, CallTable DEF FopenUntracked, CallInv, SituTypeOK
  <2> QED
    BY <2>1, <2>2, CallTable DEF CallInv, SlotsWhole
<1>2. ASSUME NEW n \in Name, FopenTracked(c, n) PROVE CallInv'
  <2>1. PICK s \in Slot, fp \in FPs \cup {NULL} :
          /\ IF fp = NULL
             THEN /\ files' = [files EXCEPT ![s] = NoFile]
                  /\ UNCHANGED <<open, live>>
             ELSE /\ files' = [files EXCEPT ![s] = [name |-> n, fp |-> fp]]
                  /\ open' = [open EXCEPT ![fp] = n]
                  /\ live' = [live EXCEPT ![n] = @ + 1]
          /\ Push([hook |-> "file", slot |-> s, name |-> n, fp |-> fp,
                   who |-> c, todo |-> Called("file", n)])
    BY <1>2 DEF FopenTracked
  <2>2. UNCHANGED <<fprocVars, owner>>
    BY <1>2 DEF FopenTracked
  <2>3. SituTypeOK /\ stack' \in Seq(Frame) => SituTypeOK'
    <3>1. files' \in [Slot -> [name : Name \cup {NULL}, fp : FPs \cup {NULL}]]
      <4> DEFINE Entries == [name : Name \cup {NULL}, fp : FPs \cup {NULL}]
      <4>1. files \in [Slot -> Entries]
        BY DEF CallInv, SituTypeOK
      <4>2. NoFile \in Entries /\ [name |-> n, fp |-> fp] \in Entries
        BY DEF NoFile
      <4>3. \E entry \in Entries : files' = [files EXCEPT ![s] = entry]
        BY <2>1, <4>2
      <4> HIDE DEF Entries
      <4>4. files' \in [Slot -> Entries]
        BY <4>1, <4>3
      <4> QED
        BY <4>4 DEF Entries
    <3>2. open' \in [FPs -> Name \cup {NULL}]
      <4>1. open \in [FPs -> Name \cup {NULL}]
        BY DEF CallInv, SituTypeOK
      <4>2. open' = open \/ open' = [open EXCEPT ![fp] = n]
        BY <2>1
      <4> QED
        BY <4>1, <4>2
    <3>3. live' \in [Name -> Int]
      <4>1. live \in [Name -> Int]
        BY DEF CallInv, SituTypeOK
      <4>2. live' = live \/ live' = [live EXCEPT ![n] = live[n] + 1]
        BY <2>1
      <4> QED
        BY <4>1, <4>2
    <3> QED
      BY <2>2, <3>1, <3>2, <3>3, CallTable DEF SituTypeOK
  <2>4. SlotsWhole'
    <3>1. /\ files'[s] = IF fp = NULL THEN NoFile ELSE [name |-> n, fp |-> fp]
          /\ \A t \in Slot \ {s} : files'[t] = files[t]
      BY <2>1 DEF CallInv, SituTypeOK
    <3>2. n # NULL
      BY FprocAssumption
    <3> QED
      BY <3>1, <3>2 DEF CallInv, SlotsWhole, NoFile
  <2> QED
    BY <2>1, <2>2, <2>3, <2>4, CallPush, CalledFacts DEF Frame, Dispatched
<1>3. ASSUME NEW fp \in FPs, Fwrite(c, fp) PROVE CallInv'
  <2>1. PICK s \in Slot :
          /\ files[s].fp = fp
          /\ Push([hook |-> "exec", slot |-> s, name |-> files[s].name, fp |-> fp,
                   who |-> c, todo |-> Called("exec", files[s].name)])
    BY <1>3 DEF Fwrite, Finds
  <2>2. UNCHANGED <<fprocVars, files, open, owner, live>>
    BY <1>3 DEF Fwrite
  <2>3. files[s].name \in Name
    BY <2>1, SlotNamed, SimpleSituAssumption
  <2>4. SituTypeOK /\ stack' \in Seq(Frame) => SituTypeOK'
    BY <2>2, CallTable DEF SituTypeOK
  <2>5. SlotsWhole'
    BY <2>2 DEF CallInv, SlotsWhole
  <2> QED
    BY <2>1, <2>2, <2>3, <2>4, <2>5, CallPush, CalledFacts DEF Frame, Dispatched
<1>4. ASSUME NEW fp \in FPs, FcloseUntracked(c, fp) PROVE CallInv'
  <2>1. UNCHANGED <<fprocVars, files, stack, live>>
    BY <1>4 DEF FcloseUntracked
  <2>2. SituTypeOK'
    BY <1>4, <2>1, CallTable DEF FcloseUntracked, LibcClose, CallInv, SituTypeOK
  <2> QED
    BY <2>1, <2>2, CallTable DEF CallInv, SlotsWhole
<1>5. ASSUME NEW fp \in FPs, FcloseTracked(c, fp) PROVE CallInv'
  <2>1. PICK s \in Slot :
          /\ files[s].fp = fp
          /\ live' = [live EXCEPT ![files[s].name] = @ - 1]
          /\ Push([hook |-> "finish", slot |-> s, name |-> files[s].name, fp |-> fp,
                   who |-> c, todo |-> Called("finish", files[s].name)])
    BY <1>5 DEF FcloseTracked, Finishing, Finds
  <2>2. /\ UNCHANGED <<fprocVars, files>>
        /\ open' = [open EXCEPT ![fp] = NULL] /\ owner' = [owner EXCEPT ![fp] = NULL]
    BY <1>5 DEF FcloseTracked, LibcClose
  <2>3. files[s].name \in Name
    BY <2>1, SlotNamed, SimpleSituAssumption
  <2>4. SituTypeOK /\ stack' \in Seq(Frame) => SituTypeOK'
    BY <2>1, <2>2, <2>3, CallTable DEF SituTypeOK
  <2>5. SlotsWhole'
    BY <2>2 DEF CallInv, SlotsWhole
  <2> QED
    BY <2>1, <2>2, <2>3, <2>4, <2>5, CallPush, CalledFacts DEF Frame, Dispatched
<1> QED
  BY <1>1, <1>2, <1>3, <1>4, <1>5

LEMMA CallReturns == ASSUME CallInv, Returns PROVE CallInv'
<1>1. CASE FopenReturn
  <2>1. /\ stack # <<>> /\ Pop /\ UNCHANGED <<fprocVars, files, open, live>>
        /\ owner' = [fp \in FPs |-> IF fp = files[Top.slot].fp THEN Top.who ELSE owner[fp]]
    BY <1>1 DEF FopenReturn
  <2>2. Top \in Frame
    BY <2>1, TopFacts DEF CallInv, SituTypeOK
  <2>3. SituTypeOK /\ stack' \in Seq(Frame) => SituTypeOK'
    BY <2>1, <2>2, CallTable DEF SituTypeOK, Frame
  <2> QED
    BY <2>1, <2>3, CallPop DEF CallInv, SlotsWhole
<1>2. CASE FwriteReturn
  <2>1. stack # <<>> /\ Pop /\ UNCHANGED <<fprocVars, files, open, owner, live>>
    BY <1>2 DEF FwriteReturn
  <2>2. SituTypeOK /\ stack' \in Seq(Frame) => SituTypeOK'
    BY <2>1, CallTable DEF SituTypeOK
  <2> QED
    BY <2>1, <2>2, CallPop DEF CallInv, SlotsWhole
<1>3. CASE FcloseReturn
  <2>1. /\ stack # <<>> /\ Pop /\ UNCHANGED <<fprocVars, open, owner, live>>
        /\ files' = [files EXCEPT ![Top.slot] = NoFile]
    BY <1>3 DEF FcloseReturn
  <2>2. SituTypeOK /\ stack' \in Seq(Frame) => SituTypeOK'
    BY <2>1, CallTable DEF SituTypeOK, NoFile
  <2>3. SlotsWhole'
    BY <2>1 DEF CallInv, SituTypeOK, SlotsWhole, NoFile
  <2> QED
    BY <2>1, <2>2, <2>3, CallPop
<1>4. CASE HookReturn
  <2>1. stack # <<>> /\ UNCHANGED <<fprocVars, files, open, owner, live>>
    BY <1>4 DEF HookReturn
  <2>2. PICK e \in Entry : stack' = [stack EXCEPT ![Len(stack)].todo = @ \ {e}]
    BY <1>4 DEF HookReturn
  <2> DEFINE F == [Top EXCEPT !.todo = @ \ {e}]
  <2>3. Len(stack) \in Nat \ {0} /\ stack \in Seq(Frame) /\ Top = stack[Len(stack)] /\ Top \in Frame
    BY <2>1 DEF CallInv, SituTypeOK, Top
  <2>4. F \in Frame /\ F.todo \subseteq Top.todo
    BY <2>3 DEF Frame
  <2>5. stack' = [stack EXCEPT ![Len(stack)] = F]
    BY <2>2, <2>3
  <2> HIDE DEF F
  <2>6. /\ stack' \in Seq(Frame) /\ Len(stack') = Len(stack)
        /\ stack'[Len(stack)] = F
        /\ \A k \in 1..Len(stack) : k # Len(stack) => stack'[k] = stack[k]
    BY <2>3, <2>4, <2>5
  <2>7. FprocInv' /\ FprocTypeOK' /\ Visible' = Visible
    BY <2>1, CallTable
  <2>8. SituTypeOK'
    BY <2>1, <2>6, <2>7 DEF CallInv, SituTypeOK
  <2>9. ASSUME NEW k \in 1..Len(stack') PROVE stack'[k].todo \subseteq Visible
    BY <2>3, <2>4, <2>6 DEF CallInv
  <2> QED
    BY <2>1, <2>7, <2>8, <2>9 DEF CallInv, SlotsWhole
<1> QED
  BY <1>1, <1>2, <1>3, <1>4 DEF Returns

LEMMA CallStepInv == CallInv /\ [Next]_vars => CallInv'
<1> SUFFICES ASSUME CallInv, [Next]_vars PROVE CallInv'
  OBVIOUS
<1>1. CASE Exit \/ ExitInHook \/ Loader
  <2>1. /\ stack' = <<>> /\ UNCHANGED <<files, open, owner, live>> /\ FprocNext
    BY <1>1 DEF Exit, ExitInHook, Loader, FprocNext, situVars
  <2>2. FprocInv' /\ FprocTypeOK'
    BY <2>1, FprocStepInv DEF CallInv, FprocInv
  <2>3. SituTypeOK'
    BY <2>1, <2>2 DEF CallInv, SituTypeOK
  <2> QED
    BY <2>1, <2>2, <2>3 DEF CallInv, SlotsWhole
<1>2. CASE UNCHANGED vars
  <2>1. UNCHANGED <<fprocVars, files, open, owner, stack, live>>
    BY <1>2 DEF vars, situVars
  <2> QED
    BY <2>1, CallTable DEF CallInv, SituTypeOK, SlotsWhole
<1> QED
  BY <1>1, <1>2, CallCalls, CallReturns DEF Next

THEOREM CallInvariant == Spec => []CallInv
<1>1. Init => CallInv
  <2> SUFFICES ASSUME Init PROVE CallInv
    OBVIOUS
  <2>1. FprocInv /\ SituTypeOK /\ SlotsWhole
    BY SituInitInv DEF SituInv
  <2>2. stack = <<>>
    BY DEF Init, SituInit
  <2> QED
    BY <2>1, <2>2 DEF CallInv
<1>2. CallInv /\ [Next]_vars => CallInv'
  BY CallStepInv
<1> QED
  BY <1>1, <1>2, PTL DEF Spec

LEMMA InvCalledMapped == CallInv => CalledMapped
<1> SUFFICES ASSUME CallInv, NEW k \in 1..Len(stack), NEW e \in stack[k].todo
             PROVE  Mapped(tlibs[e].lib)
  BY DEF CalledMapped
<1>1. VisibleMapped
  BY InvVisibleMapped DEF CallInv
<1> QED
  BY <1>1 DEF CallInv, VisibleMapped

(* Every state of the interposer is well typed; in particular every hook is   *)
(* given a name, never NULL.                                                  *)
THEOREM SituTyped == Spec => []SituTypeOK
<1>1. CallInv => SituTypeOK
  BY DEF CallInv
<1> QED
  BY <1>1, CallInvariant, PTL

(* No interposed call, however deeply nested and however its hooks behave,    *)
(* calls into a library that dlclose has unmapped.                            *)
THEOREM HooksMapped == Spec => []CalledMapped
BY InvCalledMapped, CallInvariant, PTL

(* The two together, in every environment: a call in progress passes a name,  *)
(* never NULL, to hooks that are mapped.                                      *)
THEOREM CallsAlwaysSafe == Spec => []CallsSafe
<1>1. SituTypeOK /\ CalledMapped => CallsSafe
  BY DEF CallsSafe
<1> QED
  BY <1>1, SituTyped, HooksMapped, PTL

-----------------------------------------------------------------------------
(* The interposer implements Tee.                                             *)

Tales == {Told(f) : f \in Frame}
Telling(calls) == [k \in 1..Len(calls) |-> Told(calls[k])]

LEMMA TellingFacts ==
    ASSUME NEW st \in Seq(Frame)
    PROVE  /\ Telling(st) \in Seq(Tales) /\ Len(Telling(st)) = Len(st)
           /\ Len(st) \in Nat
           /\ \A k \in 1..Len(st) : Telling(st)[k] = Told(st[k]) /\ st[k] \in Frame
<1>1. Len(st) \in Nat /\ \A k \in 1..Len(st) : st[k] \in Frame
  OBVIOUS
<1>2. \A k \in 1..Len(st) : Told(st[k]) \in Tales
  BY <1>1 DEF Tales
<1>3. \A k \in 1..Len(st) : Telling(st)[k] = Told(st[k])
  BY DEF Telling
<1>4. Telling(st) \in [1..Len(st) -> Tales]
  BY <1>2 DEF Telling
<1>5. Telling(st) \in Seq(Tales)
  BY <1>1, <1>4
<1>6. Len(Telling(st)) = Len(st)
  BY <1>1, <1>4, <1>5, LenProperties
<1> QED
  BY <1>1, <1>3, <1>5, <1>6

(* A call that enters its loop is told of, ... *)
LEMMA PushTells ==
    ASSUME stack \in Seq(Frame), NEW f \in Frame, Push(f)
    PROVE  InProgress' = Append(InProgress, Told(f))
<1>1. /\ stack' \in Seq(Frame) /\ Len(stack) \in Nat /\ Len(stack') = Len(stack) + 1
      /\ \A k \in 1..Len(stack) : stack'[k] = stack[k]
      /\ stack'[Len(stack) + 1] = f
  BY PushFacts
<1> DEFINE old == Telling(stack)
           new == Telling(stack')
<1>2. InProgress = old /\ InProgress' = new
  BY DEF InProgress, Telling
<1>3. /\ old \in Seq(Tales) /\ Len(old) = Len(stack)
      /\ \A k \in 1..Len(stack) : old[k] = Told(stack[k])
  BY TellingFacts
<1>4. /\ new \in Seq(Tales) /\ Len(new) = Len(stack')
      /\ \A k \in 1..Len(stack') : new[k] = Told(stack'[k])
  BY <1>1, TellingFacts
<1>5. Told(f) \in Tales
  BY DEF Tales
<1> HIDE DEF old, new
<1>6. /\ Append(old, Told(f)) \in Seq(Tales) /\ Len(Append(old, Told(f))) = Len(old) + 1
      /\ \A k \in 1..Len(old) : Append(old, Told(f))[k] = old[k]
      /\ Append(old, Told(f))[Len(old) + 1] = Told(f)
  BY <1>3, <1>5, AppendProperties
<1>7. \A k \in 1..Len(new) : new[k] = Append(old, Told(f))[k]
  BY <1>1, <1>3, <1>4, <1>6
<1>8. new = Append(old, Told(f))
  BY <1>1, <1>3, <1>4, <1>6, <1>7, SeqEqual
<1> QED
  BY <1>2, <1>8

(* ... until it returns.                                                      *)
LEMMA PopTells ==
    ASSUME stack \in Seq(Frame), stack # <<>>, Pop
    PROVE  /\ InProgress' = SubSeq(InProgress, 1, Len(InProgress) - 1)
           /\ InProgress # <<>> /\ InProgress[Len(InProgress)] = Told(Top)
<1>1. /\ stack' \in Seq(Frame) /\ Len(stack) \in Nat \ {0} /\ Len(stack') = Len(stack) - 1
      /\ \A k \in 1..(Len(stack) - 1) : stack'[k] = stack[k]
  BY PopFacts
<1> DEFINE old == Telling(stack)
           new == Telling(stack')
<1>2. InProgress = old /\ InProgress' = new
  BY DEF InProgress, Telling
<1>3. /\ old \in Seq(Tales) /\ Len(old) = Len(stack)
      /\ \A k \in 1..Len(stack) : old[k] = Told(stack[k])
  BY TellingFacts
<1>4. /\ new \in Seq(Tales) /\ Len(new) = Len(stack')
      /\ \A k \in 1..Len(stack') : new[k] = Told(stack'[k])
  BY <1>1, TellingFacts
<1> DEFINE n == Len(old) - 1
<1> HIDE DEF old, new
<1>5. 1 \in Int /\ n \in Int /\ n \in Nat /\ \A k \in 1..n : old[k] \in Tales
  BY <1>1, <1>3
<1> HIDE DEF n
<1>6. /\ SubSeq(old, 1, n) \in Seq(Tales)
      /\ Len(SubSeq(old, 1, n)) = IF 1 <= n THEN n - 1 + 1 ELSE 0
      /\ \A k \in 1..n - 1 + 1 : SubSeq(old, 1, n)[k] = old[1 + k - 1]
  BY <1>5, SubSeqProperties
<1>7. Len(SubSeq(old, 1, n)) = n /\ \A k \in 1..n : SubSeq(old, 1, n)[k] = old[k]
  BY <1>5, <1>6, Z3
<1>8. Len(new) = n /\ n = Len(stack) - 1
  BY <1>1, <1>3, <1>4 DEF n
<1>9. \A k \in 1..n : new[k] = SubSeq(old, 1, n)[k]
  BY <1>1, <1>3, <1>4, <1>5, <1>7, <1>8
<1>10. new = SubSeq(old, 1, n)
  BY <1>4, <1>6, <1>7, <1>8, <1>9, SeqEqual
<1>11. old # <<>> /\ old[Len(old)] = Told(Top)
  BY <1>1, <1>3 DEF Top
<1> QED
  BY <1>2, <1>10, <1>11 DEF n

(* The innermost of the calls told of.                                        *)
LEMMA TopTold ==
    ASSUME stack \in Seq(Frame), stack # <<>>
    PROVE  /\ InProgress # <<>> /\ InProgress[Len(InProgress)] = Told(Top)
           /\ Len(InProgress) = Len(stack) /\ Len(stack) \in 1..Len(stack)
<1> DEFINE old == Telling(stack)
<1>1. InProgress = old
  BY DEF InProgress, Telling
<1>2. /\ old \in Seq(Tales) /\ Len(old) = Len(stack) /\ Len(stack) \in Nat
      /\ \A k \in 1..Len(stack) : old[k] = Told(stack[k])
  BY TellingFacts
<1>3. Len(stack) \in 1..Len(stack)
  OBVIOUS
<1> HIDE DEF old
<1> QED
  BY <1>1, <1>2, <1>3 DEF Top

(* Calls are made once the processors are installed.                          *)
CallsAfterLoad == stack # <<>> => phase # "loading"

TeeInv == SituInv /\ AllStream /\ CallsAfterLoad

LEMMA TeeTyped ==
    ASSUME TeeInv
    PROVE  stack \in Seq(Frame) /\ FprocInv /\ SituTypeOK
BY DEF TeeInv, SituInv, SituTypeOK

LEMMA CallsLater == ASSUME CallsAfterLoad, stack \in Seq(Frame), [Next]_vars PROVE CallsAfterLoad'
<1>1. ASSUME NEW c \in Caller, Active(c), UNCHANGED fprocVars PROVE CallsAfterLoad'
  BY <1>1 DEF Active, CallsAfterLoad, fprocVars
<1>2. CASE Calls
  BY <1>1, <1>2 DEF Calls, FopenUntracked, FopenTracked, Fwrite, FcloseUntracked, FcloseTracked
<1>3. CASE Returns
  BY <1>3 DEF Returns, FopenReturn, FwriteReturn, FcloseReturn, HookReturn, fprocVars,
              CallsAfterLoad
<1>4. CASE Exit \/ ExitInHook \/ Loader
  BY <1>4 DEF Exit, ExitInHook, Loader, UnloadBegin, situVars, CallsAfterLoad
<1>5. CASE UNCHANGED vars
  BY <1>5 DEF vars, situVars, fprocVars, CallsAfterLoad
<1> QED
  BY <1>2, <1>3, <1>4, <1>5 DEF Next

LEMMA TeeInvStep == ASSUME SafeEnvelope, TeeInv, [Next]_vars PROVE TeeInv'
<1>1. SituInv'
  BY SituStepInv DEF TeeInv
<1>2. [FprocNext]_fprocVars
  BY DEF Next, Calls, Returns, FopenUntracked, FopenTracked, Fwrite, FcloseUntracked,
         FcloseTracked, FopenReturn, FwriteReturn, FcloseReturn, HookReturn, Exit, ExitInHook,
         Loader, FprocNext, vars
<1>3. AllStream'
  BY <1>2, StreamStep, TeeTyped DEF TeeInv
<1>4. CallsAfterLoad'
  BY CallsLater, TeeTyped DEF TeeInv
<1> QED
  BY <1>1, <1>3, <1>4 DEF TeeInv

(* Nobody sees what changes neither the table nor a call in progress.         *)
LEMMA NothingTold ==
    ASSUME cfg' = cfg, phase' = phase, tlibs' = tlibs, files' = files, stack' = stack
    PROVE  UNCHANGED Stdio!teeVars
<1>1. Stage' = Stage /\ Listening' = Listening
  BY StageStays, ListeningStays
<1>2. Streamed' = Streamed /\ InProgress' = InProgress
  BY DEF Streamed, InProgress
<1> QED
  BY <1>1, <1>2 DEF Stdio!teeVars

LEMMA QuietTold ==
    ASSUME stack \in Seq(Frame), NEW stream, NEW hooks,
           \A k \in 1..Len(stack) : stack[k].fp = stream => stack[k].hook \notin hooks
    PROVE  Stdio!Quiet(stream, hooks)
<1>1. Len(InProgress) = Len(stack) /\ \A k \in 1..Len(stack) : InProgress[k] = Told(stack[k])
  BY TellingFacts DEF InProgress, Telling
<1>2. ASSUME NEW k \in 1..Len(stack)
      PROVE  InProgress[k].handle = stack[k].fp /\ InProgress[k].hook = stack[k].hook
  <2>1. InProgress[k] = Told(stack[k])
    BY <1>1
  <2>2. Told(stack[k]).handle = stack[k].fp /\ Told(stack[k]).hook = stack[k].hook
    BY DEF Told
  <2> QED
    BY <2>1, <2>2
<1> QED
  BY <1>1, <1>2 DEF Stdio!Quiet

(* A call's loop is a dispatch to whoever listens.                            *)
LEMMA DispatchTold ==
    ASSUME TeeInv, NEW c \in Caller, Active(c), UNCHANGED fprocVars,
           NEW f \in Frame, Push(f), f.todo = Called(f.hook, f.name)
    PROVE  Stdio!Dispatch(f.hook, f.fp, f.name)
<1>1. phase # "loading"
  BY DEF TeeInv, CallsAfterLoad, Active
<1>2. Stage # "starting"
  BY <1>1 DEF Stage
<1>3. Stage' = Stage /\ Listening' = Listening
  BY StageStays, ListeningStays DEF fprocVars
<1>4. f.hook \in {"file", "exec", "finish"} /\ f.name \in Name
  BY DEF Frame, Dispatched
<1>5. Told(f) = [hook |-> f.hook, handle |-> f.fp, name |-> f.name,
                 todo |-> Listening[f.hook][f.name]]
  BY <1>4 DEF Told, Listening
<1>6. InProgress' = Append(InProgress, Told(f))
  BY PushTells, TeeTyped
<1> QED
  BY <1>2, <1>3, <1>5, <1>6 DEF Stdio!Dispatch

LEMMA SlotFilled ==
    ASSUME SituTypeOK, NEW s \in Slot, files[s].fp = NULL, NEW fp \in FPs, NEW n,
           files' = [files EXCEPT ![s] = [name |-> n, fp |-> fp]]
    PROVE  Streamed' = Streamed \cup {<<fp, n>>}
<1>1. fp # NULL
  BY SimpleSituAssumption
<1>2. /\ files'[s].fp = fp /\ files'[s].name = n
      /\ \A t \in Slot : t # s => files'[t] = files[t]
  BY DEF SituTypeOK
<1> QED
  BY <1>1, <1>2 DEF Streamed

LEMMA SlotEmptied ==
    ASSUME SituTypeOK, NEW s \in Slot, files[s].fp # NULL,
           \A t \in Slot : files[t].fp = files[s].fp => t = s,
           files' = [files EXCEPT ![s] = NoFile]
    PROVE  Streamed' = Streamed \ {<<files[s].fp, files[s].name>>}
<1>2. files'[s].fp = NULL /\ \A t \in Slot : t # s => files'[t] = files[t]
  BY DEF SituTypeOK, NoFile
<1> QED
  BY <1>2 DEF Streamed

(* fopen announces what it has opened, or what could not be opened, ...       *)
LEMMA FopenTees ==
    ASSUME SafeEnvelope, TeeInv, NEW c \in Caller, NEW n \in Name, FopenTracked(c, n)
    PROVE  Stdio!AnnounceFailed(n) \/ \E fp \in FPs : Stdio!Announce(fp, n)
<1> DEFINE F(s, fp) == [hook |-> "file", slot |-> s, name |-> n, fp |-> fp,
                        who |-> c, todo |-> Called("file", n)]
<1>1. PICK s \in Slot, fp \in FPs \cup {NULL} :
        /\ files[s].fp = NULL /\ Push(F(s, fp))
        /\ fp = NULL => files' = [files EXCEPT ![s] = NoFile]
        /\ fp # NULL => open[fp] = NULL /\ files' = [files EXCEPT ![s] = [name |-> n, fp |-> fp]]
  BY DEF FopenTracked, Finds
<1>2. Active(c) /\ UNCHANGED fprocVars /\ matches(n)
  BY DEF FopenTracked, Ignored
<1>3. F(s, fp) \in Frame
  BY CalledFacts DEF Frame, Dispatched
<1>4. Stdio!Dispatch("file", fp, n)
  <2>1. Stdio!Dispatch(F(s, fp).hook, F(s, fp).fp, F(s, fp).name)
    <3>1. F(s, fp).todo = Called(F(s, fp).hook, F(s, fp).name)
      OBVIOUS
    <3> HIDE DEF F
    <3> QED
      BY <1>1, <1>2, <1>3, <3>1, DispatchTold
  <2> QED
    BY <2>1
<1>5. Listening["exec"][n] # {}
  BY <1>2, MatchesStream DEF TeeInv
<1>6. CASE fp = NULL
  <2>1. \A t \in Slot : files'[t].fp = files[t].fp /\ (files[t].fp # NULL => files'[t] = files[t])
    BY <1>1, <1>6, TeeTyped DEF SituTypeOK, NoFile
  <2>2. Streamed' = Streamed
    BY <2>1 DEF Streamed
  <2> QED
    BY <1>4, <1>5, <1>6, <2>2 DEF Stdio!AnnounceFailed
<1>7. CASE fp # NULL
  <2>1. fp \in FPs /\ Streamed' = Streamed \cup {<<fp, n>>}
    BY <1>1, <1>7, SlotFilled, TeeTyped
  <2>2. \A m \in Name : <<fp, m>> \notin Streamed
    <3>1. \A t \in Slot : files[t].fp # NULL => open[files[t].fp] # NULL
      BY <1>2, ActiveFacts DEF TeeInv
    <3> QED
      BY <1>1, <1>7, <3>1 DEF Streamed
  <2> QED
    BY <1>4, <1>5, <2>1, <2>2 DEF Stdio!Announce
<1> QED
  BY <1>6, <1>7

(* ... fwrite streams what was announced, ...                                 *)
LEMMA FwriteTees ==
    ASSUME SafeEnvelope, TeeInv, NEW c \in Caller, NEW fp \in FPs, Fwrite(c, fp)
    PROVE  \E n \in Name : Stdio!Stream(fp, n)
<1> DEFINE F(s) == [hook |-> "exec", slot |-> s, name |-> files[s].name, fp |-> fp,
                    who |-> c, todo |-> Called("exec", files[s].name)]
<1>1. PICK s \in Slot : files[s].fp = fp /\ Push(F(s))
  BY DEF Fwrite, Finds
<1>2. Active(c) /\ owner[fp] = c /\ UNCHANGED fprocVars /\ files' = files
  BY DEF Fwrite
<1>3. c # NULL /\ fp # NULL /\ files[s].name \in Name
  BY <1>1, <1>2, ActiveFacts, SimpleSituAssumption DEF TeeInv, SituInv, SituTypeOK, SlotsWhole
<1>4. F(s) \in Frame
  BY <1>1, <1>3, CalledFacts DEF Frame, Dispatched
<1>5. Stdio!Dispatch("exec", fp, files[s].name)
  <2>1. Stdio!Dispatch(F(s).hook, F(s).fp, F(s).name)
    <3>1. F(s).todo = Called(F(s).hook, F(s).name)
      OBVIOUS
    <3> HIDE DEF F
    <3> QED
      BY <1>1, <1>2, <1>4, <3>1, DispatchTold
  <2> QED
    BY <2>1
<1>6. <<fp, files[s].name>> \in Streamed /\ Streamed' = Streamed
  BY <1>1, <1>2, <1>3 DEF Streamed
<1>7. Stdio!Quiet(fp, {"file", "finish"})
  <2>1. \A k \in 1..Len(stack) : stack[k].fp = fp => stack[k].hook \notin {"file", "finish"}
    BY <1>2, <1>3 DEF TeeInv, SituInv, FrameOK
  <2> QED
    BY <2>1, QuietTold, TeeTyped
<1> QED
  BY <1>3, <1>5, <1>6, <1>7 DEF Stdio!Stream

(* ... and fclose finishes it.                                                *)
LEMMA FcloseTees ==
    ASSUME SafeEnvelope, TeeInv, NEW c \in Caller, NEW fp \in FPs, FcloseTracked(c, fp)
    PROVE  \E n \in Name : Stdio!Finish(fp, n)
<1> DEFINE F(s) == [hook |-> "finish", slot |-> s, name |-> files[s].name, fp |-> fp,
                    who |-> c, todo |-> Called("finish", files[s].name)]
<1>1. PICK s \in Slot : files[s].fp = fp /\ Push(F(s))
  BY DEF FcloseTracked, Finds, Finishing
<1>2. Active(c) /\ owner[fp] = c /\ ~Busy(fp) /\ UNCHANGED fprocVars /\ files' = files
  BY DEF FcloseTracked
<1>3. c # NULL /\ fp # NULL /\ files[s].name \in Name
  BY <1>1, <1>2, ActiveFacts, SimpleSituAssumption DEF TeeInv, SituInv, SituTypeOK, SlotsWhole
<1>4. F(s) \in Frame
  BY <1>1, <1>3, CalledFacts DEF Frame, Dispatched
<1>5. Stdio!Dispatch("finish", fp, files[s].name)
  <2>1. Stdio!Dispatch(F(s).hook, F(s).fp, F(s).name)
    <3>1. F(s).todo = Called(F(s).hook, F(s).name)
      OBVIOUS
    <3> HIDE DEF F
    <3> QED
      BY <1>1, <1>2, <1>4, <3>1, DispatchTold
  <2> QED
    BY <2>1
<1>6. <<fp, files[s].name>> \in Streamed /\ Streamed' = Streamed
  BY <1>1, <1>2, <1>3 DEF Streamed
<1>7. Stdio!Quiet(fp, Stdio!Hooks)
  <2>1. \A k \in 1..Len(stack) : stack[k].fp = fp => stack[k].hook \notin Stdio!Hooks
    <3>1. \A k \in 1..Len(stack) : stack[k].hook \in {"file", "exec", "finish"}
      <4>1. \A k \in 1..Len(stack) : stack[k] \in Frame
        BY TeeTyped, TellingFacts
      <4> QED
        BY <4>1 DEF Frame, Dispatched
    <3> QED
      BY <1>2, <1>3, <3>1 DEF TeeInv, SituInv, FrameOK, Busy
  <2> QED
    BY <2>1, QuietTold, TeeTyped
<1> QED
  BY <1>3, <1>5, <1>6, <1>7 DEF Stdio!Finish

LEMMA NoneTold ==
    /\ stack = <<>> => InProgress = <<>>
    /\ stack' = <<>> => InProgress' = <<>>
<1>1. Telling(<<>>) = <<>>
  <2>1. <<>> \in Seq(Frame) /\ Len(<<>>) = 0
    BY EmptySeq
  <2>2. Telling(<<>>) \in Seq(Tales) /\ Len(Telling(<<>>)) = 0
    BY <2>1, TellingFacts
  <2> QED
    BY <2>2, EmptySeq
<1>2. InProgress = Telling(stack) /\ InProgress' = Telling(stack')
  BY DEF InProgress, Telling
<1> QED
  BY <1>1, <1>2

(* A call that has told everybody returns; a finished stream is off.          *)
LEMMA ReturnTees ==
    ASSUME TeeInv, FopenReturn \/ FwriteReturn \/ FcloseReturn
    PROVE  Stdio!Return
<1>1. stack # <<>> /\ Pop /\ Top.todo = {} /\ UNCHANGED fprocVars
  BY DEF FopenReturn, FwriteReturn, FcloseReturn
<1>2. Stage' = Stage /\ Listening' = Listening
  BY <1>1, StageStays, ListeningStays DEF fprocVars
<1>3. /\ InProgress' = SubSeq(InProgress, 1, Len(InProgress) - 1)
      /\ InProgress # <<>> /\ InProgress[Len(InProgress)] = Told(Top)
  BY <1>1, PopTells, TeeTyped
<1>4. /\ Told(Top).hook = Top.hook /\ Told(Top).handle = Top.fp
      /\ Told(Top).name = Top.name /\ Told(Top).todo = Top.todo
  BY DEF Told
<1>5. CASE FopenReturn \/ FwriteReturn
  <2>1. Top.hook # "finish" /\ files' = files
    BY <1>5 DEF FopenReturn, FwriteReturn
  <2>2. Streamed' = Streamed
    BY <2>1 DEF Streamed
  <2> QED
    BY <1>1, <1>2, <1>3, <1>4, <2>1, <2>2 DEF Stdio!Return, Stdio!Innermost
<1>6. CASE FcloseReturn
  <2>1. Top.hook = "finish" /\ files' = [files EXCEPT ![Top.slot] = NoFile]
    BY <1>6 DEF FcloseReturn
  <2>2. FrameOK(Top) /\ Top.slot \in Slot
    <3>1. Len(stack) \in 1..Len(stack) /\ Top = stack[Len(stack)] /\ Top \in Frame
      BY <1>1, TopFacts, TeeTyped
    <3> QED
      BY <3>1 DEF TeeInv, SituInv, Frame
  <2>3. /\ files[Top.slot].fp = Top.fp /\ Top.fp # NULL
        /\ files[Top.slot].name = Top.name
    BY <2>1, <2>2 DEF FrameOK
  <2>4. Streamed' = Streamed \ {<<Top.fp, Top.name>>}
    <3>1. \A t \in Slot : files[t].fp = files[Top.slot].fp => t = Top.slot
      BY <2>2, <2>3 DEF TeeInv, SituInv, SlotsApart
    <3> QED
      BY <2>1, <2>2, <2>3, <3>1, SlotEmptied, TeeTyped
  <2> QED
    BY <1>1, <1>2, <1>3, <1>4, <2>1, <2>4 DEF Stdio!Return, Stdio!Innermost
<1> QED
  BY <1>5, <1>6

(* A hook that returns has been told.                                         *)
LEMMA HookTees ==
    ASSUME TeeInv, HookReturn
    PROVE  \E e \in Entry : Stdio!Heard(e)
<1>1. PICK e \in Entry :
        /\ stack # <<>> /\ e \in Top.todo /\ \A d \in Top.todo : e <= d
        /\ stack' = [stack EXCEPT ![Len(stack)].todo = @ \ {e}]
        /\ UNCHANGED fprocVars /\ files' = files
  BY DEF HookReturn, InHook
<1>2. Stage' = Stage /\ Listening' = Listening /\ Streamed' = Streamed
  BY <1>1, StageStays, ListeningStays DEF fprocVars, Streamed
<1>3. /\ InProgress # <<>> /\ InProgress[Len(InProgress)] = Told(Top)
      /\ Len(InProgress) = Len(stack) /\ Len(stack) \in 1..Len(stack)
  BY <1>1, TopTold, TeeTyped
<1> DEFINE n == Len(stack)
<1>4. /\ Told(Top).todo = Top.todo
      /\ Top = stack[n] /\ n \in 1..n
  BY <1>3 DEF Told, Top
<1>5. InProgress' = [InProgress EXCEPT ![n].todo = @ \ {e}]
  <2>0. stack \in Seq(Frame) /\ stack \in [1..n -> Frame] /\ n \in Nat
    BY TeeTyped, LenProperties
  <2>1. stack' = [stack EXCEPT ![n] = [stack[n] EXCEPT !.todo = stack[n].todo \ {e}]]
    BY <1>1
  <2>2. /\ stack' \in [1..n -> {stack'[k] : k \in 1..n}]
        /\ \A k \in 1..n : k # n => stack'[k] = stack[k]
        /\ stack'[n] = [stack[n] EXCEPT !.todo = stack[n].todo \ {e}]
    BY <2>0, <2>1, <1>4
  <2>3. Len(stack') = n
    BY <2>0, <2>1
  <2>4. stack[n] \in Frame
    BY <2>0, <1>4
  <2>5. Told(stack'[n]) = [Told(stack[n]) EXCEPT !.todo = Told(stack[n]).todo \ {e}]
    <3> DEFINE f == stack[n]
               g == stack'[n]
               less == [hook |-> f.hook, handle |-> f.fp, name |-> f.name, todo |-> f.todo \ {e}]
    <3>1. f \in Frame /\ g = [f EXCEPT !.todo = f.todo \ {e}]
      BY <2>2, <2>4
    <3> HIDE DEF f, g
    <3>2. g.hook = f.hook /\ g.fp = f.fp /\ g.name = f.name /\ g.todo = f.todo \ {e}
      BY <3>1 DEF Frame
    <3>3. Told(g) = less
      BY <3>2 DEF Told
    <3>4. [Told(f) EXCEPT !.todo = Told(f).todo \ {e}] = less
      BY DEF Told
    <3> QED
      BY <3>3, <3>4 DEF f, g
  <2>6. /\ InProgress = [k \in 1..n |-> Told(stack[k])]
        /\ InProgress' = [k \in 1..n |-> Told(stack'[k])]
    BY <2>3 DEF InProgress
  <2> HIDE DEF n
  <2> QED
    BY <1>4, <2>2, <2>5, <2>6
<1>6. Stdio!Heard(e)
  BY <1>1, <1>2, <1>3, <1>4, <1>5 DEF Stdio!Heard, Stdio!Innermost
<1> QED
  BY <1>6

(* exit().                                                                    *)
LEMMA ExitTees ==
    ASSUME TeeInv, Exit \/ ExitInHook
    PROVE  Stdio!Exit
<1>1. UnloadBegin /\ files' = files /\ stack' = <<>>
  BY DEF Exit, ExitInHook, situVars
<1>2. InProgress' = <<>> /\ Streamed' = Streamed
  BY <1>1, NoneTold DEF Streamed
<1> QED
  BY <1>1, <1>2, ExitEnds DEF Stdio!Exit

(* The table is filled before the program runs and emptied after it.          *)
LEMMA LoaderTees ==
    ASSUME TeeInv, Loader
    PROVE  Stdio!Install \/ Stdio!TakeDown \/ UNCHANGED Stdio!teeVars
<1>1. stack = <<>> /\ stack' = stack /\ files' = files
  BY DEF Loader, situVars
<1>2. InProgress = <<>> /\ InProgress' = <<>> /\ Streamed' = Streamed
  BY <1>1, NoneTold DEF Streamed
<1>3. CASE Load
  <2>1. /\ Stage = "starting" /\ Stage' \in {"starting", "running"}
        /\ \A h \in Stdio!Hooks, n \in Name : Listening[h][n] \subseteq Listening'[h][n]
    BY <1>3, LoadInstalls, TeeTyped DEF Stdio!Hooks
  <2>2. Listening' \in Stdio!Audience
    <3>1. \A h, n : Called(h, n)' \subseteq Entry
      BY CalledEntries DEF Called, Visible
    <3> QED
      BY <3>1 DEF Listening, Stdio!Audience, Stdio!Hooks
  <2> QED
    BY <1>2, <2>1, <2>2 DEF Stdio!Install
<1>4. CASE Unload
  <2>1. /\ Stage = "ending" /\ Stage' = "ending"
        /\ Listening' = Listening \/ Listening' = Stdio!Nobody
    BY <1>4, UnloadTakesDown, TeeTyped DEF Stdio!Nobody, Stdio!Hooks
  <2> QED
    BY <1>2, <2>1 DEF Stdio!TakeDown, Stdio!teeVars
<1> QED
  BY <1>3, <1>4 DEF Loader

LEMMA TeeStep ==
    ASSUME SafeEnvelope, TeeInv, [Next]_vars
    PROVE  [Stdio!TeeNext]_(Stdio!teeVars)
<1>1. CASE Calls
  <2>1. PICK c \in Caller :
          \/ \E n \in Name, mode \in {"r", "w"} : FopenUntracked(c, n, mode)
          \/ \E n \in Name : FopenTracked(c, n)
          \/ \E fp \in FPs : Fwrite(c, fp) \/ FcloseUntracked(c, fp) \/ FcloseTracked(c, fp)
    BY <1>1 DEF Calls
  <2>2. ASSUME NEW n \in Name, NEW mode \in {"r", "w"}, FopenUntracked(c, n, mode)
        PROVE  UNCHANGED Stdio!teeVars
    BY <2>2, NothingTold DEF FopenUntracked, fprocVars
  <2>3. ASSUME NEW fp \in FPs, FcloseUntracked(c, fp)
        PROVE  UNCHANGED Stdio!teeVars
    BY <2>3, NothingTold DEF FcloseUntracked, fprocVars
  <2>4. ASSUME NEW n \in Name, FopenTracked(c, n) PROVE Stdio!TeeNext
    BY <2>4, FopenTees DEF Stdio!TeeNext
  <2>5. ASSUME NEW fp \in FPs, Fwrite(c, fp) \/ FcloseTracked(c, fp) PROVE Stdio!TeeNext
    BY <2>5, FwriteTees, FcloseTees DEF Stdio!TeeNext
  <2> QED
    BY <2>1, <2>2, <2>3, <2>4, <2>5
<1>2. CASE Returns
  BY <1>2, ReturnTees, HookTees DEF Returns, Stdio!TeeNext
<1>3. CASE Exit \/ ExitInHook
  BY <1>3, ExitTees DEF Stdio!TeeNext
<1>4. CASE Loader
  BY <1>4, LoaderTees DEF Stdio!TeeNext
<1>5. CASE UNCHANGED vars
  BY <1>5, NothingTold DEF vars, situVars, fprocVars
<1> QED
  BY <1>1, <1>2, <1>3, <1>4, <1>5 DEF Next

LEMMA TeeStart == ASSUME Init PROVE TeeInv /\ Stdio!TeeInit
<1>1. SituInv /\ AllStream /\ CallsAfterLoad
  BY SituInitInv, StreamInit DEF Init, SituInit, CallsAfterLoad
<1>2. Stage = "starting" /\ InProgress = <<>>
  BY NoneTold DEF Init, FprocInit, SituInit, Stage
<1>3. Streamed = {}
  BY DEF Init, SituInit, NoFile, Streamed
<1>4. Listening = Stdio!Nobody
  <2>1. Visible = {}
    BY FprocAssumption DEF Init, FprocInit, NoProc, Visible, Entry
  <2>2. \A h, n : Called(h, n) = {}
    BY <2>1 DEF Called
  <2> QED
    BY <2>2 DEF Listening, Stdio!Nobody, Stdio!Hooks
<1> QED
  BY <1>1, <1>2, <1>3, <1>4 DEF TeeInv, Stdio!TeeInit

(* The interposer of fopen, fwrite and fclose (simplesitu.c:104-171) is a Tee, *)
(* for every nesting of its hooks, reuse of FILE*s and exit.                  *)
THEOREM SituImplementsTee == SafeEnvelope => (Spec => StreamsTeed)
<1> SUFFICES ASSUME SafeEnvelope PROVE Spec => StreamsTeed
  OBVIOUS
<1>1. Init => TeeInv /\ Stdio!TeeInit
  BY TeeStart
<1>2. TeeInv /\ [Next]_vars => TeeInv'
  BY TeeInvStep
<1>3. TeeInv /\ [Next]_vars => [Stdio!TeeNext]_(Stdio!teeVars)
  BY TeeStep
<1> QED
  BY <1>1, <1>2, <1>3, PTL DEF Spec, StreamsTeed, Stdio!TeeSpec

-----------------------------------------------------------------------------
(* What a Tee's processors may rely on.                                       *)

TeeKept == Stdio!TeeTypeOK /\ Stdio!OneName /\ Stdio!InOrder

\* What the lemmas below need of a step that adds a call.
LEMMA DispatchKeeps ==
    ASSUME TeeKept, NEW hook \in Stdio!Hooks, NEW stream \in FPs \cup {NULL}, NEW name \in Name,
           Stdio!Dispatch(hook, stream, name),
           Streamed' \subseteq FPs \X Name, Streamed \subseteq Streamed',
           stream # NULL =>
               /\ <<stream, name>> \in Streamed'
               /\ \A k \in 1..Len(InProgress) : InProgress[k].handle = stream =>
                      InProgress[k].hook = "exec" /\ hook = "exec"
    PROVE  Stdio!TeeTypeOK' /\ Stdio!InOrder'
<1> DEFINE C == [hook : Stdio!Hooks, handle : FPs \cup {NULL}, name : Name, todo : SUBSET Entry]
           e == [hook |-> hook, handle |-> stream, name |-> name, todo |-> Listening[hook][name]]
           n == Len(InProgress)
<1>1. InProgress \in Seq(C) /\ Listening \in Stdio!Audience
  BY DEF TeeKept, Stdio!TeeTypeOK
<1>2. InProgress' = Append(InProgress, e) /\ Listening' = Listening
  BY DEF Stdio!Dispatch
<1>3. e \in C
  <2>1. Listening[hook][name] \subseteq Entry
    BY <1>1 DEF Stdio!Audience
  <2> QED
    BY <2>1
<1>4. e.hook = hook /\ e.handle = stream /\ e.name = name
  OBVIOUS
<1> HIDE DEF C, e
<1>5. /\ InProgress' \in Seq(C) /\ n \in Nat /\ Len(InProgress') = n + 1
      /\ \A k \in 1..n : InProgress'[k] = InProgress[k]
      /\ InProgress'[n + 1] = e
  BY <1>1, <1>2, <1>3, AppendProperties, LenProperties
<1>6. Stdio!TeeTypeOK'
  BY <1>1, <1>2, <1>5 DEF Stdio!TeeTypeOK, C
<1>7. Stdio!InOrder'
  <2> SUFFICES ASSUME NEW k \in 1..(n + 1), InProgress'[k].handle # NULL
               PROVE  /\ <<InProgress'[k].handle, InProgress'[k].name>> \in Streamed'
                      /\ \A j \in 1..(k - 1) : InProgress'[j].handle = InProgress'[k].handle =>
                             InProgress'[j].hook = "exec" /\ InProgress'[k].hook = "exec"
    BY <1>5 DEF Stdio!InOrder
  <2> HIDE DEF n
  <2>1. CASE k = n + 1
    BY <1>4, <1>5, <2>1 DEF n
  <2>2. CASE k # n + 1
    <3>1. k \in 1..n /\ \A j \in 1..(k - 1) : j \in 1..n
      BY <1>5, <2>2
    <3> QED
      BY <1>5, <3>1 DEF TeeKept, Stdio!InOrder, n
  <2> QED
    BY <2>1, <2>2
<1> QED
  BY <1>6, <1>7

LEMMA SpeakingKeeps ==
    ASSUME TeeKept, NEW stream \in FPs, NEW name \in Name,
           Stdio!Announce(stream, name) \/ Stdio!Stream(stream, name) \/ Stdio!Finish(stream, name)
    PROVE  TeeKept'
<1>0. /\ Streamed \subseteq FPs \X Name /\ NULL \notin FPs
      /\ "file" \in Stdio!Hooks /\ "exec" \in Stdio!Hooks /\ "finish" \in Stdio!Hooks
      /\ \A hook \in Stdio!Hooks \ {"file", "finish"} : hook = "exec"
  BY SimpleSituAssumption DEF TeeKept, Stdio!TeeTypeOK, Stdio!Hooks
<1>1. CASE Stdio!Announce(stream, name)
  <2>1. /\ Streamed' = Streamed \cup {<<stream, name>>} /\ Stdio!Dispatch("file", stream, name)
        /\ \A m \in Name : <<stream, m>> \notin Streamed
    BY <1>1 DEF Stdio!Announce
  <2>2. \A k \in 1..Len(InProgress) : InProgress[k].handle # stream
    <3> SUFFICES ASSUME NEW k \in 1..Len(InProgress), InProgress[k].handle = stream PROVE FALSE
      OBVIOUS
    <3>1. <<stream, InProgress[k].name>> \in Streamed
      BY <1>0 DEF TeeKept, Stdio!InOrder
    <3>2. InProgress[k].name \in Name
      BY <1>0, <3>1
    <3> QED
      BY <2>1, <3>1, <3>2
  <2>3. /\ Streamed' \subseteq FPs \X Name /\ Streamed \subseteq Streamed'
        /\ <<stream, name>> \in Streamed'
    BY <1>0, <2>1
  <2>4. Stdio!TeeTypeOK' /\ Stdio!InOrder'
    BY <1>0, <2>1, <2>2, <2>3, DispatchKeeps
  <2>5. Stdio!OneName'
    BY <2>1 DEF TeeKept, Stdio!OneName
  <2> QED
    BY <2>4, <2>5 DEF TeeKept
<1>2. CASE Stdio!Stream(stream, name)
  <2>1. /\ Streamed' = Streamed /\ Stdio!Dispatch("exec", stream, name)
        /\ <<stream, name>> \in Streamed /\ Stdio!Quiet(stream, {"file", "finish"})
    BY <1>2 DEF Stdio!Stream
  <2>2. ASSUME NEW k \in 1..Len(InProgress), InProgress[k].handle = stream
        PROVE  InProgress[k].hook = "exec"
    <3>1. InProgress[k].hook \in Stdio!Hooks
      <4> DEFINE C == [hook : Stdio!Hooks, handle : FPs \cup {NULL}, name : Name, todo : SUBSET Entry]
      <4>1. InProgress \in Seq(C)
        BY DEF TeeKept, Stdio!TeeTypeOK
      <4> HIDE DEF C
      <4>2. InProgress[k] \in C
        BY <4>1, ElementOfSeq
      <4> QED
        BY <4>2 DEF C
    <3> QED
      BY <1>0, <2>1, <2>2, <3>1 DEF Stdio!Quiet
  <2>3. Stdio!TeeTypeOK' /\ Stdio!InOrder'
    BY <1>0, <2>1, <2>2, DispatchKeeps
  <2>4. Stdio!OneName'
    BY <2>1 DEF TeeKept, Stdio!OneName
  <2> QED
    BY <2>3, <2>4 DEF TeeKept
<1>3. CASE Stdio!Finish(stream, name)
  <2>1. /\ Streamed' = Streamed /\ Stdio!Dispatch("finish", stream, name)
        /\ <<stream, name>> \in Streamed /\ Stdio!Quiet(stream, Stdio!Hooks)
    BY <1>3 DEF Stdio!Finish
  <2>2. ASSUME NEW k \in 1..Len(InProgress), InProgress[k].handle = stream
        PROVE  FALSE
    <3> DEFINE C == [hook : Stdio!Hooks, handle : FPs \cup {NULL}, name : Name, todo : SUBSET Entry]
    <3>1. InProgress \in Seq(C)
      BY DEF TeeKept, Stdio!TeeTypeOK
    <3> HIDE DEF C
    <3>2. InProgress[k] \in C
      BY <3>1, ElementOfSeq
    <3>3. InProgress[k].hook \in Stdio!Hooks
      BY <3>2 DEF C
    <3> QED
      BY <2>1, <2>2, <3>3 DEF Stdio!Quiet
  <2>3. Stdio!TeeTypeOK' /\ Stdio!InOrder'
    BY <1>0, <2>1, <2>2, DispatchKeeps
  <2>4. Stdio!OneName'
    BY <2>1 DEF TeeKept, Stdio!OneName
  <2> QED
    BY <2>3, <2>4 DEF TeeKept
<1> QED
  BY <1>1, <1>2, <1>3

LEMMA FailureKeeps ==
    ASSUME TeeKept, NEW name \in Name, Stdio!AnnounceFailed(name)
    PROVE  TeeKept'
<1>1. Streamed' = Streamed /\ Stdio!Dispatch("file", NULL, name)
  BY DEF Stdio!AnnounceFailed
<1>2. Streamed \subseteq FPs \X Name /\ "file" \in Stdio!Hooks
  BY DEF TeeKept, Stdio!TeeTypeOK, Stdio!Hooks
<1>3. Stdio!TeeTypeOK' /\ Stdio!InOrder'
  BY <1>1, <1>2, DispatchKeeps
<1>4. Stdio!OneName'
  BY <1>1 DEF TeeKept, Stdio!OneName
<1> QED
  BY <1>3, <1>4 DEF TeeKept

LEMMA HeardKeeps == ASSUME TeeKept, NEW p \in Entry, Stdio!Heard(p) PROVE TeeKept'
<1> DEFINE C == [hook : Stdio!Hooks, handle : FPs \cup {NULL}, name : Name, todo : SUBSET Entry]
           n == Len(InProgress)
           e == [InProgress[n] EXCEPT !.todo = InProgress[n].todo \ {p}]
<1>1. /\ InProgress' = [InProgress EXCEPT ![n] = e] /\ InProgress # <<>>
      /\ Streamed' = Streamed /\ Listening' = Listening
  BY DEF Stdio!Heard, Stdio!Innermost
<1>2. InProgress \in Seq(C)
  BY DEF TeeKept, Stdio!TeeTypeOK
<1> HIDE DEF C
<1>3. n \in Nat \ {0} /\ n \in 1..n /\ InProgress \in [1..n -> C]
  BY <1>1, <1>2, EmptySeq, LenProperties
<1>4. InProgress[n] \in C
  BY <1>3
<1>5. /\ e \in C /\ e.hook = InProgress[n].hook /\ e.handle = InProgress[n].handle
      /\ e.name = InProgress[n].name
  BY <1>4 DEF C
<1> HIDE DEF e
<1>6. InProgress' \in Seq(C) /\ Len(InProgress') = n
  BY <1>1, <1>2, <1>3, <1>5
<1>7. \A k \in 1..n : /\ InProgress'[k].hook = InProgress[k].hook
                      /\ InProgress'[k].handle = InProgress[k].handle
                      /\ InProgress'[k].name = InProgress[k].name
  BY <1>1, <1>3, <1>5
<1>8. Stdio!TeeTypeOK' /\ Stdio!OneName'
  BY <1>1, <1>6 DEF TeeKept, Stdio!TeeTypeOK, Stdio!OneName, C
<1>9. Stdio!InOrder'
  <2> SUFFICES ASSUME NEW k \in 1..n, InProgress[k].handle # NULL
               PROVE  /\ <<InProgress[k].handle, InProgress[k].name>> \in Streamed
                      /\ \A j \in 1..(k - 1) : InProgress[j].handle = InProgress[k].handle =>
                             InProgress[j].hook = "exec" /\ InProgress[k].hook = "exec"
    <3>1. \A k \in 1..n : \A j \in 1..(k - 1) : j \in 1..n
      BY <1>3
    <3> HIDE DEF n
    <3> QED
      BY <1>1, <1>6, <1>7, <3>1 DEF Stdio!InOrder
  <2> QED
    BY DEF TeeKept, Stdio!InOrder
<1> QED
  BY <1>8, <1>9 DEF TeeKept

LEMMA LastDropped ==
    ASSUME NEW C, NEW q \in Seq(C), NEW n \in Nat, Len(q) = n + 1
    PROVE  /\ SubSeq(q, 1, n) \in Seq(C) /\ Len(SubSeq(q, 1, n)) = n
           /\ \A k \in 1..n : SubSeq(q, 1, n)[k] = q[k]
<1>1. n \in Int /\ 1 \in Int /\ \A k \in 1..n : q[k] \in C
  OBVIOUS
<1>2. /\ SubSeq(q, 1, n) \in Seq(C)
      /\ Len(SubSeq(q, 1, n)) = IF 1 <= n THEN n - 1 + 1 ELSE 0
      /\ \A k \in 1..(n - 1 + 1) : SubSeq(q, 1, n)[k] = q[1 + k - 1]
  BY <1>1, SubSeqProperties
<1>3. Len(SubSeq(q, 1, n)) = n
  BY <1>2
<1>4. n - 1 + 1 = n /\ \A k \in 1..n : 1 + k - 1 = k
  OBVIOUS
<1> QED
  BY <1>2, <1>3, <1>4

LEMMA ReturnKeeps == ASSUME TeeKept, Stdio!Return PROVE TeeKept'
<1> DEFINE C == [hook : Stdio!Hooks, handle : FPs \cup {NULL}, name : Name, todo : SUBSET Entry]
           n == Len(InProgress)
           top == InProgress[n]
<1>1. /\ InProgress # <<>> /\ InProgress' = SubSeq(InProgress, 1, n - 1) /\ Listening' = Listening
      /\ Streamed' = IF top.hook = "finish" THEN Streamed \ {<<top.handle, top.name>>}
                     ELSE Streamed
  BY DEF Stdio!Return, Stdio!Innermost
<1>2. InProgress \in Seq(C)
  BY DEF TeeKept, Stdio!TeeTypeOK
<1> HIDE DEF C
<1>3. n \in Nat \ {0} /\ n \in 1..n
  BY <1>1, <1>2, EmptySeq, LenProperties
<1>4. /\ InProgress' \in Seq(C) /\ Len(InProgress') = n - 1
      /\ \A k \in 1..(n - 1) : InProgress'[k] = InProgress[k]
  <2> DEFINE m == n - 1
  <2>1. m \in Nat /\ n = m + 1
    BY <1>3
  <2> HIDE DEF m
  <2>2. /\ SubSeq(InProgress, 1, m) \in Seq(C) /\ Len(SubSeq(InProgress, 1, m)) = m
        /\ \A k \in 1..m : SubSeq(InProgress, 1, m)[k] = InProgress[k]
    BY <1>2, <2>1, LastDropped
  <2> QED
    BY <1>1, <2>2 DEF m
<1>5. Stdio!TeeTypeOK' /\ Stdio!OneName'
  BY <1>1, <1>4 DEF TeeKept, Stdio!TeeTypeOK, Stdio!OneName, C
<1>6. ASSUME NEW k \in 1..(n - 1), InProgress[k].handle # NULL
      PROVE  /\ <<InProgress[k].handle, InProgress[k].name>> \in Streamed'
             /\ \A j \in 1..(k - 1) : InProgress[j].handle = InProgress[k].handle =>
                    InProgress[j].hook = "exec" /\ InProgress[k].hook = "exec"
  <2>1. k \in 1..n
    BY <1>3
  <2>2. /\ <<InProgress[k].handle, InProgress[k].name>> \in Streamed
        /\ \A j \in 1..(k - 1) : InProgress[j].handle = InProgress[k].handle =>
               InProgress[j].hook = "exec" /\ InProgress[k].hook = "exec"
    BY <1>6, <2>1 DEF TeeKept, Stdio!InOrder
  <2>3. CASE top.hook = "finish"
    <3>1. InProgress[k].handle # top.handle
      BY <1>3, <1>6, <2>3 DEF TeeKept, Stdio!InOrder
    <3> QED
      BY <1>1, <2>2, <3>1
  <2>4. CASE top.hook # "finish"
    BY <1>1, <2>2, <2>4
  <2> QED
    BY <2>3, <2>4
<1>7. Stdio!InOrder'
  <2>1. \A k \in 1..(n - 1) : \A j \in 1..(k - 1) : j \in 1..(n - 1)
    BY <1>3
  <2> HIDE DEF n
  <2> QED
    BY <1>4, <1>6, <2>1 DEF Stdio!InOrder
<1> QED
  BY <1>5, <1>7 DEF TeeKept

\* Nobody is being called.
LEMMA SilenceKeeps ==
    ASSUME TeeKept, InProgress' = <<>>, Streamed' = Streamed, Listening' \in Stdio!Audience
    PROVE  TeeKept'
<1> DEFINE C == [hook : Stdio!Hooks, handle : FPs \cup {NULL}, name : Name, todo : SUBSET Entry]
<1>1. InProgress' \in Seq(C) /\ Len(InProgress') = 0
  BY EmptySeq
<1>2. 1..Len(InProgress') = {}
  BY <1>1
<1>3. Stdio!TeeTypeOK' /\ Stdio!OneName'
  BY <1>1 DEF TeeKept, Stdio!TeeTypeOK, Stdio!OneName
<1>4. Stdio!InOrder'
  BY <1>2 DEF Stdio!InOrder
<1> QED
  BY <1>3, <1>4 DEF TeeKept

LEMMA NextKeeps == ASSUME TeeKept, [Stdio!TeeNext]_(Stdio!teeVars) PROVE TeeKept'
<1>1. Stdio!Nobody \in Stdio!Audience /\ Listening \in Stdio!Audience
  BY DEF TeeKept, Stdio!TeeTypeOK, Stdio!Nobody, Stdio!Audience
<1>2. CASE Stdio!Install \/ Stdio!Exit \/ Stdio!TakeDown
  BY <1>1, <1>2, SilenceKeeps DEF Stdio!Install, Stdio!Exit, Stdio!TakeDown
<1>3. CASE UNCHANGED Stdio!teeVars
  BY <1>3 DEF Stdio!teeVars, TeeKept, Stdio!TeeTypeOK, Stdio!OneName, Stdio!InOrder
<1> QED
  BY <1>2, <1>3, HeardKeeps, ReturnKeeps, SpeakingKeeps, FailureKeeps DEF Stdio!TeeNext

(* What a processor may rely on about a Tee, and so of fopen, fwrite and      *)
(* fclose inside SafeEnvelope: a FILE* goes by one name from its file() to    *)
(* its finish(), every call in progress is about a stream that is on, by that *)
(* name, and the only calls about a stream that nest in each other are        *)
(* exec's (simplesitu.c:131, 144, 162).                                       *)
THEOREM StreamsInOrder == SafeEnvelope => (Spec => [](Stdio!OneName /\ Stdio!InOrder))
<1> SUFFICES ASSUME SafeEnvelope PROVE Spec => [](Stdio!OneName /\ Stdio!InOrder)
  OBVIOUS
<1>1. Stdio!TeeInit => TeeKept
  <2> SUFFICES ASSUME Stdio!TeeInit PROVE TeeKept
    OBVIOUS
  <2>1. Streamed = {} /\ InProgress = <<>> /\ Listening = Stdio!Nobody
    BY DEF Stdio!TeeInit
  <2>2. 1..Len(InProgress) = {}
    BY <2>1
  <2>3. Stdio!Nobody \in Stdio!Audience
    BY DEF Stdio!Nobody, Stdio!Audience
  <2>4. Stdio!TeeTypeOK
    BY <2>1, <2>3 DEF Stdio!TeeTypeOK
  <2> QED
    BY <2>1, <2>2, <2>4 DEF TeeKept, Stdio!OneName, Stdio!InOrder
<1>2. TeeKept /\ [Stdio!TeeNext]_(Stdio!teeVars) => TeeKept'
  BY NextKeeps
<1>3. TeeKept => Stdio!OneName /\ Stdio!InOrder
  BY DEF TeeKept
<1>4. Spec => StreamsTeed
  BY SituImplementsTee
<1> QED
  BY <1>1, <1>2, <1>3, <1>4, PTL DEF StreamsTeed, Stdio!TeeSpec

=============================================================================
