-------------------------- MODULE PosixSituProofs --------------------------
(* The POSIX interposer, for every table size, every number of descriptors,  *)
(* every environment and every depth of nesting.                            *)
EXTENDS PosixSitu, FprocProofs, SequenceTheorems

(* No write has failed and nobody has ended the program. *)
NoFailure == "error" \notin env.faults /\ phase \in {"loading", "running"}

SlotsWhole == \A s \in Slot : posix_files[s].fd = 0 <=> posix_files[s].name = NULL

OwnedOpen == \A fd \in FD : owner[fd] # NULL => kernel[fd] # NULL

(* What a call in progress, at any depth, can rely on: its slot and its       *)
(* descriptor stay its own; only a write of descriptor 0 has no name, and no *)
(* hook sees that one.                                                      *)
FrameOK(f) ==
    /\ posix_files[f.slot].fd = f.fd /\ posix_files[f.slot].name = f.name
    /\ kernel[f.fd] # NULL
    /\ f.name = NULL => f.todo = {}
    /\ Undisturbed => f.name # NULL /\ f.name = kernel[f.fd]

(* The counts of its descriptor: nothing is taken before the hooks are done. *)
FrameBytes(f) ==
    /\ bytes[f.fd].taken = bytes[f.fd].told + f.written
    /\ f.written <= f.sz
    /\ f.todo # {} => f.written = 0
    /\ f.hook # "exec" => f.sz = 0
    /\ NoFailure => bytes[f.fd].streamed = bytes[f.fd].told + f.sz

(* Calls nest inside hooks, and no two are about the same descriptor. *)
OuterInHook == \A k \in 1..Len(stack) : k < Len(stack) => stack[k].todo # {}

FramesApart == \A k, m \in 1..Len(stack) : stack[k].fd = stack[m].fd => k = m

(* The counts of the other descriptors. *)
RestBytes ==
    \A fd \in FD : AtRest(fd) =>
        /\ bytes[fd].told = bytes[fd].taken
        /\ NoFailure => bytes[fd].streamed = bytes[fd].taken

PosixInv ==
    /\ FprocInv
    /\ PosixTypeOK
    /\ SlotsWhole
    /\ OwnedOpen
    /\ \A k \in 1..Len(stack) : FrameOK(stack[k])
    /\ \A k \in 1..Len(stack) : FrameBytes(stack[k])
    /\ OuterInHook
    /\ FramesApart
    /\ RestBytes
    /\ Undisturbed => FdTableIsMap

-----------------------------------------------------------------------------
(* The stack. *)

LEMMA PushFacts ==
    ASSUME stack \in Seq(Frame), NEW f \in Frame, Push(f)
    PROVE  /\ stack' \in Seq(Frame)
           /\ Len(stack) \in Nat /\ Len(stack') = Len(stack) + 1
           /\ \A k \in 1..Len(stack) : stack'[k] = stack[k]
           /\ stack'[Len(stack) + 1] = f
BY DEF Push

LEMMA TopFacts ==
    ASSUME stack \in Seq(Frame), stack # <<>>
    PROVE  /\ Len(stack) \in Nat \ {0} /\ Len(stack) \in 1..Len(stack)
           /\ Top = stack[Len(stack)] /\ Top \in Frame
BY DEF Top

LEMMA PopFacts ==
    ASSUME stack \in Seq(Frame), stack # <<>>, Pop
    PROVE  /\ stack' \in Seq(Frame)
           /\ Len(stack) \in Nat \ {0} /\ Len(stack') = Len(stack) - 1
           /\ \A k \in 1..(Len(stack) - 1) : stack'[k] = stack[k]
<1>1. Len(stack) \in Nat \ {0}
  BY TopFacts
<1> DEFINE n == Len(stack) - 1
<1>2. n \in Int /\ 1 \in Int /\ n \in Nat /\ \A k \in 1..n : stack[k] \in Frame
  BY <1>1
<1> HIDE DEF n
<1>3. /\ SubSeq(stack, 1, n) \in Seq(Frame)
      /\ Len(SubSeq(stack, 1, n)) = IF 1 <= n THEN n - 1 + 1 ELSE 0
      /\ \A k \in 1..(n - 1 + 1) : SubSeq(stack, 1, n)[k] = stack[1 + k - 1]
  BY <1>2, SubSeqProperties
<1>4. stack' = SubSeq(stack, 1, n)
  BY DEF Pop, n
<1>5. Len(stack') = n
  BY <1>2, <1>3, <1>4, Z3
<1>6. \A k \in 1..n : stack'[k] = stack[k]
  BY <1>2, <1>3, <1>4
<1>7. stack' \in Seq(Frame)
  BY <1>3, <1>4
<1> QED
  BY <1>1, <1>5, <1>6, <1>7 DEF n

(* The innermost frame is replaced by one that keeps its call. *)
LEMMA ReplaceFacts ==
    ASSUME stack \in Seq(Frame), stack # <<>>, NEW f \in Frame,
           stack' = [stack EXCEPT ![Len(stack)] = f]
    PROVE  /\ stack' \in Seq(Frame) /\ Len(stack') = Len(stack)
           /\ stack'[Len(stack)] = f
           /\ \A k \in 1..Len(stack) : k # Len(stack) => stack'[k] = stack[k]
<1>1. Len(stack) \in Nat \ {0}
  OBVIOUS
<1> QED
  BY <1>1

(* A call made inside a hook keeps the order of the stack, and a call about    *)
(* another descriptor keeps the calls apart.                                *)
LEMMA PushKeeps ==
    ASSUME OuterInHook, FramesApart, Len(stack) \in Nat,
           \A k \in 1..Len(stack) : stack[k].todo # {},
           \A k \in 1..Len(stack) : stack'[k] = stack[k],
           Len(stack') = Len(stack) + 1,
           \A k \in 1..Len(stack) : stack[k].fd # stack'[Len(stack) + 1].fd
    PROVE  OuterInHook' /\ FramesApart'
<1>1. \A k \in 1..Len(stack') : k \in 1..Len(stack) \/ k = Len(stack) + 1
  OBVIOUS
<1>2. OuterInHook'
  BY <1>1 DEF OuterInHook
<1>3. ASSUME NEW k \in 1..Len(stack'), NEW m \in 1..Len(stack'),
             stack'[k].fd = stack'[m].fd
      PROVE  k = m
  <2>1. CASE k \in 1..Len(stack) /\ m \in 1..Len(stack)
    BY <1>3, <2>1 DEF FramesApart
  <2> QED
    BY <1>1, <1>3, <2>1
<1> QED
  BY <1>2, <1>3 DEF FramesApart

(* The interposed calls leave the processor table alone. *)
LEMMA TableUnchanged == ASSUME FprocInv, UNCHANGED fprocVars PROVE FprocInv'
BY DEF fprocVars, FprocInv, FprocTypeOK, EntryHeld, PrefixInstalled,
       RestInstalled, RefsOwned, Progress, EntryOf, Good, Opens, Truncated

(* A scan calls entries of the table, and none at all for no name. *)
LEMMA CalledFacts ==
    ASSUME NEW h, NEW n
    PROVE  Called(h, n) \subseteq Entry /\ (n = NULL => Called(h, n) = {})
<1>1. Called(h, n) \subseteq Entry
  BY DEF Called, Visible
<1>2. ASSUME n = NULL, NEW e \in Called(h, n) PROVE FALSE
  <2>1. <<tlibs[e].pattern, n>> \in Pattern \X Name
    BY <1>2, FprocAssumption DEF Called, patternmatch
  <2> QED
    BY <1>2, <2>1, FprocAssumption
<1> QED
  BY <1>1, <1>2

(* Whoever calls does so from inside a hook of the innermost call. *)
LEMMA ActiveFacts ==
    ASSUME PosixInv, NEW c \in Caller, Active(c)
    PROVE  /\ \A k \in 1..Len(stack) : stack[k].todo # {} /\ stack[k] \in Frame
           /\ c # NULL
<1>1. stack \in Seq(Frame)
  BY DEF PosixInv, PosixTypeOK
<1>2. ASSUME NEW k \in 1..Len(stack) PROVE stack[k].todo # {} /\ stack[k] \in Frame
  <2>1. stack # <<>> /\ Len(stack) \in Nat
    BY <1>1, <1>2
  <2>2. Top.todo # {}
    BY <2>1 DEF Active, InHook
  <2> QED
    BY <1>1, <1>2, <2>1, <2>2 DEF PosixInv, OuterInHook, Top
<1> QED
  BY <1>2, PosixSituAssumption

(* What is left of the stack when the innermost call returns. *)
PopsTop ==
    /\ stack' \in Seq(Frame) /\ Top \in Frame /\ FrameOK(Top) /\ FrameBytes(Top)
    /\ \A k \in 1..Len(stack) : stack[k] = Top \/ k \in 1..Len(stack')
    /\ \A k \in 1..Len(stack') :
          /\ k \in 1..Len(stack) /\ stack'[k] = stack[k] /\ stack[k] \in Frame
          /\ FrameOK(stack[k]) /\ FrameBytes(stack[k])
          /\ stack[k].fd # Top.fd
    /\ OuterInHook' /\ FramesApart'

LEMMA PopKeeps == ASSUME PosixInv, stack # <<>>, Pop PROVE PopsTop
<1>0. stack \in Seq(Frame)
  BY DEF PosixInv, PosixTypeOK
<1>1. /\ stack' \in Seq(Frame)
      /\ Len(stack) \in Nat \ {0} /\ Len(stack') = Len(stack) - 1
      /\ \A k \in 1..(Len(stack) - 1) : stack'[k] = stack[k]
      /\ Top = stack[Len(stack)] /\ Top \in Frame
  BY <1>0, PopFacts, TopFacts
<1>2. FrameOK(Top) /\ FrameBytes(Top)
  BY <1>1 DEF PosixInv
<1>3. \A k \in 1..Len(stack) : stack[k] = Top \/ k \in 1..Len(stack')
  BY <1>1
<1>4. ASSUME NEW k \in 1..Len(stack')
      PROVE  /\ k \in 1..Len(stack) /\ stack'[k] = stack[k] /\ stack[k] \in Frame
             /\ FrameOK(stack[k]) /\ FrameBytes(stack[k])
             /\ stack[k].fd # Top.fd
  <2>1. k \in 1..Len(stack) /\ k # Len(stack) /\ stack'[k] = stack[k]
    BY <1>1, <1>4
  <2>2. stack[k].fd # Top.fd
    BY <1>1, <2>1 DEF PosixInv, FramesApart
  <2> QED
    BY <1>0, <2>1, <2>2 DEF PosixInv
<1>5. OuterInHook' /\ FramesApart'
  BY <1>1 DEF PosixInv, OuterInHook, FramesApart
<1> QED
  BY <1>1, <1>2, <1>3, <1>4, <1>5 DEF PopsTop

(* An open or a close leaves the counts of its descriptor as they are. *)
LEMMA RestAfterPop ==
    ASSUME PosixInv, PopsTop, Top.hook # "exec", bytes' = bytes, NoFailure' = NoFailure
    PROVE  RestBytes'
<1>1. Top.fd \in FD /\ Top.written \in Nat /\ Top.sz = 0 /\ FrameBytes(Top)
  BY DEF PopsTop, FrameBytes, Frame
<1>2. /\ bytes[Top.fd].told = bytes[Top.fd].taken
      /\ NoFailure => bytes[Top.fd].streamed = bytes[Top.fd].taken
  <2>1. Top.written = 0
    BY <1>1 DEF FrameBytes
  <2>2. bytes[Top.fd].told \in Nat
    BY <1>1 DEF PosixInv, PosixTypeOK
  <2> QED
    BY <1>1, <2>1, <2>2 DEF FrameBytes
<1>3. \A q \in FD \ {Top.fd} : AtRest(q)' => AtRest(q)
  BY DEF PopsTop, AtRest
<1> QED
  BY <1>2, <1>3 DEF PosixInv, RestBytes

-----------------------------------------------------------------------------
(* open. *)

(* A fresh descriptor is in no frame and, undisturbed, in no slot. *)
LEMMA KernelOpenFacts ==
    ASSUME PosixInv, NEW c \in Caller, NEW n \in Name, NEW fd \in FD, c # NULL,
           KernelOpen(c, fd, n)
    PROVE  /\ n # NULL
           /\ kernel[fd] = NULL
           /\ kernel' \in [FD -> Name \cup {NULL}] /\ owner' \in [FD -> Caller \cup {NULL}]
           /\ bytes' \in [FD -> [streamed : Nat, taken : Nat, told : Nat]]
           /\ kernel'[fd] = n /\ bytes'[fd] = NoBytes
           /\ \A q \in FD \ {fd} : /\ kernel'[q] = kernel[q] /\ owner'[q] = owner[q]
                                    /\ bytes'[q] = bytes[q]
           /\ OwnedOpen'
           /\ \A k \in 1..Len(stack) : stack[k].fd # fd
           /\ Undisturbed => \A s \in Slot : posix_files[s].fd = fd => fd = 0
<1>1. n # NULL
  BY FprocAssumption
<1>2. /\ kernel[fd] = NULL
      /\ kernel' = [kernel EXCEPT ![fd] = n] /\ owner' = [owner EXCEPT ![fd] = c]
      /\ bytes' = [bytes EXCEPT ![fd] = NoBytes]
  BY DEF KernelOpen, Lowest
<1>3. NoBytes \in [streamed : Nat, taken : Nat, told : Nat]
  BY DEF NoBytes
<1>4. /\ kernel' \in [FD -> Name \cup {NULL}] /\ owner' \in [FD -> Caller \cup {NULL}]
      /\ bytes' \in [FD -> [streamed : Nat, taken : Nat, told : Nat]]
  BY <1>2, <1>3 DEF PosixInv, PosixTypeOK
<1>5. /\ kernel'[fd] = n /\ bytes'[fd] = NoBytes
      /\ \A q \in FD \ {fd} : /\ kernel'[q] = kernel[q] /\ owner'[q] = owner[q]
                               /\ bytes'[q] = bytes[q]
  BY <1>2 DEF PosixInv, PosixTypeOK
<1>6. OwnedOpen'
  BY <1>1, <1>5 DEF PosixInv, OwnedOpen
<1>7. \A k \in 1..Len(stack) : stack[k].fd # fd
  BY <1>2 DEF PosixInv, FrameOK
<1>8. ASSUME Undisturbed, NEW s \in Slot, posix_files[s].fd = fd, fd # 0 PROVE FALSE
  <2>1. kernel[fd] = posix_files[s].name
    BY <1>8 DEF PosixInv, FdTableIsMap
  <2> QED
    BY <1>2, <1>8, <2>1 DEF PosixInv, SlotsWhole
<1> QED
  BY <1>1, <1>2, <1>4, <1>5, <1>6, <1>7, <1>8

LEMMA OpenUntrackedStep ==
    ASSUME PosixInv, NEW c \in Caller, NEW n \in Name, OpenUntracked(c, n)
    PROVE  PosixInv'
<1>1. PICK fd \in FD : KernelOpen(c, fd, n)
  BY DEF OpenUntracked
<1>2. /\ Active(c) /\ UNCHANGED fprocVars /\ env' = env
      /\ posix_files' = posix_files /\ stack' = stack
  BY DEF OpenUntracked
<1>3. FprocInv' /\ phase' = phase
  BY <1>2, TableUnchanged DEF PosixInv, fprocVars
<1>4. c # NULL /\ \A k \in 1..Len(stack) : stack[k] \in Frame
  BY <1>2, ActiveFacts
<1>5. /\ kernel'[fd] = n /\ n # NULL /\ bytes'[fd] = NoBytes
      /\ kernel' \in [FD -> Name \cup {NULL}] /\ owner' \in [FD -> Caller \cup {NULL}]
      /\ bytes' \in [FD -> [streamed : Nat, taken : Nat, told : Nat]]
      /\ \A q \in FD \ {fd} : /\ kernel'[q] = kernel[q] /\ bytes'[q] = bytes[q]
      /\ OwnedOpen'
      /\ \A k \in 1..Len(stack) : stack[k].fd # fd
      /\ Undisturbed => \A s \in Slot : posix_files[s].fd = fd => fd = 0
  BY <1>1, <1>4, KernelOpenFacts
<1>6. PosixTypeOK'
  BY <1>2, <1>3, <1>5 DEF PosixInv, PosixTypeOK, FprocInv
<1>7. ASSUME NEW k \in 1..Len(stack) PROVE FrameOK(stack[k])' /\ FrameBytes(stack[k])'
  <2>1. stack[k].fd \in FD \ {fd} /\ FrameOK(stack[k]) /\ FrameBytes(stack[k])
    BY <1>4, <1>5 DEF PosixInv, Frame
  <2> QED
    BY <1>2, <1>3, <1>5, <2>1 DEF FrameOK, FrameBytes, Undisturbed, NoFailure
<1>8. RestBytes'
  BY <1>2, <1>3, <1>5 DEF PosixInv, RestBytes, AtRest, NoFailure, NoBytes
<1>9. (Undisturbed => FdTableIsMap)'
  <2> SUFFICES ASSUME Undisturbed, NEW s \in Slot, posix_files[s].fd # 0
               PROVE  /\ kernel'[posix_files[s].fd] = posix_files[s].name
                      /\ \A t \in Slot : posix_files[t].fd = posix_files[s].fd => t = s
    BY <1>2 DEF Undisturbed, FdTableIsMap
  <2>1. posix_files[s].fd \in FD \ {fd}
    BY <1>5 DEF PosixInv, PosixTypeOK
  <2> QED
    BY <1>5, <2>1 DEF PosixInv, FdTableIsMap
<1> QED
  BY <1>2, <1>3, <1>5, <1>6, <1>7, <1>8, <1>9
  DEF PosixInv, SlotsWhole, OuterInHook, FramesApart

LEMMA OpenTrackedStep ==
    ASSUME PosixInv, NEW c \in Caller, NEW n \in Name, OpenTracked(c, n)
    PROVE  PosixInv'
<1>1. PICK fd \in FD \ {0}, s \in Slot :
        /\ posix_files[s].fd = 0
        /\ KernelOpen(c, fd, n)
        /\ posix_files' = [posix_files EXCEPT ![s] = [name |-> n, fd |-> fd]]
        /\ Push(Call("file", s, n, fd, 0))
  BY DEF OpenTracked, Finds
<1>2. Active(c) /\ UNCHANGED fprocVars /\ env' = env
  BY DEF OpenTracked
<1>3. FprocInv' /\ phase' = phase
  BY <1>2, TableUnchanged DEF PosixInv, fprocVars
<1>4. c # NULL /\ \A k \in 1..Len(stack) : stack[k] \in Frame /\ stack[k].todo # {}
  BY <1>2, ActiveFacts
<1>5. /\ kernel'[fd] = n /\ n # NULL /\ bytes'[fd] = NoBytes
      /\ kernel' \in [FD -> Name \cup {NULL}] /\ owner' \in [FD -> Caller \cup {NULL}]
      /\ bytes' \in [FD -> [streamed : Nat, taken : Nat, told : Nat]]
      /\ \A q \in FD \ {fd} : /\ kernel'[q] = kernel[q] /\ bytes'[q] = bytes[q]
      /\ OwnedOpen'
      /\ \A k \in 1..Len(stack) : stack[k].fd # fd
      /\ Undisturbed => \A t \in Slot : posix_files[t].fd # fd
  BY <1>1, <1>4, KernelOpenFacts
<1> DEFINE f == [hook |-> "file", slot |-> s, name |-> n, fd |-> fd,
                 todo |-> Called("file", n), sz |-> 0, written |-> 0]
<1>6. f \in Frame /\ f = Call("file", s, n, fd, 0)
  BY CalledFacts DEF Frame, Dispatched, Call
<1>7. /\ stack' \in Seq(Frame)
      /\ Len(stack) \in Nat /\ Len(stack') = Len(stack) + 1
      /\ \A k \in 1..Len(stack) : stack'[k] = stack[k]
      /\ stack'[Len(stack) + 1] = f
  BY <1>1, <1>6, PushFacts DEF PosixInv, PosixTypeOK
<1>8. /\ posix_files'[s] = [name |-> n, fd |-> fd]
      /\ \A t \in Slot \ {s} : posix_files'[t] = posix_files[t]
      /\ posix_files' \in [Slot -> [name : Name \cup {NULL}, fd : FD]]
  BY <1>1 DEF PosixInv, PosixTypeOK
<1>9. PosixTypeOK'
  BY <1>2, <1>3, <1>5, <1>7, <1>8 DEF PosixInv, PosixTypeOK, FprocInv
<1>10. SlotsWhole'
  <2>1. posix_files'[s].fd = fd /\ posix_files'[s].name = n /\ fd # 0 /\ n # NULL
    BY <1>5, <1>8
  <2>2. \A t \in Slot \ {s} : posix_files'[t].fd = 0 <=> posix_files'[t].name = NULL
    BY <1>8 DEF PosixInv, SlotsWhole
  <2> QED
    BY <2>1, <2>2 DEF SlotsWhole
<1>11. ASSUME NEW k \in 1..Len(stack) PROVE FrameOK(stack[k])' /\ FrameBytes(stack[k])'
  <2>1. /\ stack[k].fd \in FD \ {fd} /\ stack[k].slot \in Slot /\ stack[k].todo # {}
        /\ FrameOK(stack[k]) /\ FrameBytes(stack[k]) /\ stack'[k] = stack[k]
    BY <1>4, <1>5, <1>7 DEF PosixInv, Frame
  <2>2. stack[k].slot # s
    BY <1>1, <2>1 DEF PosixInv, SlotsWhole, FrameOK
  <2>3. FrameOK(stack[k])'
    BY <1>2, <1>5, <1>8, <2>1, <2>2 DEF FrameOK, Undisturbed
  <2>4. FrameBytes(stack[k])'
    BY <1>2, <1>3, <1>5, <2>1 DEF FrameBytes, NoFailure
  <2> QED
    BY <2>3, <2>4
<1>12. ASSUME NEW k \in 1..Len(stack)', k = Len(stack) + 1
       PROVE FrameOK(stack[k])' /\ FrameBytes(stack[k])'
  BY <1>2, <1>5, <1>7, <1>8, <1>12 DEF FrameOK, FrameBytes, NoBytes
<1>13. \A k \in 1..Len(stack)' : k \in 1..Len(stack) \/ k = Len(stack) + 1
  BY <1>7
<1>14. OuterInHook' /\ FramesApart'
  BY <1>4, <1>5, <1>7, PushKeeps DEF PosixInv
<1>15. RestBytes'
  <2>1. \A q \in FD : AtRest(q)' => AtRest(q)
    BY <1>7 DEF AtRest
  <2> QED
    BY <1>2, <1>3, <1>5, <2>1 DEF PosixInv, RestBytes, NoFailure, NoBytes
<1>16. (Undisturbed => FdTableIsMap)'
  <2> SUFFICES ASSUME Undisturbed, NEW t \in Slot, posix_files'[t].fd # 0
               PROVE  /\ kernel'[posix_files'[t].fd] = posix_files'[t].name
                      /\ \A u \in Slot : posix_files'[u].fd = posix_files'[t].fd => u = t
    BY <1>2 DEF Undisturbed, FdTableIsMap
  <2>1. \A u \in Slot : posix_files[u].fd \in FD \ {fd}
    BY <1>5 DEF PosixInv, PosixTypeOK
  <2>0. posix_files'[s].fd = fd /\ posix_files'[s].name = n
    BY <1>8
  <2>2. CASE t = s
    BY <1>5, <1>8, <2>0, <2>1, <2>2
  <2>3. CASE t # s
    <3>1. posix_files'[t] = posix_files[t] /\ posix_files[t].fd \in FD \ {fd}
      BY <1>8, <2>1, <2>3
    <3>2. /\ kernel[posix_files[t].fd] = posix_files[t].name
          /\ \A u \in Slot : posix_files[u].fd = posix_files[t].fd => u = t
      BY <3>1 DEF PosixInv, FdTableIsMap
    <3>3. kernel'[posix_files'[t].fd] = posix_files'[t].name
      BY <1>5, <3>1, <3>2
    <3>4. ASSUME NEW u \in Slot, posix_files'[u].fd = posix_files'[t].fd PROVE u = t
      <4>1. u # s
        BY <2>0, <3>1, <3>4
      <4> QED
        BY <1>8, <3>1, <3>2, <3>4, <4>1
    <3> QED
      BY <3>3, <3>4
  <2> QED
    BY <2>2, <2>3
<1> QED
  BY <1>3, <1>5, <1>9, <1>10, <1>11, <1>12, <1>13, <1>14, <1>15, <1>16 DEF PosixInv

-----------------------------------------------------------------------------
(* write. *)

(* The hooks are passed the whole buffer before any byte is taken. *)
LEMMA WriteStep ==
    ASSUME PosixInv, NEW c \in Caller, NEW fd \in FD, NEW sz \in env.sizes, Write(c, fd, sz)
    PROVE  PosixInv'
<1>0. sz \in Nat
  BY PosixSituAssumption DEF PosixInv, PosixTypeOK, Environment
<1>1. PICK s \in Slot :
        posix_files[s].fd = fd /\ Push(Call("exec", s, posix_files[s].name, fd, sz))
  BY DEF Write, Finds
<1>2. /\ Active(c) /\ UNCHANGED fprocVars /\ env' = env
      /\ posix_files' = posix_files /\ kernel' = kernel /\ owner' = owner
      /\ bytes' = [bytes EXCEPT ![fd].streamed = @ + sz]
      /\ owner[fd] = c /\ \A k \in 1..Len(stack) : stack[k].fd # fd
      /\ fd = 0 => env.stdin
  BY DEF Write, Uses
<1>3. FprocInv' /\ phase' = phase
  BY <1>2, TableUnchanged DEF PosixInv, fprocVars
<1>4. c # NULL /\ \A k \in 1..Len(stack) : stack[k] \in Frame /\ stack[k].todo # {}
  BY <1>2, ActiveFacts
<1> DEFINE n == posix_files[s].name
           f == [hook |-> "exec", slot |-> s, name |-> n, fd |-> fd,
                 todo |-> Called("exec", n), sz |-> sz, written |-> 0]
<1>5. n \in Name \cup {NULL}
  BY DEF PosixInv, PosixTypeOK
<1>6. f \in Frame /\ f = Call("exec", s, n, fd, sz)
  BY <1>0, <1>5, CalledFacts DEF Frame, Dispatched, Call
<1>7. /\ stack' \in Seq(Frame)
      /\ Len(stack) \in Nat /\ Len(stack') = Len(stack) + 1
      /\ \A k \in 1..Len(stack) : stack'[k] = stack[k]
      /\ stack'[Len(stack) + 1] = f
  BY <1>1, <1>6, PushFacts DEF PosixInv, PosixTypeOK
<1>8. /\ bytes' \in [FD -> [streamed : Nat, taken : Nat, told : Nat]]
      /\ bytes'[fd].streamed = bytes[fd].streamed + sz
      /\ bytes'[fd].taken = bytes[fd].taken /\ bytes'[fd].told = bytes[fd].told
      /\ \A q \in FD \ {fd} : bytes'[q] = bytes[q]
      /\ bytes[fd] \in [streamed : Nat, taken : Nat, told : Nat]
  <2>1. /\ bytes[fd] \in [streamed : Nat, taken : Nat, told : Nat]
        /\ bytes \in [FD -> [streamed : Nat, taken : Nat, told : Nat]]
    BY DEF PosixInv, PosixTypeOK
  <2> DEFINE b == [bytes[fd] EXCEPT !.streamed = @ + sz]
  <2>2. /\ b \in [streamed : Nat, taken : Nat, told : Nat]
        /\ b.streamed = bytes[fd].streamed + sz
        /\ b.taken = bytes[fd].taken /\ b.told = bytes[fd].told
    BY <1>0, <2>1
  <2>3. bytes' = [bytes EXCEPT ![fd] = b]
    BY <1>2
  <2> HIDE DEF b
  <2> QED
    BY <2>1, <2>2, <2>3
<1>9. PosixTypeOK'
  BY <1>2, <1>3, <1>7, <1>8 DEF PosixInv, PosixTypeOK, FprocInv
<1>10. ASSUME NEW k \in 1..Len(stack) PROVE FrameOK(stack[k])' /\ FrameBytes(stack[k])'
  <2>1. /\ stack[k].fd \in FD \ {fd} /\ FrameOK(stack[k]) /\ FrameBytes(stack[k])
        /\ stack'[k] = stack[k]
    BY <1>2, <1>4, <1>7 DEF PosixInv, Frame
  <2> QED
    BY <1>2, <1>3, <1>8, <2>1 DEF FrameOK, FrameBytes, Undisturbed, NoFailure
<1>11. ASSUME NEW k \in 1..Len(stack)', k = Len(stack) + 1 PROVE FrameOK(stack[k])'
  <2>1. kernel[fd] # NULL
    BY <1>2, <1>4 DEF PosixInv, OwnedOpen
  <2>2. n = NULL => Called("exec", n) = {}
    BY CalledFacts
  <2>3. Undisturbed => n # NULL /\ n = kernel[fd]
    BY <1>1, <1>2 DEF Undisturbed, PosixInv, SlotsWhole, FdTableIsMap
  <2> QED
    BY <1>1, <1>2, <1>7, <1>11, <2>1, <2>2, <2>3 DEF FrameOK, Undisturbed
<1>12. ASSUME NEW k \in 1..Len(stack)', k = Len(stack) + 1 PROVE FrameBytes(stack[k])'
  <2>1. AtRest(fd)
    BY <1>2 DEF AtRest
  <2>2. /\ bytes[fd].told = bytes[fd].taken
        /\ NoFailure => bytes[fd].streamed = bytes[fd].taken
    BY <2>1 DEF PosixInv, RestBytes
  <2> QED
    BY <1>0, <1>2, <1>3, <1>7, <1>8, <1>12, <2>2 DEF FrameBytes, NoFailure
<1>13. \A k \in 1..Len(stack)' : k \in 1..Len(stack) \/ k = Len(stack) + 1
  BY <1>7
<1>14. OuterInHook' /\ FramesApart'
  BY <1>2, <1>4, <1>7, PushKeeps DEF PosixInv
<1>15. RestBytes'
  <2>1. \A q \in FD : AtRest(q)' => q # fd /\ AtRest(q)
    BY <1>7 DEF AtRest
  <2> QED
    BY <1>2, <1>3, <1>8, <2>1 DEF PosixInv, RestBytes, NoFailure
<1>16. (SlotsWhole /\ OwnedOpen /\ (Undisturbed => FdTableIsMap))'
  BY <1>2 DEF PosixInv, SlotsWhole, OwnedOpen, Undisturbed, FdTableIsMap
<1> QED
  BY <1>3, <1>9, <1>10, <1>11, <1>12, <1>13, <1>14, <1>15, <1>16 DEF PosixInv

(* One writef: what it takes is counted in the call until the call returns. *)
LEMMA WriteSomeStep ==
    ASSUME PosixInv, NEW n \in 1..MaxBytes, WriteSome(n)
    PROVE  PosixInv'
<1>0. n \in Nat
  BY PosixSituAssumption
<1>1. /\ stack # <<>> /\ Top.hook = "exec" /\ Top.todo = {}
      /\ Top.written < Top.sz /\ n <= Top.sz - Top.written
      /\ stack' = [stack EXCEPT ![Len(stack)].written = @ + n]
      /\ bytes' = [bytes EXCEPT ![Top.fd].taken = @ + n]
      /\ UNCHANGED fprocVars /\ env' = env /\ posix_files' = posix_files
      /\ kernel' = kernel /\ owner' = owner
  BY DEF WriteSome, InWrite
<1>2. FprocInv' /\ phase' = phase
  BY <1>1, TableUnchanged DEF PosixInv, fprocVars
<1>3. /\ Len(stack) \in Nat \ {0} /\ Len(stack) \in 1..Len(stack)
      /\ Top = stack[Len(stack)] /\ Top \in Frame /\ stack \in Seq(Frame)
  BY <1>1, TopFacts DEF PosixInv, PosixTypeOK
<1> DEFINE f == [Top EXCEPT !.written = @ + n]
<1>4. /\ f \in Frame /\ f.written = Top.written + n
      /\ f.hook = Top.hook /\ f.slot = Top.slot /\ f.name = Top.name /\ f.fd = Top.fd
      /\ f.todo = Top.todo /\ f.sz = Top.sz
      /\ Top.written \in Nat /\ Top.sz \in Nat /\ Top.fd \in FD
  <2>1. /\ Top.written \in Nat /\ Top.sz \in Nat /\ Top.fd \in FD
        /\ Top.written + n \in Nat
    BY <1>0, <1>3 DEF Frame
  <2>2. f = [Top EXCEPT !.written = Top.written + n]
    OBVIOUS
  <2> HIDE DEF f
  <2> DEFINE w == Top.written + n
  <2>3. f = [Top EXCEPT !.written = w] /\ w \in Nat
    BY <2>1, <2>2
  <2> HIDE DEF w
  <2>4. /\ f \in Frame /\ f.written = w
        /\ f.hook = Top.hook /\ f.slot = Top.slot /\ f.name = Top.name /\ f.fd = Top.fd
        /\ f.todo = Top.todo /\ f.sz = Top.sz
    BY <1>3, <2>3 DEF Frame
  <2> QED
    BY <2>1, <2>4 DEF w
<1>5. stack' = [stack EXCEPT ![Len(stack)] = f]
  BY <1>1, <1>3
<1> HIDE DEF f
<1>6. /\ stack' \in Seq(Frame) /\ Len(stack') = Len(stack) /\ stack'[Len(stack)] = f
      /\ \A k \in 1..Len(stack) : k # Len(stack) => stack'[k] = stack[k]
  BY <1>1, <1>3, <1>4, <1>5, ReplaceFacts
<1>7. /\ bytes' \in [FD -> [streamed : Nat, taken : Nat, told : Nat]]
      /\ bytes'[Top.fd].taken = bytes[Top.fd].taken + n
      /\ bytes'[Top.fd].streamed = bytes[Top.fd].streamed
      /\ bytes'[Top.fd].told = bytes[Top.fd].told
      /\ \A q \in FD \ {Top.fd} : bytes'[q] = bytes[q]
      /\ bytes[Top.fd] \in [streamed : Nat, taken : Nat, told : Nat]
  <2>1. /\ bytes[Top.fd] \in [streamed : Nat, taken : Nat, told : Nat]
        /\ bytes \in [FD -> [streamed : Nat, taken : Nat, told : Nat]]
    BY <1>4 DEF PosixInv, PosixTypeOK
  <2> DEFINE b == [bytes[Top.fd] EXCEPT !.taken = @ + n]
  <2>2. /\ b \in [streamed : Nat, taken : Nat, told : Nat]
        /\ b.taken = bytes[Top.fd].taken + n
        /\ b.streamed = bytes[Top.fd].streamed /\ b.told = bytes[Top.fd].told
    BY <1>0, <2>1
  <2>3. bytes' = [bytes EXCEPT ![Top.fd] = b]
    BY <1>1
  <2> HIDE DEF b
  <2> QED
    BY <1>4, <2>1, <2>2, <2>3
<1>8. \A k \in 1..Len(stack) : /\ stack'[k].fd = stack[k].fd
                               /\ stack'[k].slot = stack[k].slot
                               /\ stack'[k].name = stack[k].name
                               /\ stack'[k].todo = stack[k].todo
  BY <1>3, <1>4, <1>6
<1>9. PosixTypeOK'
  BY <1>1, <1>2, <1>6, <1>7 DEF PosixInv, PosixTypeOK, FprocInv
<1>10. ASSUME NEW k \in 1..Len(stack)' PROVE FrameOK(stack[k])'
  <2>1. k \in 1..Len(stack) /\ FrameOK(stack[k])
    BY <1>6, <1>10 DEF PosixInv
  <2> QED
    BY <1>1, <1>8, <2>1 DEF FrameOK, Undisturbed
<1>11. ASSUME NEW k \in 1..Len(stack)' PROVE FrameBytes(stack[k])'
  <2>1. k \in 1..Len(stack) /\ FrameBytes(stack[k])
    BY <1>6, <1>11 DEF PosixInv
  <2>2. CASE k = Len(stack)
    <3>1. FrameBytes(Top) /\ stack'[k] = f
      BY <1>3, <1>6, <2>1, <2>2
    <3>2. /\ bytes[Top.fd].taken = bytes[Top.fd].told + Top.written
          /\ NoFailure => bytes[Top.fd].streamed = bytes[Top.fd].told + Top.sz
      BY <3>1 DEF FrameBytes
    <3>a. bytes[Top.fd].told \in Nat /\ bytes'[f.fd].told = bytes[Top.fd].told
      BY <1>4, <1>7
    <3>b. bytes'[f.fd].taken = bytes[Top.fd].taken + n
      BY <1>4, <1>7
    <3>3. /\ bytes'[f.fd].taken = bytes'[f.fd].told + f.written
          /\ f.written <= f.sz
      BY <1>0, <1>1, <1>4, <3>2, <3>a, <3>b
    <3>4. NoFailure' => bytes'[f.fd].streamed = bytes'[f.fd].told + f.sz
      BY <1>1, <1>2, <1>4, <1>7, <3>2 DEF NoFailure
    <3> QED
      BY <1>1, <1>4, <3>1, <3>3, <3>4 DEF FrameBytes
  <2>3. CASE k # Len(stack)
    <3>1. stack'[k] = stack[k] /\ stack[k] \in Frame
      BY <1>3, <1>6, <2>1, <2>3
    <3>2. stack[k].fd \in FD \ {Top.fd}
      BY <1>3, <2>1, <2>3, <3>1 DEF PosixInv, FramesApart, Frame
    <3> QED
      BY <1>1, <1>2, <1>7, <2>1, <3>1, <3>2 DEF FrameBytes, NoFailure
  <2> QED
    BY <2>2, <2>3
<1>12. OuterInHook' /\ FramesApart'
  BY <1>6, <1>8 DEF PosixInv, OuterInHook, FramesApart
<1>13. RestBytes'
  <2>1. \A q \in FD : AtRest(q)' => q # Top.fd /\ AtRest(q)
    BY <1>3, <1>6, <1>8 DEF AtRest
  <2> QED
    BY <1>1, <1>2, <1>7, <2>1 DEF PosixInv, RestBytes, NoFailure
<1>14. (SlotsWhole /\ OwnedOpen /\ (Undisturbed => FdTableIsMap))'
  BY <1>1 DEF PosixInv, SlotsWhole, OwnedOpen, Undisturbed, FdTableIsMap
<1> QED
  BY <1>2, <1>9, <1>10, <1>11, <1>12, <1>13, <1>14 DEF PosixInv

(* The call reports what it has written; unless a write has failed that is    *)
(* what the hooks were passed.                                              *)
LEMMA ReportStep ==
    ASSUME PosixInv, InWrite, Report(Top.written), NoFailure => Top.written = Top.sz
    PROVE  PosixInv'
<1>1. /\ stack # <<>> /\ Pop
      /\ bytes' = [bytes EXCEPT ![Top.fd].told = @ + Top.written]
      /\ UNCHANGED fprocVars /\ env' = env /\ posix_files' = posix_files
      /\ kernel' = kernel /\ owner' = owner
  BY DEF InWrite, Report
<1>2. FprocInv' /\ phase' = phase
  BY <1>1, TableUnchanged DEF PosixInv, fprocVars
<1>3. PopsTop
  BY <1>1, PopKeeps
<1>4. Top.written \in Nat /\ Top.sz \in Nat /\ Top.fd \in FD /\ FrameBytes(Top)
  BY <1>3 DEF PopsTop, Frame
<1>5. /\ bytes' \in [FD -> [streamed : Nat, taken : Nat, told : Nat]]
      /\ bytes'[Top.fd].told = bytes[Top.fd].told + Top.written
      /\ bytes'[Top.fd].streamed = bytes[Top.fd].streamed
      /\ bytes'[Top.fd].taken = bytes[Top.fd].taken
      /\ \A q \in FD \ {Top.fd} : bytes'[q] = bytes[q]
  <2>1. /\ bytes[Top.fd] \in [streamed : Nat, taken : Nat, told : Nat]
        /\ bytes \in [FD -> [streamed : Nat, taken : Nat, told : Nat]]
    BY <1>4 DEF PosixInv, PosixTypeOK
  <2> DEFINE b == [bytes[Top.fd] EXCEPT !.told = @ + Top.written]
  <2>2. /\ b \in [streamed : Nat, taken : Nat, told : Nat]
        /\ b.told = bytes[Top.fd].told + Top.written
        /\ b.streamed = bytes[Top.fd].streamed /\ b.taken = bytes[Top.fd].taken
    BY <1>4, <2>1
  <2>3. bytes' = [bytes EXCEPT ![Top.fd] = b]
    BY <1>1
  <2> HIDE DEF b
  <2> QED
    BY <1>4, <2>1, <2>2, <2>3
<1>6. PosixTypeOK'
  BY <1>1, <1>2, <1>3, <1>5 DEF PosixInv, PosixTypeOK, FprocInv, PopsTop
<1>7. ASSUME NEW k \in 1..Len(stack)' PROVE FrameOK(stack[k])' /\ FrameBytes(stack[k])'
  <2>1. /\ stack'[k] = stack[k] /\ stack[k].fd \in FD \ {Top.fd}
        /\ FrameOK(stack[k]) /\ FrameBytes(stack[k])
    BY <1>3, <1>7 DEF PopsTop, Frame
  <2> QED
    BY <1>1, <1>2, <1>5, <2>1 DEF FrameOK, FrameBytes, Undisturbed, NoFailure
<1>8. RestBytes'
  <2>1. \A q \in FD \ {Top.fd} : AtRest(q)' => AtRest(q)
    BY <1>3 DEF PopsTop, AtRest
  <2>2. /\ bytes'[Top.fd].told = bytes'[Top.fd].taken
        /\ NoFailure => bytes'[Top.fd].streamed = bytes'[Top.fd].taken
    BY <1>4, <1>5 DEF FrameBytes
  <2> QED
    BY <1>1, <1>2, <1>5, <2>1, <2>2 DEF PosixInv, RestBytes, NoFailure
<1>9. (SlotsWhole /\ OwnedOpen /\ (Undisturbed => FdTableIsMap))'
  BY <1>1 DEF PosixInv, SlotsWhole, OwnedOpen, Undisturbed, FdTableIsMap
<1> QED
  BY <1>2, <1>3, <1>6, <1>7, <1>8, <1>9 DEF PosixInv, PopsTop

LEMMA WriteEndStep ==
    ASSUME PosixInv, WriteReturn \/ WriteError
    PROVE  PosixInv'
<1>1. InWrite /\ Report(Top.written)
  BY DEF WriteReturn, WriteError
<1>2. FrameBytes(Top) /\ Top \in Frame
  BY <1>1, TopFacts DEF InWrite, PosixInv, PosixTypeOK
<1>3. NoFailure => Top.written = Top.sz
  BY <1>2 DEF WriteReturn, WriteError, NoFailure, FrameBytes, Frame
<1> QED
  BY <1>1, <1>3, ReportStep

-----------------------------------------------------------------------------
(* The other returns. *)

LEMMA OpenReturnStep ==
    ASSUME PosixInv, OpenReturn
    PROVE  PosixInv'
<1>1. /\ stack # <<>> /\ Pop /\ Top.hook = "file"
      /\ UNCHANGED fprocVars /\ env' = env /\ posix_files' = posix_files
      /\ kernel' = kernel /\ owner' = owner /\ bytes' = bytes
  BY DEF OpenReturn
<1>2. FprocInv' /\ phase' = phase
  BY <1>1, TableUnchanged DEF PosixInv, fprocVars
<1>3. PopsTop
  BY <1>1, PopKeeps
<1>4. PosixTypeOK'
  BY <1>1, <1>2, <1>3 DEF PosixInv, PosixTypeOK, FprocInv, PopsTop
<1>5. ASSUME NEW k \in 1..Len(stack)' PROVE FrameOK(stack[k])' /\ FrameBytes(stack[k])'
  <2>1. stack'[k] = stack[k] /\ FrameOK(stack[k]) /\ FrameBytes(stack[k])
    BY <1>3, <1>5 DEF PopsTop
  <2> QED
    BY <1>1, <1>2, <2>1 DEF FrameOK, FrameBytes, Undisturbed, NoFailure
<1>6. RestBytes'
  BY <1>1, <1>2, <1>3, RestAfterPop DEF NoFailure
<1>7. (SlotsWhole /\ OwnedOpen /\ (Undisturbed => FdTableIsMap))'
  BY <1>1 DEF PosixInv, SlotsWhole, OwnedOpen, Undisturbed, FdTableIsMap
<1> QED
  BY <1>2, <1>3, <1>4, <1>5, <1>6, <1>7 DEF PosixInv, PopsTop

-----------------------------------------------------------------------------
(* close. *)

(* The descriptor is nobody else's: no other frame has it. *)
LEMMA KernelCloseFacts ==
    ASSUME PosixInv, NEW fd \in FD, KernelClose(fd)
    PROVE  /\ kernel' \in [FD -> Name \cup {NULL}] /\ owner' \in [FD -> Caller \cup {NULL}]
           /\ kernel'[fd] = NULL /\ owner'[fd] = NULL
           /\ \A q \in FD \ {fd} : kernel'[q] = kernel[q] /\ owner'[q] = owner[q]
           /\ OwnedOpen'
<1>1. kernel' = [kernel EXCEPT ![fd] = NULL] /\ owner' = [owner EXCEPT ![fd] = NULL]
  BY DEF KernelClose
<1>2. /\ kernel' \in [FD -> Name \cup {NULL}] /\ owner' \in [FD -> Caller \cup {NULL}]
      /\ kernel'[fd] = NULL /\ owner'[fd] = NULL
      /\ \A q \in FD \ {fd} : kernel'[q] = kernel[q] /\ owner'[q] = owner[q]
  BY <1>1 DEF PosixInv, PosixTypeOK
<1>3. OwnedOpen'
  BY <1>2 DEF PosixInv, OwnedOpen
<1> QED
  BY <1>2, <1>3

(* A close that leaves the table alone; it may only leave a slot without its  *)
(* descriptor behind when the environment disturbs the table.               *)
LEMMA BareCloseStep ==
    ASSUME PosixInv, NEW fd \in FD, KernelClose(fd), UNCHANGED fprocVars,
           env' = env, posix_files' = posix_files, stack' = stack, bytes' = bytes,
           \A k \in 1..Len(stack) : stack[k].fd # fd,
           Undisturbed => \A s \in Slot : posix_files[s].fd = fd => fd = 0
    PROVE  PosixInv'
<1>1. FprocInv' /\ phase' = phase
  BY TableUnchanged DEF PosixInv, fprocVars
<1>2. /\ kernel' \in [FD -> Name \cup {NULL}] /\ owner' \in [FD -> Caller \cup {NULL}]
      /\ \A q \in FD \ {fd} : kernel'[q] = kernel[q]
      /\ OwnedOpen'
  BY KernelCloseFacts
<1>3. PosixTypeOK'
  BY <1>1, <1>2 DEF PosixInv, PosixTypeOK, FprocInv
<1>4. ASSUME NEW k \in 1..Len(stack) PROVE FrameOK(stack[k])' /\ FrameBytes(stack[k])'
  <2>1. stack[k].fd \in FD \ {fd} /\ FrameOK(stack[k]) /\ FrameBytes(stack[k])
    <3>1. stack[k] \in Frame
      BY DEF PosixInv, PosixTypeOK
    <3> QED
      BY <3>1 DEF PosixInv, Frame
  <2> QED
    BY <1>1, <1>2, <2>1 DEF FrameOK, FrameBytes, Undisturbed, NoFailure
<1>5. RestBytes' /\ OuterInHook' /\ FramesApart' /\ SlotsWhole'
  BY <1>1 DEF PosixInv, RestBytes, AtRest, NoFailure, OuterInHook, FramesApart, SlotsWhole
<1>6. (Undisturbed => FdTableIsMap)'
  <2> SUFFICES ASSUME Undisturbed, NEW s \in Slot, posix_files[s].fd # 0
               PROVE  /\ kernel'[posix_files[s].fd] = posix_files[s].name
                      /\ \A t \in Slot : posix_files[t].fd = posix_files[s].fd => t = s
    BY DEF Undisturbed, FdTableIsMap
  <2>1. posix_files[s].fd \in FD \ {fd}
    BY DEF PosixInv, PosixTypeOK
  <2> QED
    BY <1>2, <2>1 DEF PosixInv, FdTableIsMap
<1> QED
  BY <1>1, <1>2, <1>3, <1>4, <1>5, <1>6 DEF PosixInv

LEMMA CloseUntrackedStep ==
    ASSUME PosixInv, NEW c \in Caller, NEW fd \in FD, CloseUntracked(c, fd)
    PROVE  PosixInv'
<1>1. /\ KernelClose(fd) /\ UNCHANGED fprocVars /\ env' = env
      /\ posix_files' = posix_files /\ stack' = stack /\ bytes' = bytes
      /\ \A k \in 1..Len(stack) : stack[k].fd # fd
  BY DEF CloseUntracked, Uses
<1>2. ASSUME NEW s \in Slot, posix_files[s].fd = fd PROVE fd = 0
  BY <1>2 DEF CloseUntracked, NotFound, Finds, PosixInv, SlotsWhole
<1> QED
  BY <1>1, <1>2, BareCloseStep

LEMMA CloseBypassStep ==
    ASSUME PosixInv, NEW fd \in FD, CloseBypass(fd)
    PROVE  PosixInv'
<1>1. /\ KernelClose(fd) /\ UNCHANGED fprocVars /\ env' = env /\ ~Undisturbed
      /\ posix_files' = posix_files /\ stack' = stack /\ bytes' = bytes /\ stack = <<>>
  BY DEF CloseBypass, Undisturbed
<1> QED
  BY <1>1, BareCloseStep

(* The slot and the descriptor stay until the finish() hooks are done. *)
LEMMA CloseTrackedStep ==
    ASSUME PosixInv, NEW c \in Caller, NEW fd \in FD, CloseTracked(c, fd)
    PROVE  PosixInv'
<1>1. PICK s \in Slot :
        /\ posix_files[s].fd = fd /\ posix_files[s].name # NULL
        /\ Push(Call("finish", s, posix_files[s].name, fd, 0))
  BY DEF CloseTracked, Finds
<1>2. /\ Active(c) /\ UNCHANGED fprocVars /\ env' = env /\ bytes' = bytes
      /\ posix_files' = posix_files /\ kernel' = kernel /\ owner' = owner
      /\ owner[fd] = c /\ \A k \in 1..Len(stack) : stack[k].fd # fd
  BY DEF CloseTracked, Uses
<1>3. FprocInv' /\ phase' = phase
  BY <1>2, TableUnchanged DEF PosixInv, fprocVars
<1>4. c # NULL /\ \A k \in 1..Len(stack) : stack[k] \in Frame /\ stack[k].todo # {}
  BY <1>2, ActiveFacts
<1> DEFINE n == posix_files[s].name
           f == [hook |-> "finish", slot |-> s, name |-> n, fd |-> fd,
                 todo |-> Called("finish", n), sz |-> 0, written |-> 0]
<1>5. n \in Name \cup {NULL}
  BY DEF PosixInv, PosixTypeOK
<1>6. f \in Frame /\ f = Call("finish", s, n, fd, 0)
  BY <1>5, CalledFacts DEF Frame, Dispatched, Call
<1>7. /\ stack' \in Seq(Frame)
      /\ Len(stack) \in Nat /\ Len(stack') = Len(stack) + 1
      /\ \A k \in 1..Len(stack) : stack'[k] = stack[k]
      /\ stack'[Len(stack) + 1] = f
  BY <1>1, <1>6, PushFacts DEF PosixInv, PosixTypeOK
<1>8. PosixTypeOK'
  BY <1>2, <1>3, <1>7 DEF PosixInv, PosixTypeOK, FprocInv
<1>9. ASSUME NEW k \in 1..Len(stack) PROVE FrameOK(stack[k])' /\ FrameBytes(stack[k])'
  <2>1. FrameOK(stack[k]) /\ FrameBytes(stack[k]) /\ stack'[k] = stack[k]
    BY <1>7 DEF PosixInv
  <2> QED
    BY <1>2, <1>3, <2>1 DEF FrameOK, FrameBytes, Undisturbed, NoFailure
<1>10. ASSUME NEW k \in 1..Len(stack)', k = Len(stack) + 1 PROVE FrameOK(stack[k])'
  <2>1. kernel[fd] # NULL
    BY <1>2, <1>4 DEF PosixInv, OwnedOpen
  <2>2. Undisturbed => n = kernel[fd]
    BY <1>1 DEF PosixInv, SlotsWhole, FdTableIsMap
  <2> QED
    BY <1>1, <1>2, <1>7, <1>10, <2>1, <2>2 DEF FrameOK, Undisturbed
<1>11. ASSUME NEW k \in 1..Len(stack)', k = Len(stack) + 1 PROVE FrameBytes(stack[k])'
  <2>1. AtRest(fd)
    BY <1>2 DEF AtRest
  <2>2. /\ bytes[fd].told = bytes[fd].taken /\ bytes[fd].told \in Nat
        /\ NoFailure => bytes[fd].streamed = bytes[fd].taken
    BY <2>1 DEF PosixInv, RestBytes, PosixTypeOK
  <2> QED
    BY <1>2, <1>3, <1>7, <1>11, <2>2 DEF FrameBytes, NoFailure
<1>12. \A k \in 1..Len(stack)' : k \in 1..Len(stack) \/ k = Len(stack) + 1
  BY <1>7
<1>13. OuterInHook' /\ FramesApart'
  BY <1>2, <1>4, <1>7, PushKeeps DEF PosixInv
<1>14. RestBytes'
  <2>1. \A q \in FD : AtRest(q)' => AtRest(q)
    BY <1>7 DEF AtRest
  <2> QED
    BY <1>2, <1>3, <2>1 DEF PosixInv, RestBytes, NoFailure
<1>15. (SlotsWhole /\ OwnedOpen /\ (Undisturbed => FdTableIsMap))'
  BY <1>2 DEF PosixInv, SlotsWhole, OwnedOpen, Undisturbed, FdTableIsMap
<1> QED
  BY <1>3, <1>8, <1>9, <1>10, <1>11, <1>12, <1>13, <1>14, <1>15 DEF PosixInv

(* The slot is emptied and the descriptor closed in one go: no other call     *)
(* relies on either.                                                        *)
LEMMA CloseReturnStep ==
    ASSUME PosixInv, CloseReturn
    PROVE  PosixInv'
<1>1. /\ stack # <<>> /\ Pop /\ Top.hook = "finish"
      /\ UNCHANGED fprocVars /\ env' = env /\ bytes' = bytes
      /\ posix_files' = [posix_files EXCEPT ![Top.slot] = NoFile]
      /\ KernelClose(Top.fd)
  BY DEF CloseReturn
<1>2. FprocInv' /\ phase' = phase
  BY <1>1, TableUnchanged DEF PosixInv, fprocVars
<1>3. PopsTop
  BY <1>1, PopKeeps
<1>4. /\ Top.fd \in FD /\ Top.slot \in Slot /\ posix_files[Top.slot].fd = Top.fd
  BY <1>3 DEF PopsTop, Frame, FrameOK
<1>5. /\ kernel' \in [FD -> Name \cup {NULL}] /\ owner' \in [FD -> Caller \cup {NULL}]
      /\ \A q \in FD \ {Top.fd} : kernel'[q] = kernel[q]
      /\ OwnedOpen'
  BY <1>1, <1>4, KernelCloseFacts
<1>6. /\ posix_files' \in [Slot -> [name : Name \cup {NULL}, fd : FD]]
      /\ posix_files'[Top.slot].fd = 0 /\ posix_files'[Top.slot].name = NULL
      /\ \A t \in Slot \ {Top.slot} : posix_files'[t] = posix_files[t]
  <2>1. NoFile \in [name : Name \cup {NULL}, fd : FD] /\ NoFile.fd = 0 /\ NoFile.name = NULL
    BY PosixSituAssumption DEF NoFile, FD
  <2> QED
    BY <1>1, <1>4, <2>1 DEF PosixInv, PosixTypeOK
<1>7. PosixTypeOK'
  BY <1>1, <1>2, <1>3, <1>5, <1>6 DEF PosixInv, PosixTypeOK, FprocInv, PopsTop
<1>8. ASSUME NEW k \in 1..Len(stack)' PROVE FrameOK(stack[k])' /\ FrameBytes(stack[k])'
  <2>1. /\ stack'[k] = stack[k] /\ stack[k].fd \in FD \ {Top.fd} /\ stack[k].slot \in Slot
        /\ FrameOK(stack[k]) /\ FrameBytes(stack[k])
    BY <1>3, <1>8 DEF PopsTop, Frame
  <2>2. stack[k].slot # Top.slot
    BY <1>4, <2>1 DEF FrameOK
  <2> QED
    BY <1>1, <1>2, <1>5, <1>6, <2>1, <2>2 DEF FrameOK, FrameBytes, Undisturbed, NoFailure
<1>9. RestBytes'
  BY <1>1, <1>2, <1>3, RestAfterPop DEF NoFailure
<1>10. SlotsWhole'
  BY <1>6 DEF PosixInv, SlotsWhole
<1>11. (Undisturbed => FdTableIsMap)'
  <2> SUFFICES ASSUME Undisturbed, NEW t \in Slot, posix_files'[t].fd # 0
               PROVE  /\ kernel'[posix_files'[t].fd] = posix_files'[t].name
                      /\ \A u \in Slot : posix_files'[u].fd = posix_files'[t].fd => u = t
    BY <1>1 DEF Undisturbed, FdTableIsMap
  <2>1. t # Top.slot /\ posix_files'[t] = posix_files[t]
    BY <1>6
  <2>2. /\ kernel[posix_files[t].fd] = posix_files[t].name
        /\ \A u \in Slot : posix_files[u].fd = posix_files[t].fd => u = t
    BY <2>1 DEF PosixInv, FdTableIsMap
  <2>3. posix_files[t].fd \in FD \ {Top.fd}
    BY <1>4, <2>1, <2>2 DEF PosixInv, PosixTypeOK
  <2>4. ASSUME NEW u \in Slot, posix_files'[u].fd = posix_files'[t].fd PROVE u = t
    <3>1. u # Top.slot
      BY <1>6, <2>4
    <3> QED
      BY <1>6, <2>1, <2>2, <2>4, <3>1
  <2> QED
    BY <1>5, <2>1, <2>2, <2>3, <2>4
<1> QED
  BY <1>2, <1>3, <1>5, <1>7, <1>8, <1>9, <1>10, <1>11 DEF PosixInv, PopsTop

-----------------------------------------------------------------------------
(* The hooks, the end of the program, and the loader. *)

LEMMA HookReturnStep ==
    ASSUME PosixInv, HookReturn
    PROVE  PosixInv'
<1>1. /\ stack # <<>> /\ UNCHANGED fprocVars /\ env' = env
      /\ posix_files' = posix_files /\ kernel' = kernel /\ owner' = owner /\ bytes' = bytes
  BY DEF HookReturn
<1>2. PICK e \in Entry : InHook(Top, e) /\ stack' = [stack EXCEPT ![Len(stack)].todo = @ \ {e}]
  BY DEF HookReturn
<1>3. FprocInv' /\ phase' = phase
  BY <1>1, TableUnchanged DEF PosixInv, fprocVars
<1>4. /\ Len(stack) \in Nat \ {0} /\ Len(stack) \in 1..Len(stack)
      /\ Top = stack[Len(stack)] /\ Top \in Frame /\ stack \in Seq(Frame)
  BY <1>1, TopFacts DEF PosixInv, PosixTypeOK
<1> DEFINE f == [Top EXCEPT !.todo = @ \ {e}]
<1>5. /\ f \in Frame /\ f.hook = Top.hook /\ f.slot = Top.slot /\ f.name = Top.name
      /\ f.fd = Top.fd /\ f.sz = Top.sz /\ f.written = Top.written
      /\ f.todo \subseteq Top.todo /\ Top.todo # {}
  BY <1>2, <1>4 DEF Frame, InHook
<1>6. stack' = [stack EXCEPT ![Len(stack)] = f]
  BY <1>2, <1>4
<1> HIDE DEF f
<1>7. /\ stack' \in Seq(Frame) /\ Len(stack') = Len(stack) /\ stack'[Len(stack)] = f
      /\ \A k \in 1..Len(stack) : k # Len(stack) => stack'[k] = stack[k]
  BY <1>1, <1>4, <1>5, <1>6, ReplaceFacts
<1>8. \A k \in 1..Len(stack) : /\ stack'[k].hook = stack[k].hook
                               /\ stack'[k].slot = stack[k].slot
                               /\ stack'[k].name = stack[k].name
                               /\ stack'[k].fd = stack[k].fd
                               /\ stack'[k].sz = stack[k].sz
                               /\ stack'[k].written = stack[k].written
                               /\ stack'[k].todo \subseteq stack[k].todo
  BY <1>4, <1>5, <1>7
<1>9. PosixTypeOK'
  BY <1>1, <1>3, <1>7 DEF PosixInv, PosixTypeOK, FprocInv
<1>10. ASSUME NEW k \in 1..Len(stack)' PROVE FrameOK(stack[k])' /\ FrameBytes(stack[k])'
  <2>1. k \in 1..Len(stack) /\ FrameOK(stack[k]) /\ FrameBytes(stack[k])
    BY <1>7, <1>10 DEF PosixInv
  <2>2. FrameOK(stack[k])'
    BY <1>1, <1>8, <2>1 DEF FrameOK, Undisturbed
  <2>3. FrameBytes(stack[k])'
    BY <1>1, <1>3, <1>8, <2>1 DEF FrameBytes, NoFailure
  <2> QED
    BY <2>2, <2>3
<1>11. OuterInHook' /\ FramesApart'
  BY <1>7, <1>8 DEF PosixInv, OuterInHook, FramesApart
<1>12. RestBytes'
  BY <1>1, <1>3, <1>7, <1>8 DEF PosixInv, RestBytes, AtRest, NoFailure
<1>13. (SlotsWhole /\ OwnedOpen /\ (Undisturbed => FdTableIsMap))'
  BY <1>1 DEF PosixInv, SlotsWhole, OwnedOpen, Undisturbed, FdTableIsMap
<1> QED
  BY <1>3, <1>9, <1>10, <1>11, <1>12, <1>13 DEF PosixInv

(* exit() from a hook abandons calls that have not written anything yet. *)
LEMMA ExitStep ==
    ASSUME PosixInv, Exit
    PROVE  PosixInv'
<1>1. /\ UnloadBegin /\ stack' = <<>> /\ env' = env /\ posix_files' = posix_files
      /\ kernel' = kernel /\ owner' = owner /\ bytes' = bytes
      /\ stack # <<>> => Top.todo # {}
  BY DEF Exit
<1>2. FprocInv'
  BY <1>1, FprocStepInv DEF PosixInv, FprocNext
<1>3. ~NoFailure'
  BY <1>1 DEF UnloadBegin, NoFailure
<1>4. PosixTypeOK'
  BY <1>1, <1>2 DEF PosixInv, PosixTypeOK, FprocInv
<1>5. ASSUME NEW fd \in FD PROVE bytes[fd].told = bytes[fd].taken
  <2>1. CASE AtRest(fd)
    BY <2>1 DEF PosixInv, RestBytes
  <2>2. CASE ~AtRest(fd)
    <3>1. PICK k \in 1..Len(stack) : stack[k].fd = fd
      BY <2>2 DEF AtRest
    <3>2. stack \in Seq(Frame) /\ stack # <<>> /\ Top = stack[Len(stack)] /\ Len(stack) \in Nat
      BY <3>1, TopFacts DEF PosixInv, PosixTypeOK
    <3>3. stack[k].todo # {}
      BY <1>1, <3>2 DEF PosixInv, OuterInHook
    <3>4. bytes[fd].taken = bytes[fd].told + 0
      BY <3>1, <3>3 DEF PosixInv, FrameBytes
    <3>5. bytes[fd].told \in Nat
      BY DEF PosixInv, PosixTypeOK
    <3> QED
      BY <3>4, <3>5
  <2> QED
    BY <2>1, <2>2
<1>6. RestBytes'
  BY <1>1, <1>3, <1>5 DEF RestBytes
<1>7. (SlotsWhole /\ OwnedOpen /\ OuterInHook /\ FramesApart
        /\ (Undisturbed => FdTableIsMap))'
  BY <1>1 DEF PosixInv, SlotsWhole, OwnedOpen, OuterInHook, FramesApart, Undisturbed,
              FdTableIsMap
<1> QED
  BY <1>1, <1>2, <1>4, <1>6, <1>7 DEF PosixInv

(* Loading and unloading run with no call in progress. *)
LEMMA LoaderStep ==
    ASSUME PosixInv, Loader
    PROVE  PosixInv'
<1>1. /\ stack = <<>> /\ stack' = <<>> /\ env' = env /\ posix_files' = posix_files
      /\ kernel' = kernel /\ owner' = owner /\ bytes' = bytes
      /\ Load \/ Unload
  BY DEF Loader, posixVars
<1>2. FprocInv'
  BY <1>1, FprocStepInv DEF PosixInv, FprocNext
<1>3. NoFailure' => NoFailure
  BY <1>1 DEF NoFailure, Load, LoadEntry, LoadGiveUp, LoadEnd, Unload, UnloadSkip,
              UnloadClose, UnloadFree, UnloadEnd
<1>4. PosixTypeOK'
  BY <1>1, <1>2 DEF PosixInv, PosixTypeOK, FprocInv
<1>5. RestBytes'
  BY <1>1, <1>3 DEF PosixInv, RestBytes, AtRest
<1>6. (SlotsWhole /\ OwnedOpen /\ OuterInHook /\ FramesApart
        /\ (Undisturbed => FdTableIsMap))'
  BY <1>1 DEF PosixInv, SlotsWhole, OwnedOpen, OuterInHook, FramesApart, Undisturbed,
              FdTableIsMap
<1> QED
  BY <1>1, <1>2, <1>4, <1>5, <1>6 DEF PosixInv

LEMMA StutterStep ==
    ASSUME PosixInv, UNCHANGED vars
    PROVE  PosixInv'
<1>1. /\ UNCHANGED fprocVars /\ env' = env /\ posix_files' = posix_files
      /\ kernel' = kernel /\ owner' = owner /\ stack' = stack /\ bytes' = bytes
  BY DEF vars, posixVars
<1>2. FprocInv' /\ phase' = phase
  BY <1>1, TableUnchanged DEF PosixInv, fprocVars
<1>3. PosixTypeOK'
  BY <1>1, <1>2 DEF PosixInv, PosixTypeOK, FprocInv
<1>4. ASSUME NEW k \in 1..Len(stack)' PROVE FrameOK(stack[k])' /\ FrameBytes(stack[k])'
  BY <1>1, <1>2, <1>4 DEF PosixInv, FrameOK, FrameBytes, Undisturbed, NoFailure
<1>5. (SlotsWhole /\ OwnedOpen /\ OuterInHook /\ FramesApart /\ RestBytes
        /\ (Undisturbed => FdTableIsMap))'
  BY <1>1, <1>2 DEF PosixInv, SlotsWhole, OwnedOpen, OuterInHook, FramesApart, RestBytes,
              AtRest, NoFailure, Undisturbed, FdTableIsMap
<1> QED
  BY <1>1, <1>2, <1>3, <1>4, <1>5 DEF PosixInv

LEMMA PosixInitInv == Init => PosixInv
<1> SUFFICES ASSUME Init PROVE PosixInv
  OBVIOUS
<1>1. FprocInv
  BY FprocInitInv DEF Init
<1>2. /\ NoFile \in [name : Name \cup {NULL}, fd : FD] /\ NoFile.fd = 0 /\ NoFile.name = NULL
      /\ NoBytes \in [streamed : Nat, taken : Nat, told : Nat]
      /\ NoBytes.streamed = 0 /\ NoBytes.taken = 0 /\ NoBytes.told = 0
      /\ Tty # NULL
  BY PosixSituAssumption, FprocAssumption DEF NoFile, NoBytes, FD
<1>3. PosixTypeOK
  BY <1>1, <1>2, PosixSituAssumption DEF Init, PosixTypeOK, FprocInv, Caller, App
<1>4. SlotsWhole /\ OwnedOpen /\ FdTableIsMap
  BY <1>2, PosixSituAssumption DEF Init, SlotsWhole, OwnedOpen, FdTableIsMap
<1>5. RestBytes
  BY <1>2 DEF Init, RestBytes
<1> QED
  BY <1>1, <1>3, <1>4, <1>5 DEF Init, PosixInv, OuterInHook, FramesApart

LEMMA PosixStepInv == PosixInv /\ [Next]_vars => PosixInv'
<1> SUFFICES ASSUME PosixInv, [Next]_vars PROVE PosixInv'
  OBVIOUS
<1>1. CASE Calls
  <2>1. ASSUME NEW c \in Caller, NEW n \in env.opens, OpenUntracked(c, n) \/ OpenTracked(c, n)
        PROVE  PosixInv'
    <3>1. n \in Name
      BY PosixSituAssumption DEF PosixInv, PosixTypeOK, Environment
    <3> QED
      BY <2>1, <3>1, OpenUntrackedStep, OpenTrackedStep
  <2>2. ASSUME NEW c \in Caller, NEW fd \in FD, NEW sz \in env.sizes, Write(c, fd, sz)
        PROVE  PosixInv'
    BY <2>2, WriteStep
  <2>3. ASSUME NEW c \in Caller, NEW fd \in FD, CloseUntracked(c, fd) \/ CloseTracked(c, fd)
        PROVE  PosixInv'
    BY <2>3, CloseUntrackedStep, CloseTrackedStep
  <2>4. ASSUME NEW fd \in FD, CloseBypass(fd) PROVE PosixInv'
    BY <2>4, CloseBypassStep
  <2> QED
    BY <1>1, <2>1, <2>2, <2>3, <2>4 DEF Calls
<1>2. CASE Returns
  BY <1>2, OpenReturnStep, WriteEndStep, CloseReturnStep, HookReturnStep, WriteSomeStep
  DEF Returns
<1>3. CASE Exit \/ Loader
  BY <1>3, ExitStep, LoaderStep
<1>4. CASE UNCHANGED vars
  BY <1>4, StutterStep
<1> QED
  BY <1>1, <1>2, <1>3, <1>4 DEF Next

-----------------------------------------------------------------------------

THEOREM PosixInvariant == Spec => []PosixInv
<1>1. Init => PosixInv
  BY PosixInitInv
<1>2. PosixInv /\ [Next]_vars => PosixInv'
  BY PosixStepInv
<1> QED
  BY <1>1, <1>2, PTL DEF Spec

(* The table maps descriptors to the files they are open on, at every step of *)
(* every nested open, write and close (posix.c:25-34, 85-105, 133-156), as    *)
(* long as nobody closes one behind it or writes to descriptor 0.            *)
THEOREM DescriptorTable == Spec => []TablesRight
<1>1. PosixInv => TablesRight
  BY DEF PosixInv, TablesRight
<1> QED
  BY <1>1, PosixInvariant, PTL

(* Every hook is passed the name of the file behind the descriptor, in the    *)
(* string of a slot that no nested open or close reuses or frees (posix.c:    *)
(* 103, 115, 148-154).                                                      *)
THEOREM NamesLent == Spec => []NamesRight
<1>1. PosixInv => NamesRight
  BY DEF PosixInv, NamesRight, StringKept, ExactFilename, FrameOK
<1> QED
  BY <1>1, PosixInvariant, PTL

(* Through partial writes, interruptions, errors, nested calls and exits,     *)
(* write reports what the kernel took, and exec sees each byte of a file      *)
(* exactly once if no write fails (posix.c:107-131).                         *)
THEOREM BytesAgree == Spec => []BytesRight
<1>1. PosixInv => BytesRight
  BY DEF PosixInv, BytesRight, RestBytes, StreamedOnce, ToldIsTaken, NoFailure
<1> QED
  BY <1>1, PosixInvariant, PTL

-----------------------------------------------------------------------------
(* The interposer implements Tee.                                             *)

Tales == {Told(f) : f \in Frame}
Telling(calls) == [k \in 1..Len(calls) |-> Told(calls[k])]

LEMMA TellingFacts ==
    ASSUME NEW st \in Seq(Frame)
    PROVE  /\ Telling(st) \in Seq(Tales) /\ Len(Telling(st)) = Len(st)
           /\ Len(st) \in Nat
           /\ \A k \in 1..Len(st) : Telling(st)[k] = Told(st[k]) /\ st[k] \in Frame
<1>1. Len(st) \in Nat /\ \A k \in 1..Len(st) : st[k] \in Frame
  OBVIOUS
<1>2. \A k \in 1..Len(st) : Told(st[k]) \in Tales
  BY <1>1 DEF Tales
<1>3. \A k \in 1..Len(st) : Telling(st)[k] = Told(st[k])
  BY DEF Telling
<1>4. Telling(st) \in [1..Len(st) -> Tales]
  BY <1>2 DEF Telling
<1>5. Telling(st) \in Seq(Tales)
  BY <1>1, <1>4
<1>6. Len(Telling(st)) = Len(st)
  BY <1>1, <1>4, <1>5, LenProperties
<1> QED
  BY <1>1, <1>3, <1>5, <1>6

(* Which run of the program it is does not change.                            *)
LEMMA Undisturbing == ASSUME [Next]_vars PROVE env' = env /\ Undisturbed' = Undisturbed
<1>1. env' = env
  BY DEF Next, Calls, Returns, OpenUntracked, OpenTracked, Write, CloseUntracked, CloseTracked,
         CloseBypass, OpenReturn, WriteReturn, WriteError, Report, CloseReturn, HookReturn,
         WriteSome, Exit, Loader, posixVars, vars
<1> QED
  BY <1>1 DEF Undisturbed

LEMMA ToldOf ==
    /\ Undisturbed => InProgress = Telling(stack)
    /\ Undisturbed' => InProgress' = Telling(stack')
    /\ ~Undisturbed => InProgress = <<>> /\ Streamed = {}
    /\ ~(Undisturbed') => InProgress' = <<>> /\ Streamed' = {}
BY DEF InProgress, Telling, Streamed

(* A call that enters its loop is told of, ... *)
LEMMA PushTells ==
    ASSUME Undisturbed, Undisturbed', stack \in Seq(Frame), NEW f \in Frame, Push(f)
    PROVE  InProgress' = Append(InProgress, Told(f))
<1>1. /\ stack' \in Seq(Frame) /\ Len(stack) \in Nat /\ Len(stack') = Len(stack) + 1
      /\ \A k \in 1..Len(stack) : stack'[k] = stack[k]
      /\ stack'[Len(stack) + 1] = f
  BY PushFacts
<1> DEFINE old == Telling(stack)
           new == Telling(stack')
<1>2. InProgress = old /\ InProgress' = new
  BY ToldOf
<1>3. /\ old \in Seq(Tales) /\ Len(old) = Len(stack)
      /\ \A k \in 1..Len(stack) : old[k] = Told(stack[k])
  BY TellingFacts
<1>4. /\ new \in Seq(Tales) /\ Len(new) = Len(stack')
      /\ \A k \in 1..Len(stack') : new[k] = Told(stack'[k])
  BY <1>1, TellingFacts
<1>5. Told(f) \in Tales
  BY DEF Tales
<1> HIDE DEF old, new
<1>6. /\ Append(old, Told(f)) \in Seq(Tales) /\ Len(Append(old, Told(f))) = Len(old) + 1
      /\ \A k \in 1..Len(old) : Append(old, Told(f))[k] = old[k]
      /\ Append(old, Told(f))[Len(old) + 1] = Told(f)
  BY <1>3, <1>5, AppendProperties
<1>7. \A k \in 1..Len(new) : new[k] = Append(old, Told(f))[k]
  BY <1>1, <1>3, <1>4, <1>6
<1>8. new = Append(old, Told(f))
  BY <1>1, <1>3, <1>4, <1>6, <1>7, SeqEqual
<1> QED
  BY <1>2, <1>8

(* ... until it returns.                                                      *)
LEMMA PopTells ==
    ASSUME Undisturbed, Undisturbed', stack \in Seq(Frame), stack # <<>>, Pop
    PROVE  /\ InProgress' = SubSeq(InProgress, 1, Len(InProgress) - 1)
           /\ InProgress # <<>> /\ InProgress[Len(InProgress)] = Told(Top)
<1>1. /\ stack' \in Seq(Frame) /\ Len(stack) \in Nat \ {0} /\ Len(stack') = Len(stack) - 1
      /\ \A k \in 1..(Len(stack) - 1) : stack'[k] = stack[k]
  BY PopFacts
<1> DEFINE old == Telling(stack)
           new == Telling(stack')
<1>2. InProgress = old /\ InProgress' = new
  BY ToldOf
<1>3. /\ old \in Seq(Tales) /\ Len(old) = Len(stack)
      /\ \A k \in 1..Len(stack) : old[k] = Told(stack[k])
  BY TellingFacts
<1>4. /\ new \in Seq(Tales) /\ Len(new) = Len(stack')
      /\ \A k \in 1..Len(stack') : new[k] = Told(stack'[k])
  BY <1>1, TellingFacts
<1> DEFINE n == Len(old) - 1
<1> HIDE DEF old, new
<1>5. 1 \in Int /\ n \in Int /\ n \in Nat /\ \A k \in 1..n : old[k] \in Tales
  BY <1>1, <1>3
<1> HIDE DEF n
<1>6. /\ SubSeq(old, 1, n) \in Seq(Tales)
      /\ Len(SubSeq(old, 1, n)) = IF 1 <= n THEN n - 1 + 1 ELSE 0
      /\ \A k \in 1..n - 1 + 1 : SubSeq(old, 1, n)[k] = old[1 + k - 1]
  BY <1>5, SubSeqProperties
<1>7. Len(SubSeq(old, 1, n)) = n /\ \A k \in 1..n : SubSeq(old, 1, n)[k] = old[k]
  BY <1>5, <1>6, Z3
<1>8. Len(new) = n /\ n = Len(stack) - 1
  BY <1>1, <1>3, <1>4 DEF n
<1>9. \A k \in 1..n : new[k] = SubSeq(old, 1, n)[k]
  BY <1>1, <1>3, <1>4, <1>5, <1>7, <1>8
<1>10. new = SubSeq(old, 1, n)
  BY <1>4, <1>6, <1>7, <1>8, <1>9, SeqEqual
<1>11. old # <<>> /\ old[Len(old)] = Told(Top)
  BY <1>1, <1>3 DEF Top
<1> QED
  BY <1>2, <1>10, <1>11 DEF n

(* The innermost of the calls told of.                                        *)
LEMMA TopTold ==
    ASSUME Undisturbed, stack \in Seq(Frame), stack # <<>>
    PROVE  /\ InProgress # <<>> /\ InProgress[Len(InProgress)] = Told(Top)
           /\ Len(InProgress) = Len(stack) /\ Len(stack) \in 1..Len(stack)
<1> DEFINE old == Telling(stack)
<1>1. InProgress = old
  BY ToldOf
<1>2. /\ old \in Seq(Tales) /\ Len(old) = Len(stack) /\ Len(stack) \in Nat
      /\ \A k \in 1..Len(stack) : old[k] = Told(stack[k])
  BY TellingFacts
<1>3. Len(stack) \in 1..Len(stack)
  OBVIOUS
<1> HIDE DEF old
<1> QED
  BY <1>1, <1>2, <1>3 DEF Top

(* Calls are made once the processors are installed.                          *)
CallsAfterLoad == stack # <<>> => phase # "loading"

TeeInv == PosixInv /\ AllStream /\ CallsAfterLoad

LEMMA TeeTyped ==
    ASSUME TeeInv
    PROVE  stack \in Seq(Frame) /\ FprocInv /\ PosixTypeOK
BY DEF TeeInv, PosixInv, PosixTypeOK

LEMMA CallsLater == ASSUME CallsAfterLoad, [Next]_vars PROVE CallsAfterLoad'
<1>1. ASSUME NEW c \in Caller, Active(c), UNCHANGED fprocVars PROVE CallsAfterLoad'
  BY <1>1 DEF Active, CallsAfterLoad, fprocVars
<1>2. CASE Calls
  BY <1>1, <1>2 DEF Calls, OpenUntracked, OpenTracked, Write, CloseUntracked, CloseTracked,
                    CloseBypass, CallsAfterLoad
<1>3. CASE Returns
  BY <1>3 DEF Returns, OpenReturn, WriteReturn, WriteError, WriteSome, InWrite, Report,
              CloseReturn, HookReturn, fprocVars, CallsAfterLoad
<1>4. CASE Exit \/ Loader
  BY <1>4 DEF Exit, Loader, UnloadBegin, posixVars, CallsAfterLoad
<1>5. CASE UNCHANGED vars
  BY <1>5 DEF vars, posixVars, fprocVars, CallsAfterLoad
<1> QED
  BY <1>2, <1>3, <1>4, <1>5 DEF Next

LEMMA TeeInvStep == ASSUME TeeInv, [Next]_vars PROVE TeeInv'
<1>1. PosixInv'
  BY PosixStepInv DEF TeeInv
<1>2. [FprocNext]_fprocVars
  BY DEF Next, Calls, Returns, OpenUntracked, OpenTracked, Write, CloseUntracked, CloseTracked,
         CloseBypass, OpenReturn, WriteReturn, WriteError, Report, CloseReturn, HookReturn,
         WriteSome, Exit, Loader, FprocNext, vars
<1>3. AllStream'
  BY <1>2, StreamStep, TeeTyped DEF TeeInv
<1>4. CallsAfterLoad'
  BY CallsLater DEF TeeInv
<1> QED
  BY <1>1, <1>3, <1>4 DEF TeeInv

(* Nobody sees what changes neither a table nor a call in progress.           *)
LEMMA NothingTold ==
    ASSUME cfg' = cfg, phase' = phase, tlibs' = tlibs, env' = env,
           posix_files' = posix_files, stack' = stack
    PROVE  UNCHANGED Descriptors!teeVars
<1>1. Stage' = Stage /\ Listening' = Listening
  BY StageStays, ListeningStays
<1>2. Streamed' = Streamed /\ InProgress' = InProgress
  BY DEF Streamed, InProgress, Undisturbed
<1> QED
  BY <1>1, <1>2 DEF Descriptors!teeVars

LEMMA QuietTold ==
    ASSUME Undisturbed, stack \in Seq(Frame), NEW stream, NEW hooks,
           \A k \in 1..Len(stack) : stack[k].fd # stream
    PROVE  Descriptors!Quiet(stream, hooks)
<1>1. Len(InProgress) = Len(stack) /\ \A k \in 1..Len(stack) : InProgress[k] = Told(stack[k])
  BY TellingFacts, ToldOf
<1>2. ASSUME NEW k \in 1..Len(stack) PROVE InProgress[k].handle = stack[k].fd
  <2>1. InProgress[k] = Told(stack[k])
    BY <1>1
  <2>2. Told(stack[k]).handle = stack[k].fd
    BY DEF Told
  <2> QED
    BY <2>1, <2>2
<1> QED
  BY <1>1, <1>2 DEF Descriptors!Quiet

(* A call's loop is a dispatch to whoever listens.                            *)
LEMMA DispatchTold ==
    ASSUME TeeInv, Undisturbed, Undisturbed', NEW c \in Caller, Active(c), UNCHANGED fprocVars,
           NEW f \in Frame, Push(f), f.name \in Name, f.todo = Called(f.hook, f.name)
    PROVE  Descriptors!Dispatch(f.hook, f.fd, f.name)
<1>1. phase # "loading"
  BY DEF TeeInv, CallsAfterLoad, Active
<1>2. Stage # "starting"
  BY <1>1 DEF Stage
<1>3. Stage' = Stage /\ Listening' = Listening
  BY StageStays, ListeningStays DEF fprocVars
<1>4. f.hook \in {"file", "exec", "finish"}
  BY DEF Frame, Dispatched
<1>5. Told(f) = [hook |-> f.hook, handle |-> f.fd, name |-> f.name,
                 todo |-> Listening[f.hook][f.name]]
  BY <1>4 DEF Told, Listening
<1>6. InProgress' = Append(InProgress, Told(f))
  BY PushTells, TeeTyped
<1> QED
  BY <1>2, <1>3, <1>5, <1>6 DEF Descriptors!Dispatch

(* The slot of a descriptor that a call is made about, and its name.          *)
LEMMA SlotTold ==
    ASSUME TeeInv, Undisturbed, NEW s \in Slot, posix_files[s].fd # 0
    PROVE  /\ posix_files[s].name \in Name /\ posix_files[s].fd \in FD
           /\ <<posix_files[s].fd, posix_files[s].name>> \in Streamed
           /\ kernel[posix_files[s].fd] # NULL
<1>1. /\ posix_files[s].name \in Name /\ posix_files[s].fd \in FD
      /\ kernel[posix_files[s].fd] = posix_files[s].name
  BY DEF TeeInv, PosixInv, PosixTypeOK, SlotsWhole, FdTableIsMap
<1>2. <<posix_files[s].fd, posix_files[s].name>> \in Streamed
  BY DEF Streamed
<1> QED
  BY <1>1, <1>2, FprocAssumption

LEMMA SlotFilled ==
    ASSUME PosixTypeOK, Undisturbed, Undisturbed', NEW s \in Slot, posix_files[s].fd = 0,
           NEW fd \in FD \ {0}, NEW n,
           posix_files' = [posix_files EXCEPT ![s] = [name |-> n, fd |-> fd]]
    PROVE  Streamed' = Streamed \cup {<<fd, n>>}
<1>2. /\ posix_files'[s].fd = fd /\ posix_files'[s].name = n
      /\ \A t \in Slot : t # s => posix_files'[t] = posix_files[t]
  BY DEF PosixTypeOK
<1>3. /\ Streamed = {<<posix_files[t].fd, posix_files[t].name>> :
                        t \in {u \in Slot : posix_files[u].fd # 0}}
      /\ Streamed' = {<<posix_files'[t].fd, posix_files'[t].name>> :
                         t \in {u \in Slot : posix_files'[u].fd # 0}}
  BY DEF Streamed
<1> QED
  BY <1>2, <1>3

LEMMA SlotEmptied ==
    ASSUME PosixTypeOK, Undisturbed, Undisturbed', NEW s \in Slot, posix_files[s].fd # 0,
           \A t \in Slot : posix_files[t].fd = posix_files[s].fd => t = s,
           posix_files' = [posix_files EXCEPT ![s] = NoFile]
    PROVE  Streamed' = Streamed \ {<<posix_files[s].fd, posix_files[s].name>>}
<1>2. posix_files'[s].fd = 0 /\ \A t \in Slot : t # s => posix_files'[t] = posix_files[t]
  BY DEF PosixTypeOK, NoFile
<1>3. /\ Streamed = {<<posix_files[t].fd, posix_files[t].name>> :
                        t \in {u \in Slot : posix_files[u].fd # 0}}
      /\ Streamed' = {<<posix_files'[t].fd, posix_files'[t].name>> :
                         t \in {u \in Slot : posix_files'[u].fd # 0}}
  BY DEF Streamed
<1> QED
  BY <1>2, <1>3

LEMMA CallDispatches ==
    ASSUME TeeInv, Undisturbed, Undisturbed', NEW c \in Caller, Active(c), UNCHANGED fprocVars,
           NEW h \in Dispatched, NEW s \in Slot, NEW n \in Name, NEW fd \in FD, NEW sz \in Nat,
           Push(Call(h, s, n, fd, sz))
    PROVE  Descriptors!Dispatch(h, fd, n)
<1> DEFINE f == Call(h, s, n, fd, sz)
<1>1. /\ f \in Frame /\ f.hook = h /\ f.fd = fd /\ f.name = n
      /\ f.todo = Called(h, n)
  BY CalledFacts DEF Frame, Call
<1> HIDE DEF f
<1>2. Push(f)
  BY DEF f
<1>3. Descriptors!Dispatch(f.hook, f.fd, f.name)
  BY <1>1, <1>2, DispatchTold
<1> QED
  BY <1>1, <1>3

(* open announces what it has put into the table, ...                         *)
LEMMA OpenTees ==
    ASSUME TeeInv, Undisturbed, Undisturbed', NEW c \in Caller, NEW n \in Name, OpenTracked(c, n)
    PROVE  \E fd \in FD : Descriptors!Announce(fd, n)
<1>1. PICK fd \in FD \ {0}, s \in Slot :
        /\ posix_files[s].fd = 0 /\ kernel[fd] = NULL
        /\ posix_files' = [posix_files EXCEPT ![s] = [name |-> n, fd |-> fd]]
        /\ Push(Call("file", s, n, fd, 0))
  BY DEF OpenTracked, Finds, KernelOpen, Lowest
<1>2. Active(c) /\ UNCHANGED fprocVars /\ matches(n)
  BY DEF OpenTracked, Ignored
<1>3. Descriptors!Dispatch("file", fd, n)
  BY <1>1, <1>2, CallDispatches DEF Dispatched
<1>4. Listening["exec"][n] # {}
  BY <1>2, MatchesStream DEF TeeInv
<1>5. Streamed' = Streamed \cup {<<fd, n>>}
  BY <1>1, SlotFilled, TeeTyped
<1>6. \A m \in Name : <<fd, m>> \notin Streamed
  <2>1. \A t \in Slot : posix_files[t].fd # 0 => kernel[posix_files[t].fd] # NULL
    BY SlotTold
  <2> QED
    BY <1>1, <2>1 DEF Streamed
<1> QED
  BY <1>3, <1>4, <1>5, <1>6 DEF Descriptors!Announce

(* ... write streams what was announced, ...                                  *)
LEMMA WriteTees ==
    ASSUME TeeInv, Undisturbed, Undisturbed', NEW c \in Caller, NEW fd \in FD, NEW sz \in Nat,
           Write(c, fd, sz)
    PROVE  \E n \in Name : Descriptors!Stream(fd, n)
<1>1. PICK s \in Slot :
        posix_files[s].fd = fd /\ Push(Call("exec", s, posix_files[s].name, fd, sz))
  BY DEF Write, Finds
<1>2. /\ Active(c) /\ UNCHANGED fprocVars /\ posix_files' = posix_files
      /\ \A k \in 1..Len(stack) : stack[k].fd # fd
      /\ fd # 0
  BY DEF Write, Uses, Undisturbed
<1>3. posix_files[s].name \in Name /\ <<fd, posix_files[s].name>> \in Streamed
  BY <1>1, <1>2, SlotTold
<1>4. Descriptors!Dispatch("exec", fd, posix_files[s].name)
  BY <1>1, <1>2, <1>3, CallDispatches DEF Dispatched
<1>5. Streamed' = Streamed
  BY <1>2 DEF Streamed
<1>6. Descriptors!Quiet(fd, {"file", "finish"})
  BY <1>2, QuietTold, TeeTyped
<1> QED
  BY <1>3, <1>4, <1>5, <1>6 DEF Descriptors!Stream

(* ... and close finishes it.                                                 *)
LEMMA CloseTees ==
    ASSUME TeeInv, Undisturbed, Undisturbed', NEW c \in Caller, NEW fd \in FD,
           CloseTracked(c, fd)
    PROVE  \E n \in Name : Descriptors!Finish(fd, n)
<1>1. PICK s \in Slot :
        /\ posix_files[s].fd = fd /\ posix_files[s].name # NULL
        /\ Push(Call("finish", s, posix_files[s].name, fd, 0))
  BY DEF CloseTracked, Finds
<1>2. /\ Active(c) /\ UNCHANGED fprocVars /\ posix_files' = posix_files
      /\ \A k \in 1..Len(stack) : stack[k].fd # fd
  BY DEF CloseTracked, Uses
<1>3. fd # 0
  BY <1>1 DEF TeeInv, PosixInv, SlotsWhole
<1>4. posix_files[s].name \in Name /\ <<fd, posix_files[s].name>> \in Streamed
  BY <1>1, <1>3, SlotTold
<1>5. Descriptors!Dispatch("finish", fd, posix_files[s].name)
  BY <1>1, <1>2, <1>4, CallDispatches DEF Dispatched
<1>6. Streamed' = Streamed
  BY <1>2 DEF Streamed
<1>7. Descriptors!Quiet(fd, Descriptors!Hooks)
  BY <1>2, QuietTold, TeeTyped
<1> QED
  BY <1>4, <1>5, <1>6, <1>7 DEF Descriptors!Finish

LEMMA NoneTold ==
    /\ stack = <<>> => InProgress = <<>>
    /\ stack' = <<>> => InProgress' = <<>>
<1>1. Telling(<<>>) = <<>>
  <2>1. <<>> \in Seq(Frame) /\ Len(<<>>) = 0
    BY EmptySeq
  <2>2. Telling(<<>>) \in Seq(Tales) /\ Len(Telling(<<>>)) = 0
    BY <2>1, TellingFacts
  <2> QED
    BY <2>2, EmptySeq
<1> QED
  BY <1>1, ToldOf

(* A call that has told everybody returns; a finished stream is off.          *)
LEMMA ReturnTees ==
    ASSUME TeeInv, Undisturbed, Undisturbed', OpenReturn \/ WriteReturn \/ WriteError \/ CloseReturn
    PROVE  Descriptors!Return
<1>1. stack # <<>> /\ Pop /\ Top.todo = {} /\ UNCHANGED fprocVars
  BY DEF OpenReturn, WriteReturn, WriteError, InWrite, Report, CloseReturn
<1>2. Stage' = Stage /\ Listening' = Listening
  BY <1>1, StageStays, ListeningStays DEF fprocVars
<1>3. /\ InProgress' = SubSeq(InProgress, 1, Len(InProgress) - 1)
      /\ InProgress # <<>> /\ InProgress[Len(InProgress)] = Told(Top)
  BY <1>1, PopTells, TeeTyped
<1>4. /\ Told(Top).hook = Top.hook /\ Told(Top).handle = Top.fd
      /\ Told(Top).name = Top.name /\ Told(Top).todo = Top.todo
  BY DEF Told
<1>5. CASE OpenReturn \/ WriteReturn \/ WriteError
  <2>1. Top.hook # "finish" /\ posix_files' = posix_files
    BY <1>5 DEF OpenReturn, WriteReturn, WriteError, InWrite, Report
  <2>2. Streamed' = Streamed
    BY <2>1 DEF Streamed
  <2> QED
    BY <1>1, <1>2, <1>3, <1>4, <2>1, <2>2 DEF Descriptors!Return, Descriptors!Innermost
<1>6. CASE CloseReturn
  <2>1. Top.hook = "finish" /\ posix_files' = [posix_files EXCEPT ![Top.slot] = NoFile]
    BY <1>6 DEF CloseReturn
  <2>2. FrameOK(Top) /\ Top.slot \in Slot
    <3>1. Len(stack) \in 1..Len(stack) /\ Top = stack[Len(stack)] /\ Top \in Frame
      BY <1>1, TopFacts, TeeTyped
    <3> QED
      BY <3>1 DEF TeeInv, PosixInv, Frame
  <2>3. /\ posix_files[Top.slot].fd = Top.fd /\ Top.fd # 0
        /\ posix_files[Top.slot].name = Top.name
    BY <2>2 DEF FrameOK, TeeInv, PosixInv, SlotsWhole
  <2>4. Streamed' = Streamed \ {<<Top.fd, Top.name>>}
    <3>1. \A t \in Slot : posix_files[t].fd = posix_files[Top.slot].fd => t = Top.slot
      BY <2>2, <2>3 DEF TeeInv, PosixInv, FdTableIsMap
    <3> QED
      BY <2>1, <2>2, <2>3, <3>1, SlotEmptied, TeeTyped
  <2> QED
    BY <1>1, <1>2, <1>3, <1>4, <2>1, <2>4 DEF Descriptors!Return, Descriptors!Innermost
<1> QED
  BY <1>5, <1>6

(* A hook that returns has been told.                                         *)
LEMMA HookTees ==
    ASSUME TeeInv, Undisturbed, Undisturbed', HookReturn
    PROVE  \E e \in Entry : Descriptors!Heard(e)
<1>1. PICK e \in Entry :
        /\ stack # <<>> /\ e \in Top.todo /\ \A d \in Top.todo : e <= d
        /\ stack' = [stack EXCEPT ![Len(stack)].todo = @ \ {e}]
        /\ UNCHANGED fprocVars /\ posix_files' = posix_files
  BY DEF HookReturn, InHook
<1>2. Stage' = Stage /\ Listening' = Listening /\ Streamed' = Streamed
  BY <1>1, StageStays, ListeningStays DEF fprocVars, Streamed
<1>3. /\ InProgress # <<>> /\ InProgress[Len(InProgress)] = Told(Top)
      /\ Len(InProgress) = Len(stack) /\ Len(stack) \in 1..Len(stack)
  BY <1>1, TopTold, TeeTyped
<1> DEFINE n == Len(stack)
<1>4. /\ Told(Top).todo = Top.todo
      /\ Top = stack[n] /\ n \in 1..n
  BY <1>3 DEF Told, Top
<1>5. InProgress' = [InProgress EXCEPT ![n].todo = @ \ {e}]
  <2>0. stack \in Seq(Frame) /\ stack \in [1..n -> Frame] /\ n \in Nat
    BY TeeTyped, LenProperties
  <2>1. stack' = [stack EXCEPT ![n] = [stack[n] EXCEPT !.todo = stack[n].todo \ {e}]]
    BY <1>1
  <2>2. /\ stack' \in [1..n -> {stack'[k] : k \in 1..n}]
        /\ \A k \in 1..n : k # n => stack'[k] = stack[k]
        /\ stack'[n] = [stack[n] EXCEPT !.todo = stack[n].todo \ {e}]
    BY <2>0, <2>1, <1>4
  <2>3. Len(stack') = n
    BY <2>0, <2>1
  <2>4. stack[n] \in Frame
    BY <2>0, <1>4
  <2>5. Told(stack'[n]) = [Told(stack[n]) EXCEPT !.todo = Told(stack[n]).todo \ {e}]
    <3> DEFINE f == stack[n]
               g == stack'[n]
               less == [hook |-> f.hook, handle |-> f.fd, name |-> f.name, todo |-> f.todo \ {e}]
    <3>1. f \in Frame /\ g = [f EXCEPT !.todo = f.todo \ {e}]
      BY <2>2, <2>4
    <3> HIDE DEF f, g
    <3>2. g.hook = f.hook /\ g.fd = f.fd /\ g.name = f.name /\ g.todo = f.todo \ {e}
      BY <3>1 DEF Frame
    <3>3. Told(g) = less
      BY <3>2 DEF Told
    <3>4. [Told(f) EXCEPT !.todo = Told(f).todo \ {e}] = less
      BY DEF Told
    <3> QED
      BY <3>3, <3>4 DEF f, g
  <2>6. /\ InProgress = [k \in 1..n |-> Told(stack[k])]
        /\ InProgress' = [k \in 1..n |-> Told(stack'[k])]
    BY <2>3, ToldOf DEF Telling
  <2> HIDE DEF n
  <2> QED
    BY <1>4, <2>2, <2>5, <2>6
<1>6. Descriptors!Heard(e)
  BY <1>1, <1>2, <1>3, <1>4, <1>5 DEF Descriptors!Heard, Descriptors!Innermost
<1> QED
  BY <1>6

(* The loop of writes is nobody's business.                                   *)
LEMMA WriteSomeTees ==
    ASSUME TeeInv, Undisturbed, Undisturbed', NEW m \in Nat, WriteSome(m)
    PROVE  UNCHANGED Descriptors!teeVars
<1>1. /\ stack # <<>> /\ stack' = [stack EXCEPT ![Len(stack)].written = @ + m]
      /\ UNCHANGED fprocVars /\ posix_files' = posix_files
  BY DEF WriteSome, InWrite
<1>2. Stage' = Stage /\ Listening' = Listening /\ Streamed' = Streamed
  BY <1>1, StageStays, ListeningStays DEF fprocVars, Streamed
<1>3. InProgress' = InProgress
  <2> DEFINE n == Len(stack)
  <2>1. /\ stack \in Seq(Frame) /\ stack \in [1..n -> Frame] /\ n \in Nat
        /\ n \in 1..n /\ stack[n] \in Frame
    BY <1>1, TeeTyped, LenProperties, TopFacts
  <2>2. stack' = [stack EXCEPT ![n] = [stack[n] EXCEPT !.written = stack[n].written + m]]
    BY <1>1
  <2>3. Len(stack') = n
    BY <2>1, <2>2
  <2>4. \A k \in 1..n : /\ stack'[k].hook = stack[k].hook /\ stack'[k].fd = stack[k].fd
                         /\ stack'[k].name = stack[k].name /\ stack'[k].todo = stack[k].todo
    BY <2>1, <2>2 DEF Frame
  <2>5. ASSUME NEW k \in 1..n PROVE Told(stack'[k]) = Told(stack[k])
    BY <2>4 DEF Told
  <2>6. /\ InProgress = [k \in 1..n |-> Told(stack[k])]
        /\ InProgress' = [k \in 1..n |-> Told(stack'[k])]
    BY <2>3, ToldOf DEF Telling
  <2> HIDE DEF n
  <2> QED
    BY <2>5, <2>6
<1> QED
  BY <1>2, <1>3 DEF Descriptors!teeVars

(* exit().                                                                    *)
LEMMA ExitTees ==
    ASSUME Exit, Undisturbed' = Undisturbed
    PROVE  Descriptors!Exit
<1>1. UnloadBegin /\ posix_files' = posix_files /\ stack' = <<>>
  BY DEF Exit
<1>2. InProgress' = <<>> /\ Streamed' = Streamed
  BY <1>1, NoneTold DEF Streamed
<1> QED
  BY <1>1, <1>2, ExitEnds DEF Descriptors!Exit

(* The table is filled before the program runs and emptied after it.          *)
LEMMA LoaderTees ==
    ASSUME TeeInv, Loader, Undisturbed' = Undisturbed
    PROVE  Descriptors!Install \/ Descriptors!TakeDown \/ UNCHANGED Descriptors!teeVars
<1>1. stack = <<>> /\ stack' = stack /\ posix_files' = posix_files
  BY DEF Loader, posixVars
<1>2. InProgress = <<>> /\ InProgress' = <<>> /\ Streamed' = Streamed
  BY <1>1, NoneTold DEF Streamed
<1>3. CASE Load
  <2>1. /\ Stage = "starting" /\ Stage' \in {"starting", "running"}
        /\ \A h \in Descriptors!Hooks, n \in Name : Listening[h][n] \subseteq Listening'[h][n]
    BY <1>3, LoadInstalls, TeeTyped DEF Descriptors!Hooks
  <2>2. Listening' \in Descriptors!Audience
    <3>1. \A h, n : Called(h, n)' \subseteq Entry
      BY CalledEntries DEF Called, Visible
    <3> QED
      BY <3>1 DEF Listening, Descriptors!Audience, Descriptors!Hooks
  <2> QED
    BY <1>2, <2>1, <2>2 DEF Descriptors!Install
<1>4. CASE Unload
  <2>1. /\ Stage = "ending" /\ Stage' = "ending"
        /\ Listening' = Listening \/ Listening' = Descriptors!Nobody
    BY <1>4, UnloadTakesDown, TeeTyped DEF Descriptors!Nobody, Descriptors!Hooks
  <2> QED
    BY <1>2, <2>1 DEF Descriptors!TakeDown, Descriptors!teeVars
<1> QED
  BY <1>3, <1>4 DEF Loader

LEMMA CallTees ==
    ASSUME TeeInv, Undisturbed, Undisturbed', env' = env, Calls
    PROVE  [Descriptors!TeeNext]_(Descriptors!teeVars)
<1>1. env.opens \subseteq Name /\ env.sizes \subseteq Nat
  BY TeeTyped, PosixSituAssumption DEF PosixTypeOK, Environment
<1>2. ASSUME NEW c \in Caller, NEW n \in env.opens, OpenTracked(c, n) PROVE Descriptors!TeeNext
  BY <1>1, <1>2, OpenTees DEF Descriptors!TeeNext
<1>3. ASSUME NEW c \in Caller, NEW fd \in FD, NEW sz \in env.sizes, Write(c, fd, sz)
      PROVE  Descriptors!TeeNext
  BY <1>1, <1>3, WriteTees DEF Descriptors!TeeNext
<1>4. ASSUME NEW c \in Caller, NEW fd \in FD, CloseTracked(c, fd) PROVE Descriptors!TeeNext
  BY <1>4, CloseTees DEF Descriptors!TeeNext
<1>5. ASSUME NEW c \in Caller, NEW n \in env.opens, OpenUntracked(c, n)
      PROVE  UNCHANGED Descriptors!teeVars
  BY <1>5, NothingTold DEF OpenUntracked, fprocVars
<1>6. ASSUME NEW c \in Caller, NEW fd \in FD, CloseUntracked(c, fd) \/ CloseBypass(fd)
      PROVE  UNCHANGED Descriptors!teeVars
  BY <1>6, NothingTold DEF CloseUntracked, CloseBypass, fprocVars
<1> QED
  BY <1>2, <1>3, <1>4, <1>5, <1>6 DEF Calls, Caller

LEMMA ReturningTees ==
    ASSUME TeeInv, Undisturbed, Undisturbed', Returns
    PROVE  [Descriptors!TeeNext]_(Descriptors!teeVars)
<1>1. ASSUME NEW n \in 1..MaxBytes, WriteSome(n) PROVE UNCHANGED Descriptors!teeVars
  <2>1. n \in Nat
    BY PosixSituAssumption
  <2> QED
    BY <1>1, <2>1, WriteSomeTees
<1> QED
  BY <1>1, ReturnTees, HookTees DEF Returns, Descriptors!TeeNext

\* Of a disturbed run only the table of the processors is told.
LEMMA MaskedTees ==
    ASSUME ~Undisturbed, Undisturbed' = Undisturbed,
           Calls \/ Returns \/ UNCHANGED vars
    PROVE  UNCHANGED Descriptors!teeVars
<1>1. UNCHANGED fprocVars
  BY DEF Calls, Returns, OpenUntracked, OpenTracked, Write, CloseUntracked, CloseTracked,
         CloseBypass, OpenReturn, WriteReturn, WriteError, Report, CloseReturn, HookReturn,
         WriteSome, vars
<1>2. Stage' = Stage /\ Listening' = Listening
  BY <1>1, StageStays, ListeningStays DEF fprocVars
<1>3. InProgress' = InProgress /\ Streamed' = Streamed
  BY ToldOf
<1> QED
  BY <1>2, <1>3 DEF Descriptors!teeVars

LEMMA TeeStep ==
    ASSUME TeeInv, [Next]_vars
    PROVE  [Descriptors!TeeNext]_(Descriptors!teeVars)
<1>0. env' = env /\ Undisturbed' = Undisturbed
  BY Undisturbing
<1>1. CASE Exit
  BY <1>0, <1>1, ExitTees DEF Descriptors!TeeNext
<1>2. CASE Loader
  BY <1>0, <1>2, LoaderTees DEF Descriptors!TeeNext
<1>3. CASE ~Undisturbed /\ (Calls \/ Returns \/ UNCHANGED vars)
  BY <1>0, <1>3, MaskedTees
<1>4. CASE Undisturbed /\ Calls
  BY <1>0, <1>4, CallTees
<1>5. CASE Undisturbed /\ Returns
  BY <1>0, <1>5, ReturningTees
<1>6. CASE UNCHANGED vars
  BY <1>6, NothingTold DEF vars, posixVars, fprocVars
<1> QED
  BY <1>1, <1>2, <1>3, <1>4, <1>5, <1>6 DEF Next

LEMMA TeeStart == ASSUME Init PROVE TeeInv /\ Descriptors!TeeInit
<1>1. PosixInv /\ AllStream /\ CallsAfterLoad
  BY PosixInitInv, StreamInit DEF Init, CallsAfterLoad
<1>2. Stage = "starting" /\ InProgress = <<>>
  BY NoneTold DEF Init, FprocInit, Stage
<1>3. Streamed = {}
  BY DEF Init, NoFile, Streamed
<1>4. Listening = Descriptors!Nobody
  <2>1. Visible = {}
    BY FprocAssumption DEF Init, FprocInit, NoProc, Visible, Entry
  <2>2. \A h, n : Called(h, n) = {}
    BY <2>1 DEF Called
  <2> QED
    BY <2>2 DEF Listening, Descriptors!Nobody, Descriptors!Hooks
<1> QED
  BY <1>1, <1>2, <1>3, <1>4 DEF TeeInv, Descriptors!TeeInit

(* The interposer of open, write and close (posix.c:68-157) is a Tee, for     *)
(* every nesting of its hooks, partial write, failure, reuse of descriptors   *)
(* and exit, in every run in which nobody closes descriptors behind its back  *)
(* or writes to descriptor 0; the processors are fixed in the others, too.    *)
THEOREM PosixImplementsTee == Spec => DescriptorsTeed
<1>1. Init => TeeInv /\ Descriptors!TeeInit
  BY TeeStart
<1>2. TeeInv /\ [Next]_vars => TeeInv'
  BY TeeInvStep
<1>3. TeeInv /\ [Next]_vars => [Descriptors!TeeNext]_(Descriptors!teeVars)
  BY TeeStep
<1> QED
  BY <1>1, <1>2, <1>3, PTL DEF Spec, DescriptorsTeed, Descriptors!TeeSpec

=============================================================================
