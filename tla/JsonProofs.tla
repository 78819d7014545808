----------------------------- MODULE JsonProofs ------------------------------
(* The parser's two passes, for texts of any length. Both passes are seen as   *)
(* one machine that does not know which pass it is in (After): it reads        *)
(* characters and keeps of each node what both passes have. The first pass     *)
(* leaves a trail of this machine's states; the second goes along it, and      *)
(* what only grows on the way is never more than it was at the end.            *)
(* The last part is about the tree the second pass builds, and what the walk   *)
(* of json_value_free_ex frees of it.                                          *)
EXTENDS Json, SequenceTheorems, WellFoundedInduction, TLAPS

-----------------------------------------------------------------------------
(* The machine.                                                               *)

Modes == {"seek_value", "string", "escaped", "done", "need_comma", "need_colon"}
Containers == {"object", "array"}
Kinds == {"object", "array", "string", "word", "number"}

Kind(type) == IF type \in {"integer", "double"} THEN "number" ELSE type
Bare(n) == [type |-> Kind(n.type), parent |-> n.parent, count |-> n.count, names |-> n.names]
BareNode == [type : Kinds, parent : Nat, count : Nat, names : Nat]

State(fs, k, l, bs) == [flags |-> fs, top |-> k, length |-> l, bare |-> bs]
Start == State({"seek_value"}, 0, 0, <<>>)

Fresh(type, up) == [type |-> type, parent |-> up, count |-> 0, names |-> 0]
Begun(s, type) == Append(s.bare, Fresh(type, s.top))

\* A node with another count, or other bytes of names.
CountAt(bs, k, n) == [bs EXCEPT ![k].count = n]
NamesAt(bs, k, n) == [bs EXCEPT ![k].names = n]

\* A value is complete.
Counted(bs, k) ==
    IF bs[k].parent = 0 THEN bs
    ELSE CountAt(bs, bs[k].parent, bs[bs[k].parent].count + 1)
Wanted(bs, k) == IF bs[k].parent = 0 THEN {"done"}
                 ELSE IF bs[bs[k].parent].type = "array" THEN {"seek_value"} ELSE {}
Closed(l, bs, k, rest) ==
    State((rest \ {"seek_value"}) \cup {"need_comma"} \cup Wanted(bs, k),
          IF bs[k].parent = 0 THEN k ELSE bs[k].parent, l, Counted(bs, k))

\* The bytes of a string or of a name are put down.
Sized(s) == CountAt(s.bare, s.top, s.length)
Named(s) == NamesAt(s.bare, s.top, s.bare[s.top].names + s.length + 1)

AfterInString(s, b) ==
    IF "escaped" \in s.flags
    THEN State(s.flags \ {"escaped"}, s.top, s.length + EscapedBytes(b), s.bare)
    ELSE IF b = "\\" THEN State(s.flags \cup {"escaped"}, s.top, s.length, s.bare)
    ELSE IF b # "quote" THEN State(s.flags, s.top, s.length + PlainBytes(b), s.bare)
    ELSE IF s.bare[s.top].type = "string"
    THEN Closed(s.length, Sized(s), s.top, s.flags \ {"string"})
    ELSE State((s.flags \ {"string"}) \cup {"seek_value", "need_colon"}, s.top, s.length, Named(s))

AfterSeeking(s, b) ==
    IF b = ":" THEN State(s.flags \ {"need_colon"}, s.top, s.length, s.bare)
    ELSE IF b = "]" THEN Closed(s.length, s.bare, s.top, s.flags)
    ELSE IF b = "{"
    THEN State(s.flags \ {"seek_value"}, Len(s.bare) + 1, s.length, Begun(s, "object"))
    ELSE IF b = "[" THEN State(s.flags, Len(s.bare) + 1, s.length, Begun(s, "array"))
    ELSE IF b = "quote"
    THEN State((s.flags \ {"seek_value"}) \cup {"string"}, Len(s.bare) + 1, 0, Begun(s, "string"))
    ELSE Closed(s.length, Begun(s, IF b = "word" THEN "word" ELSE "number"),
                Len(s.bare) + 1, s.flags)

AfterInObject(s, b) ==
    IF b = "quote" THEN State(s.flags \cup {"string"}, s.top, 0, s.bare)
    ELSE Closed(s.length, s.bare, s.top, s.flags)

After(s, b) ==
    IF "string" \in s.flags THEN AfterInString(s, b)
    ELSE IF "done" \in s.flags \/ b = "space" THEN s
    ELSE IF b = "," THEN State(s.flags \ {"need_comma"}, s.top, s.length, s.bare)
    ELSE IF "seek_value" \in s.flags THEN AfterSeeking(s, b)
    ELSE AfterInObject(s, b)

\* The characters that are not refused.
Opening == {"{", "[", "quote", "word", "-"} \cup Digit
AcceptsSeeking(s, b) ==
    \/ b = "space"
    \/ b = "]" /\ s.top # 0 /\ s.bare[s.top].type = "array"
    \/ b = "," /\ "need_comma" \in s.flags
    \/ b = ":" /\ "need_colon" \in s.flags /\ "need_comma" \notin s.flags
    \/ b \in Opening /\ s.flags \cap {"need_comma", "need_colon"} = {}
Accepts(s, b) ==
    /\ b # EOF
    /\ IF "string" \in s.flags THEN ~(b = "u" /\ "escaped" \in s.flags)
       ELSE IF "done" \in s.flags THEN b = "space"
       ELSE IF "seek_value" \in s.flags THEN AcceptsSeeking(s, b)
       ELSE \/ b \in {"space", "}"}
            \/ b = "," /\ "need_comma" \in s.flags
            \/ b = "quote" /\ "need_comma" \notin s.flags

-----------------------------------------------------------------------------
(* What the machine's states are like.                                        *)

Family(bs) ==
    /\ bs \in Seq(BareNode)
    /\ \A k \in 1..Len(bs) :
          /\ bs[k].parent < k /\ (bs[k].parent = 0 <=> k = 1)
          /\ bs[k].parent # 0 => bs[bs[k].parent].type \in Containers
          /\ bs[k].type \in {"word", "number"} => bs[k].count = 0 /\ bs[k].names = 0

Sound(s) ==
    /\ s = State(s.flags, s.top, s.length, s.bare)
    /\ s.flags \subseteq Modes /\ s.length \in Nat /\ Family(s.bare)
    /\ s.top \in 0..Len(s.bare) /\ (s.top = 0 <=> Len(s.bare) = 0)
    /\ "done" \in s.flags => s.top = 1 /\ "string" \notin s.flags /\ "seek_value" \notin s.flags
    /\ "string" \in s.flags =>
          /\ s.top # 0 /\ s.bare[s.top].type \in {"string", "object"} /\ "seek_value" \notin s.flags
          /\ s.bare[s.top].type = "string" => s.bare[s.top].count = 0
    /\ "string" \notin s.flags /\ "done" \notin s.flags =>
          IF "seek_value" \in s.flags THEN s.top # 0 => s.bare[s.top].type \in Containers
          ELSE s.top # 0 /\ s.bare[s.top].type = "object"

(* The fields of a node.                                                       *)
LEMMA Parts ==
    ASSUME NEW bs, Family(bs), NEW k \in 1..Len(bs)
    PROVE  /\ bs \in Seq(BareNode) /\ Len(bs) \in Nat
           /\ bs[k] = [type |-> bs[k].type, parent |-> bs[k].parent,
                       count |-> bs[k].count, names |-> bs[k].names]
           /\ bs[k].type \in Kinds /\ bs[k].parent \in Nat /\ bs[k].count \in Nat /\ bs[k].names \in Nat
           /\ bs[k].parent # 0 => bs[k].parent \in 1..Len(bs) /\ bs[k].parent # k
                                  /\ bs[bs[k].parent].type \in Containers
<1>1. bs \in Seq(BareNode) /\ Len(bs) \in Nat
  BY DEF Family
<1>2. bs[k] \in BareNode
  BY <1>1
<1> QED
  BY <1>1, <1>2 DEF Family, BareNode

(* A new node.                                                                *)
LEMMA FamilyBegun ==
    ASSUME NEW s, Family(s.bare), s.top \in 0..Len(s.bare), s.top = 0 <=> Len(s.bare) = 0,
           s.top # 0 => s.bare[s.top].type \in Containers, NEW type \in Kinds
    PROVE  /\ Family(Begun(s, type)) /\ Len(Begun(s, type)) = Len(s.bare) + 1
           /\ Begun(s, type)[Len(s.bare) + 1] = Fresh(type, s.top)
           /\ \A k \in 1..Len(s.bare) : Begun(s, type)[k] = s.bare[k]
<1> DEFINE bs == s.bare
           new == Begun(s, type)
           n == Len(bs)
<1>1. bs \in Seq(BareNode) /\ n \in Nat
  BY DEF Family
<1>2. Fresh(type, s.top) \in BareNode
  BY <1>1 DEF Fresh, BareNode
<1>3. /\ new \in Seq(BareNode) /\ Len(new) = n + 1 /\ new[n + 1] = Fresh(type, s.top)
      /\ \A k \in 1..n : new[k] = bs[k]
  BY <1>1, <1>2 DEF Begun
<1> HIDE DEF new
<1>4. ASSUME NEW k \in 1..(n + 1)
      PROVE  /\ new[k].parent < k /\ (new[k].parent = 0 <=> k = 1)
             /\ new[k].parent # 0 => new[new[k].parent].type \in Containers
             /\ new[k].type \in {"word", "number"} => new[k].count = 0 /\ new[k].names = 0
  <2>1. CASE k = n + 1
    <3>1. new[k].parent = s.top /\ new[k].count = 0 /\ new[k].names = 0
      BY <1>3, <2>1 DEF Fresh
    <3>2. s.top # 0 => new[s.top] = s.bare[s.top]
      BY <1>1, <1>3
    <3> QED
      BY <1>1, <2>1, <3>1, <3>2
  <2>2. CASE k \in 1..n
    <3>1. new[k] = bs[k] /\ bs[k].parent \in Nat
      BY <1>3, <2>2, Parts
    <3>2. bs[k].parent # 0 => new[bs[k].parent] = bs[bs[k].parent]
      BY <1>3, <2>2, Parts
    <3> QED
      BY <2>2, <3>1, <3>2 DEF Family
  <2> QED
    BY <1>1, <2>1, <2>2
<1>5. Family(new)
  BY <1>1, <1>3, <1>4 DEF Family
<1> QED
  BY <1>3, <1>5 DEF new

\* A node is changed in its numbers only.
Adjusted(bs, cs, k) ==
    /\ Len(cs) = Len(bs)
    /\ \A i \in 1..Len(bs) : i # k => cs[i] = bs[i]
    /\ cs[k].type = bs[k].type /\ cs[k].parent = bs[k].parent

(* ... keeps the nodes a family.                                               *)
LEMMA FamilyAdjusted ==
    ASSUME NEW bs, NEW cs, Family(bs), NEW k \in 1..Len(bs), cs \in Seq(BareNode),
           Adjusted(bs, cs, k), bs[k].type \notin {"word", "number"}
    PROVE  Family(cs)
<1>1. \A i \in 1..Len(bs) : cs[i].type = bs[i].type /\ cs[i].parent = bs[i].parent
  BY DEF Adjusted
<1>2. bs \in Seq(BareNode) /\ Len(bs) \in Nat
  BY DEF Family
<1>3. \A i \in 1..Len(bs) : bs[i].parent \in Nat /\ bs[i].parent < i
  BY Parts DEF Family
<1>4. ASSUME NEW i \in 1..Len(cs)
      PROVE  /\ cs[i].parent < i /\ (cs[i].parent = 0 <=> i = 1)
             /\ cs[i].parent # 0 => cs[cs[i].parent].type \in Containers
             /\ cs[i].type \in {"word", "number"} => cs[i].count = 0 /\ cs[i].names = 0
  <2>1. i \in 1..Len(bs)
    BY DEF Adjusted
  <2>2. cs[i].parent = bs[i].parent /\ cs[i].type = bs[i].type
    BY <1>1, <2>1
  <2>3. bs[i].parent # 0 => bs[i].parent \in 1..Len(bs)
    BY <1>2, <1>3, <2>1
  <2>4. bs[i].parent # 0 => cs[bs[i].parent].type = bs[bs[i].parent].type
    BY <1>1, <2>3
  <2>5. cs[i].type \in {"word", "number"} => cs[i] = bs[i]
    BY <2>1, <2>2 DEF Adjusted
  <2> QED
    BY <2>1, <2>2, <2>4, <2>5 DEF Family
<1> QED
  BY <1>4 DEF Family

(* Counting an entry, putting a length down: one node changes.                 *)
LEMMA CountPut ==
    ASSUME NEW bs, Family(bs), NEW k \in 1..Len(bs), NEW c \in Nat
    PROVE  /\ CountAt(bs, k, c) \in Seq(BareNode) /\ Adjusted(bs, CountAt(bs, k, c), k)
           /\ CountAt(bs, k, c)[k].count = c /\ CountAt(bs, k, c)[k].names = bs[k].names
<1> DEFINE x == [bs[k] EXCEPT !.count = c]
<1>1. bs \in Seq(BareNode) /\ Len(bs) \in Nat /\ DOMAIN bs = 1..Len(bs)
  BY DEF Family
<1>2. bs[k] \in BareNode
  BY <1>1
<1>3. x \in BareNode
  BY <1>2 DEF BareNode
<1>4. x.type = bs[k].type /\ x.parent = bs[k].parent /\ x.count = c /\ x.names = bs[k].names
  BY <1>2 DEF BareNode
<1> DEFINE cs == CountAt(bs, k, c)
<1>5. cs = [bs EXCEPT ![k] = x]
  BY DEF CountAt
<1> HIDE DEF x, cs
<1>6. /\ cs \in Seq(BareNode) /\ Len(cs) = Len(bs) /\ cs[k] = x
      /\ \A i \in 1..Len(bs) : i # k => cs[i] = bs[i]
  BY <1>1, <1>3, <1>5
<1> QED
  BY <1>4, <1>6 DEF Adjusted, cs

(* ... or bytes of names.                                                    *)
LEMMA NamesPut ==
    ASSUME NEW bs, Family(bs), NEW k \in 1..Len(bs), NEW m \in Nat
    PROVE  /\ NamesAt(bs, k, m) \in Seq(BareNode) /\ Adjusted(bs, NamesAt(bs, k, m), k)
           /\ NamesAt(bs, k, m)[k].names = m /\ NamesAt(bs, k, m)[k].count = bs[k].count
<1> DEFINE x == [bs[k] EXCEPT !.names = m]
<1>1. bs \in Seq(BareNode) /\ Len(bs) \in Nat /\ DOMAIN bs = 1..Len(bs)
  BY DEF Family
<1>2. bs[k] \in BareNode
  BY <1>1
<1>3. x \in BareNode
  BY <1>2 DEF BareNode
<1>4. x.type = bs[k].type /\ x.parent = bs[k].parent /\ x.names = m /\ x.count = bs[k].count
  BY <1>2 DEF BareNode
<1> DEFINE cs == NamesAt(bs, k, m)
<1>5. cs = [bs EXCEPT ![k] = x]
  BY DEF NamesAt
<1> HIDE DEF x, cs
<1>6. /\ cs \in Seq(BareNode) /\ Len(cs) = Len(bs) /\ cs[k] = x
      /\ \A i \in 1..Len(bs) : i # k => cs[i] = bs[i]
  BY <1>1, <1>3, <1>5
<1> QED
  BY <1>4, <1>6 DEF Adjusted, cs

(* A value that is complete leaves a sound state.                              *)
LEMMA ClosedSound ==
    ASSUME NEW bs, Family(bs), NEW k \in 1..Len(bs), NEW l \in Nat, NEW rest, rest \subseteq Modes,
           "string" \notin rest, "done" \notin rest
    PROVE  /\ Sound(Closed(l, bs, k, rest))
           /\ bs[k].parent # 0 => /\ Adjusted(bs, Counted(bs, k), bs[k].parent)
                                  /\ Counted(bs, k)[bs[k].parent].count = bs[bs[k].parent].count + 1
                                  /\ Counted(bs, k)[bs[k].parent].names = bs[bs[k].parent].names
<1> DEFINE up == bs[k].parent
           cs == Counted(bs, k)
<1>1. /\ up \in Nat /\ Len(bs) \in Nat /\ bs \in Seq(BareNode)
      /\ up # 0 => up \in 1..Len(bs) /\ bs[up].type \in Containers
  BY Parts
<1>2. up # 0 => /\ cs \in Seq(BareNode) /\ Adjusted(bs, cs, up)
                /\ cs[up].count = bs[up].count + 1 /\ cs[up].names = bs[up].names
  <2> SUFFICES ASSUME up # 0
               PROVE  /\ cs \in Seq(BareNode) /\ Adjusted(bs, cs, up)
                      /\ cs[up].count = bs[up].count + 1 /\ cs[up].names = bs[up].names
    OBVIOUS
  <2>1. bs[up].count \in Nat /\ bs[up].count + 1 \in Nat
    <3>1. up \in 1..Len(bs)
      BY <1>1
    <3> HIDE DEF up
    <3>2. bs[up].count \in Nat
      BY <3>1, Parts
    <3> QED
      BY <3>2
  <2> DEFINE c == bs[up].count + 1
  <2>2. cs = CountAt(bs, up, c)
    BY DEF Counted
  <2>3. up \in 1..Len(bs) /\ c \in Nat
    BY <1>1, <2>1
  <2> HIDE DEF up, cs, c
  <2>4. /\ cs \in Seq(BareNode) /\ Adjusted(bs, cs, up)
        /\ cs[up].count = c /\ cs[up].names = bs[up].names
    BY <2>2, <2>3, CountPut
  <2> QED
    BY <2>4 DEF c
<1>3. up = 0 => cs = bs /\ k = 1
  BY DEF Counted, Family
<1>4. up # 0 => bs[up].type \notin {"word", "number"}
  BY <1>1 DEF Containers
<1>5. Family(cs) /\ Len(cs) = Len(bs)
  <2>1. CASE up = 0
    BY <1>3, <2>1
  <2>2. CASE up # 0
    <3>1. Family(cs)
      BY <1>1, <1>2, <1>4, <2>2, FamilyAdjusted
    <3> QED
      BY <1>2, <2>2, <3>1 DEF Adjusted
  <2> QED
    BY <2>1, <2>2
<1>6. up # 0 => cs[up].type = bs[up].type
  BY <1>2 DEF Adjusted
<1> DEFINE s == Closed(l, bs, k, rest)
<1>7. /\ s.flags = (rest \ {"seek_value"}) \cup {"need_comma"} \cup Wanted(bs, k)
      /\ s.top = (IF up = 0 THEN k ELSE up) /\ s.length = l /\ s.bare = cs
      /\ s = State(s.flags, s.top, s.length, s.bare)
  BY DEF Closed, State
<1> HIDE DEF s, cs
<1>8. Wanted(bs, k) = IF up = 0 THEN {"done"} ELSE IF bs[up].type = "array" THEN {"seek_value"} ELSE {}
  BY DEF Wanted
<1> HIDE DEF up
<1>9. s.flags \subseteq Modes /\ "string" \notin s.flags
      /\ ("done" \in s.flags <=> up = 0)
      /\ ("seek_value" \in s.flags <=> up # 0 /\ bs[up].type = "array")
  BY <1>7, <1>8 DEF Modes
<1>10. s.top \in 1..Len(s.bare)
  BY <1>1, <1>5, <1>7
<1>11. up # 0 => s.bare[s.top].type \in Containers
                 /\ ("seek_value" \notin s.flags => s.bare[s.top].type = "object")
  BY <1>1, <1>6, <1>7, <1>9 DEF Containers
<1>12. up = 0 => s.top = 1 /\ "seek_value" \notin s.flags
  BY <1>3, <1>7, <1>9 DEF up
<1>13. Sound(s)
  BY <1>1, <1>5, <1>7, <1>9, <1>10, <1>11, <1>12 DEF Sound
<1> QED
  BY <1>2, <1>13 DEF s, up, cs

-----------------------------------------------------------------------------
(* What only grows from one state to a later one.                             *)

NodesGrow(bs, cs) ==
    /\ Len(bs) <= Len(cs)
    /\ \A k \in 1..Len(bs) :
          /\ cs[k].type = bs[k].type /\ cs[k].parent = bs[k].parent
          /\ bs[k].count <= cs[k].count /\ bs[k].names <= cs[k].names

\* The string that s is in is longer in t, or it has been put down by then.
StillIn(s, t) == "string" \in t.flags /\ t.top = s.top
Held(s, t) ==
    IF s.bare[s.top].type = "string"
    THEN \/ s.length <= t.bare[s.top].count
         \/ StillIn(s, t) /\ s.length <= t.length
    ELSE \/ s.bare[s.top].names + s.length < t.bare[s.top].names
         \/ /\ StillIn(s, t)
            /\ s.bare[s.top].names + s.length <= t.bare[s.top].names + t.length
Grows(s, t) ==
    /\ NodesGrow(s.bare, t.bare)
    /\ "string" \in s.flags => Held(s, t)
    /\ "done" \in s.flags => "done" \in t.flags /\ t.bare = s.bare

(* Nodes that grow twice have grown.                                          *)
LEMMA NodesGrowOn ==
    ASSUME NEW bs, NEW cs, NEW ds, Family(bs), Family(cs), Family(ds),
           NodesGrow(bs, cs), NodesGrow(cs, ds)
    PROVE  NodesGrow(bs, ds)
<1>1. Len(bs) \in Nat /\ Len(cs) \in Nat /\ Len(ds) \in Nat
  BY DEF Family
<1>2. Len(bs) <= Len(cs) /\ Len(cs) <= Len(ds)
  BY DEF NodesGrow
<1>3. ASSUME NEW k \in 1..Len(bs)
      PROVE  /\ ds[k].type = bs[k].type /\ ds[k].parent = bs[k].parent
             /\ bs[k].count <= ds[k].count /\ bs[k].names <= ds[k].names
  <2>1. k \in 1..Len(cs) /\ k \in 1..Len(ds)
    BY <1>1, <1>2
  <2>2. /\ bs[k].count \in Nat /\ cs[k].count \in Nat /\ ds[k].count \in Nat
        /\ bs[k].names \in Nat /\ cs[k].names \in Nat /\ ds[k].names \in Nat
    BY <2>1, Parts
  <2>3. /\ cs[k].type = bs[k].type /\ cs[k].parent = bs[k].parent
        /\ bs[k].count <= cs[k].count /\ bs[k].names <= cs[k].names
    BY DEF NodesGrow
  <2>4. /\ ds[k].type = cs[k].type /\ ds[k].parent = cs[k].parent
        /\ cs[k].count <= ds[k].count /\ cs[k].names <= ds[k].names
    BY <2>1 DEF NodesGrow
  <2> QED
    BY <2>2, <2>3, <2>4
<1>4. Len(bs) <= Len(ds)
  BY <1>1, <1>2
<1> QED
  BY <1>3, <1>4 DEF NodesGrow

(* A change of one node's numbers upwards.                                     *)
LEMMA NodesGrowAdjusted ==
    ASSUME NEW bs, NEW cs, Family(bs), NEW k \in 1..Len(bs), Adjusted(bs, cs, k),
           bs[k].count <= cs[k].count, bs[k].names <= cs[k].names
    PROVE  NodesGrow(bs, cs)
<1>1. Len(bs) \in Nat /\ Len(cs) = Len(bs)
  BY DEF Family, Adjusted
<1>2. ASSUME NEW i \in 1..Len(bs)
      PROVE  /\ cs[i].type = bs[i].type /\ cs[i].parent = bs[i].parent
             /\ bs[i].count <= cs[i].count /\ bs[i].names <= cs[i].names
  <2>1. bs[i].count \in Nat /\ bs[i].names \in Nat
    BY Parts
  <2>2. CASE i = k
    BY <2>2 DEF Adjusted
  <2>3. CASE i # k
    BY <2>1, <2>3 DEF Adjusted
  <2> QED
    BY <2>2, <2>3
<1> QED
  BY <1>1, <1>2 DEF NodesGrow

(* Nodes have not shrunk since now.                                            *)
LEMMA NodesGrowNot ==
    ASSUME NEW bs, Family(bs)
    PROVE  NodesGrow(bs, bs)
<1>1. Len(bs) \in Nat
  BY DEF Family
<1>2. \A i \in 1..Len(bs) : bs[i].count \in Nat /\ bs[i].names \in Nat
  BY Parts
<1> QED
  BY <1>1, <1>2 DEF NodesGrow

(* ... and a state neither; two steps of growth are one.                       *)
LEMMA GrowsOn ==
    ASSUME NEW s, NEW t, NEW u, Sound(s), Sound(t), Sound(u), Grows(s, t), Grows(t, u)
    PROVE  Grows(s, u)
<1>1. NodesGrow(s.bare, u.bare)
  BY NodesGrowOn DEF Grows, Sound
<1>2. "done" \in s.flags => "done" \in u.flags /\ u.bare = s.bare
  BY DEF Grows
<1>3. ASSUME "string" \in s.flags
      PROVE  Held(s, u)
  <2> DEFINE k == s.top
  <2>1. /\ k \in 1..Len(s.bare) /\ k \in 1..Len(t.bare) /\ k \in 1..Len(u.bare)
    <3>1. Len(s.bare) \in Nat /\ Len(t.bare) \in Nat /\ Len(u.bare) \in Nat
      BY DEF Sound, Family
    <3>2. Len(s.bare) <= Len(t.bare) /\ Len(s.bare) <= Len(u.bare)
      BY <1>1 DEF Grows, NodesGrow
    <3>3. k \in 1..Len(s.bare)
      BY <1>3, <3>1 DEF Sound
    <3> QED
      BY <3>1, <3>2, <3>3
  <2>2. Family(s.bare) /\ Family(t.bare) /\ Family(u.bare)
    BY DEF Sound
  <2> HIDE DEF k
  <2>3. /\ s.bare[k].names \in Nat /\ t.bare[k].names \in Nat /\ u.bare[k].names \in Nat
        /\ s.bare[k].count \in Nat /\ t.bare[k].count \in Nat /\ u.bare[k].count \in Nat
    BY <2>1, <2>2, Parts
  <2>4. s.length \in Nat /\ t.length \in Nat /\ u.length \in Nat
    BY DEF Sound
  <2>5. /\ t.bare[k].type = s.bare[k].type
        /\ t.bare[k].count <= u.bare[k].count /\ t.bare[k].names <= u.bare[k].names
    BY <2>1 DEF Grows, NodesGrow
  <2>6. Held(s, t)
    BY <1>3 DEF Grows
  <2>7. StillIn(s, t) => Held(t, u) /\ t.top = k
    BY DEF Grows, StillIn, k
  <2>8. t.top = k => (StillIn(t, u) => StillIn(s, u))
    BY DEF StillIn, k
  <2>9. CASE s.bare[k].type = "string"
    <3>1. s.length <= t.bare[k].count \/ (StillIn(s, t) /\ s.length <= t.length)
      BY <2>6, <2>9 DEF Held, k
    <3>2. t.top = k /\ Held(t, u) =>
             t.length <= u.bare[k].count \/ (StillIn(t, u) /\ t.length <= u.length)
      BY <2>5, <2>9 DEF Held
    <3>3. s.length <= u.bare[k].count \/ (StillIn(s, u) /\ s.length <= u.length)
      BY <2>3, <2>4, <2>5, <2>7, <2>8, <3>1, <3>2
    <3> QED
      BY <2>9, <3>3 DEF Held, k
  <2>10. CASE s.bare[k].type # "string"
    <3>1. \/ s.bare[k].names + s.length < t.bare[k].names
          \/ StillIn(s, t) /\ s.bare[k].names + s.length <= t.bare[k].names + t.length
      BY <2>6, <2>10 DEF Held, k
    <3>2. t.top = k /\ Held(t, u) =>
             \/ t.bare[k].names + t.length < u.bare[k].names
             \/ StillIn(t, u) /\ t.bare[k].names + t.length <= u.bare[k].names + u.length
      BY <2>5, <2>10 DEF Held
    <3>3. \/ s.bare[k].names + s.length < u.bare[k].names
          \/ StillIn(s, u) /\ s.bare[k].names + s.length <= u.bare[k].names + u.length
      BY <2>3, <2>4, <2>5, <2>7, <2>8, <3>1, <3>2
    <3> QED
      BY <2>10, <3>3 DEF Held, k
  <2> QED
    BY <2>9, <2>10
<1> QED
  BY <1>1, <1>2, <1>3 DEF Grows

(* A step that changes no node.                                                *)
LEMMA NodesLeft ==
    ASSUME NEW s, Sound(s), NEW fs, fs \subseteq Modes, NEW l \in Nat,
           Sound(State(fs, s.top, l, s.bare)),
           "done" \in s.flags => "done" \in fs,
           "string" \in s.flags => "string" \in fs /\ s.length <= l
    PROVE  Grows(s, State(fs, s.top, l, s.bare))
<1> DEFINE t == State(fs, s.top, l, s.bare)
<1>1. t.flags = fs /\ t.top = s.top /\ t.length = l /\ t.bare = s.bare
  BY DEF State
<1> HIDE DEF t
<1>2. NodesGrow(s.bare, t.bare)
  BY <1>1, NodesGrowNot DEF Sound
<1>3. ASSUME "string" \in s.flags
      PROVE  Held(s, t)
  <2>1. s.top \in 1..Len(s.bare) /\ Family(s.bare)
    BY <1>3 DEF Sound, Family
  <2>2. s.bare[s.top].names \in Nat /\ s.bare[s.top].count \in Nat /\ s.length \in Nat
    BY <2>1, Parts DEF Sound
  <2> QED
    BY <1>1, <1>3, <2>2 DEF Held, StillIn
<1>4. Grows(s, t)
  BY <1>1, <1>2, <1>3 DEF Grows
<1> QED
  BY <1>4 DEF t

(* A step that begins a value.                                                 *)
LEMMA NodeMore ==
    ASSUME NEW s, Sound(s), "string" \notin s.flags, "done" \notin s.flags, "seek_value" \in s.flags,
           NEW type \in Kinds
    PROVE  /\ Family(Begun(s, type)) /\ Len(Begun(s, type)) = Len(s.bare) + 1
           /\ Begun(s, type)[Len(s.bare) + 1] = Fresh(type, s.top)
           /\ NodesGrow(s.bare, Begun(s, type))
<1>1. /\ Family(s.bare) /\ s.top \in 0..Len(s.bare) /\ (s.top = 0 <=> Len(s.bare) = 0)
      /\ (s.top # 0 => s.bare[s.top].type \in Containers)
  BY DEF Sound
<1>2. /\ Family(Begun(s, type)) /\ Len(Begun(s, type)) = Len(s.bare) + 1
      /\ Begun(s, type)[Len(s.bare) + 1] = Fresh(type, s.top)
      /\ \A k \in 1..Len(s.bare) : Begun(s, type)[k] = s.bare[k]
  BY <1>1, FamilyBegun
<1>3. Len(s.bare) \in Nat
  BY <1>1 DEF Family
<1>4. \A k \in 1..Len(s.bare) : s.bare[k].count \in Nat /\ s.bare[k].names \in Nat
  BY <1>1, Parts
<1>5. NodesGrow(s.bare, Begun(s, type))
  BY <1>2, <1>3, <1>4 DEF NodesGrow
<1> QED
  BY <1>2, <1>5

(* A step that ends a value: the nodes grow.                                   *)
LEMMA NodesGrowClosed ==
    ASSUME NEW bs, Family(bs), NEW k \in 1..Len(bs)
    PROVE  NodesGrow(bs, Counted(bs, k)) /\ Family(Counted(bs, k))
<1> DEFINE s == Closed(0, bs, k, {})
           up == bs[k].parent
<1>1. /\ Sound(s)
      /\ up # 0 => /\ Adjusted(bs, Counted(bs, k), up)
                   /\ Counted(bs, k)[up].count = bs[up].count + 1
                   /\ Counted(bs, k)[up].names = bs[up].names
  BY ClosedSound
<1>2. s.bare = Counted(bs, k)
  BY DEF Closed, State
<1> HIDE DEF s
<1>3. Family(Counted(bs, k))
  BY <1>1, <1>2 DEF Sound
<1>4. CASE up = 0
  <2>1. Counted(bs, k) = bs
    BY <1>4 DEF Counted
  <2> QED
    BY <1>3, <2>1, NodesGrowNot
<1>5. CASE up # 0
  <2>1. up \in 1..Len(bs)
    BY <1>5, Parts
  <2> HIDE DEF up
  <2>2. bs[up].count \in Nat /\ bs[up].names \in Nat
    BY <2>1, Parts
  <2>3. bs[up].count <= Counted(bs, k)[up].count /\ bs[up].names <= Counted(bs, k)[up].names
    BY <1>1, <1>5, <2>2
  <2>4. NodesGrow(bs, Counted(bs, k))
    BY <1>1, <1>5, <2>1, <2>3, NodesGrowAdjusted
  <2> QED
    BY <1>3, <2>4
<1> QED
  BY <1>4, <1>5

\* A step keeps the machine's state sound and only makes it grow.
StepsOn(s, t) == Sound(t) /\ Grows(s, t)

(* The step that ends a value outside a string.                                *)
LEMMA ClosedStep ==
    ASSUME NEW s, Sound(s), "string" \notin s.flags, "done" \notin s.flags,
           NEW bs, Family(bs), NodesGrow(s.bare, bs), NEW k \in 1..Len(bs)
    PROVE  StepsOn(s, Closed(s.length, bs, k, s.flags))
<1> DEFINE t == Closed(s.length, bs, k, s.flags)
<1>1. s.length \in Nat /\ s.flags \subseteq Modes /\ Family(s.bare)
  BY DEF Sound
<1>2. Sound(t)
  BY <1>1, ClosedSound
<1>3. t.bare = Counted(bs, k)
  BY DEF Closed, State
<1> HIDE DEF t
<1>4. NodesGrow(bs, t.bare) /\ Family(t.bare)
  BY <1>3, NodesGrowClosed
<1>5. NodesGrow(s.bare, t.bare)
  BY <1>1, <1>4, NodesGrowOn
<1>6. StepsOn(s, t)
  BY <1>2, <1>5 DEF StepsOn, Grows
<1> QED
  BY <1>6 DEF t

(* The bytes a character adds.                                                 *)
LEMMA BytesAdded ==
    ASSUME NEW b
    PROVE  PlainBytes(b) \in Nat /\ EscapedBytes(b) \in Nat
BY DEF PlainBytes, EscapedBytes, Unicode

(* A character inside a string.                                                *)
LEMMA StepInString ==
    ASSUME NEW s, NEW b, Sound(s), "string" \in s.flags, Accepts(s, b)
    PROVE  StepsOn(s, After(s, b))
<1> DEFINE k == s.top
           l == s.length
<1>1. /\ s.flags \subseteq Modes /\ l \in Nat /\ Family(s.bare)
      /\ s.bare[k].type \in {"string", "object"}
      /\ (s.bare[k].type = "string" => s.bare[k].count = 0)
      /\ "seek_value" \notin s.flags /\ "done" \notin s.flags
  BY DEF Sound
<1>2. k \in 1..Len(s.bare)
  BY <1>1 DEF Sound, Family
<1>3. After(s, b) = AfterInString(s, b)
  BY DEF After
<1>4. ASSUME NEW fs, fs \subseteq Modes, NEW m \in Nat, l <= m,
             "string" \in fs, "done" \notin fs, "seek_value" \notin fs
      PROVE  StepsOn(s, State(fs, k, m, s.bare))
  <2> DEFINE t == State(fs, k, m, s.bare)
  <2>1. t.flags = fs /\ t.top = k /\ t.length = m /\ t.bare = s.bare
        /\ t = State(t.flags, t.top, t.length, t.bare)
    BY DEF State
  <2> HIDE DEF t
  <2>2. Sound(t)
    BY <1>1, <1>4, <2>1 DEF Sound
  <2> USE DEF t
  <2>3. Grows(s, t)
    BY <1>1, <1>4, <2>2, NodesLeft
  <2> QED
    BY <2>2, <2>3 DEF StepsOn
<1>5. CASE "escaped" \in s.flags
  <2>1. After(s, b) = State(s.flags \ {"escaped"}, k, l + EscapedBytes(b), s.bare)
    BY <1>3, <1>5 DEF AfterInString
  <2>2. l + EscapedBytes(b) \in Nat /\ l <= l + EscapedBytes(b)
    BY <1>1, BytesAdded
  <2>3. s.flags \ {"escaped"} \subseteq Modes /\ "string" \in s.flags \ {"escaped"}
    BY <1>1
  <2> QED
    BY <1>1, <1>4, <2>1, <2>2, <2>3
<1>6. CASE "escaped" \notin s.flags /\ b = "\\"
  <2>1. After(s, b) = State(s.flags \cup {"escaped"}, k, l, s.bare)
    BY <1>3, <1>6 DEF AfterInString
  <2>2. s.flags \cup {"escaped"} \subseteq Modes
    BY <1>1 DEF Modes
  <2> QED
    BY <1>1, <1>4, <2>1, <2>2
<1>7. CASE "escaped" \notin s.flags /\ b \notin {"\\", "quote"}
  <2>1. After(s, b) = State(s.flags, k, l + PlainBytes(b), s.bare)
    BY <1>3, <1>7 DEF AfterInString
  <2>2. l + PlainBytes(b) \in Nat /\ l <= l + PlainBytes(b)
    BY <1>1, BytesAdded
  <2> QED
    BY <1>1, <1>4, <2>1, <2>2
<1>8. CASE "escaped" \notin s.flags /\ b = "quote" /\ s.bare[k].type = "string"
  <2> DEFINE bs == Sized(s)
  <2>1. bs = CountAt(s.bare, k, l)
    BY DEF Sized
  <2>2. /\ bs \in Seq(BareNode) /\ Adjusted(s.bare, bs, k)
        /\ bs[k].count = l /\ bs[k].names = s.bare[k].names
    <3> DEFINE as == s.bare
    <3>1. Family(as) /\ k \in 1..Len(as) /\ l \in Nat /\ bs = CountAt(as, k, l)
      BY <1>1, <1>2, <2>1
    <3> HIDE DEF as, bs, k, l
    <3>2. /\ bs \in Seq(BareNode) /\ Adjusted(as, bs, k)
          /\ bs[k].count = l /\ bs[k].names = as[k].names
      BY <3>1, CountPut
    <3> QED
      BY <3>2 DEF as
  <2>3. Family(bs) /\ Len(bs) = Len(s.bare)
    BY <1>1, <1>2, <1>8, <2>2, FamilyAdjusted DEF Adjusted
  <2>4. s.bare[k].names \in Nat
    BY <1>1, <1>2, Parts
  <2>5. NodesGrow(s.bare, bs)
    BY <1>1, <1>2, <1>8, <2>2, <2>4, NodesGrowAdjusted
  <2> DEFINE t == Closed(l, bs, k, s.flags \ {"string"})
  <2>6. After(s, b) = t
    BY <1>3, <1>8 DEF AfterInString
  <2>7. k \in 1..Len(bs) /\ s.flags \ {"string"} \subseteq Modes
    BY <1>1, <1>2, <2>3
  <2>8. t.bare = Counted(bs, k)
    BY DEF Closed, State
  <2> HIDE DEF bs
  <2>9. Sound(t)
    BY <1>1, <2>3, <2>7, ClosedSound
  <2> HIDE DEF t
  <2>10. NodesGrow(bs, t.bare) /\ Family(t.bare)
    BY <2>3, <2>7, <2>8, NodesGrowClosed
  <2>11. NodesGrow(s.bare, t.bare)
    BY <1>1, <2>3, <2>5, <2>10, NodesGrowOn
  <2>12. l <= t.bare[k].count
    BY <2>2, <2>7, <2>10 DEF NodesGrow
  <2>13. Grows(s, t)
    BY <1>1, <1>8, <2>11, <2>12 DEF Grows, Held
  <2> QED
    BY <2>6, <2>9, <2>13 DEF StepsOn
<1>9. CASE "escaped" \notin s.flags /\ b = "quote" /\ s.bare[k].type = "object"
  <2> DEFINE bs == Named(s)
             m == s.bare[k].names + l + 1
  <2>1. bs = NamesAt(s.bare, k, m)
    BY DEF Named
  <2>2. s.bare[k].names \in Nat /\ s.bare[k].count \in Nat /\ m \in Nat
    <3>1. s.bare[k].names \in Nat /\ s.bare[k].count \in Nat
      BY <1>1, <1>2, Parts
    <3> QED
      BY <1>1, <3>1
  <2>3. /\ bs \in Seq(BareNode) /\ Adjusted(s.bare, bs, k)
        /\ bs[k].names = m /\ bs[k].count = s.bare[k].count
    <3> DEFINE as == s.bare
    <3>1. Family(as) /\ k \in 1..Len(as) /\ m \in Nat /\ bs = NamesAt(as, k, m)
      BY <1>1, <1>2, <2>1, <2>2
    <3> HIDE DEF as, bs, k, m
    <3>2. /\ bs \in Seq(BareNode) /\ Adjusted(as, bs, k)
          /\ bs[k].names = m /\ bs[k].count = as[k].count
      BY <3>1, NamesPut
    <3> QED
      BY <3>2 DEF as
  <2>4. Family(bs) /\ Len(bs) = Len(s.bare)
    BY <1>1, <1>2, <1>9, <2>3, FamilyAdjusted DEF Adjusted
  <2> DEFINE fs == (s.flags \ {"string"}) \cup {"seek_value", "need_colon"}
             t == State(fs, k, l, bs)
  <2>5. After(s, b) = t
    BY <1>3, <1>9 DEF AfterInString
  <2>6. t.flags = fs /\ t.top = k /\ t.length = l /\ t.bare = bs
        /\ t = State(t.flags, t.top, t.length, t.bare)
    BY DEF State
  <2>7. fs \subseteq Modes /\ "string" \notin fs /\ "done" \notin fs /\ "seek_value" \in fs
    BY <1>1 DEF Modes
  <2>8. s.bare[k].names <= bs[k].names /\ s.bare[k].count <= bs[k].count
        /\ s.bare[k].names + l < bs[k].names
    BY <1>1, <2>2, <2>3
  <2> HIDE DEF bs, fs, t, m
  <2>9. NodesGrow(s.bare, bs)
    BY <1>1, <1>2, <2>3, <2>8, NodesGrowAdjusted
  <2>10. bs[k].type = "object" /\ k \in 1..Len(bs) /\ Len(bs) \in Nat
    BY <1>1, <1>2, <1>9, <2>3, <2>4 DEF Adjusted, Family
  <2>11. Sound(t)
    BY <1>1, <2>4, <2>6, <2>7, <2>10 DEF Sound, Containers
  <2>12. Grows(s, t)
    BY <1>1, <1>9, <2>6, <2>8, <2>9 DEF Grows, Held
  <2> QED
    BY <2>5, <2>11, <2>12 DEF StepsOn
<1> QED
  BY <1>1, <1>5, <1>6, <1>7, <1>8, <1>9

\* The characters that mean the same wherever a value is not a string.
Spacing == {"space", ","}

(* A character where a value is wanted.                                        *)
LEMMA StepSeeking ==
    ASSUME NEW s, NEW b, Sound(s), "string" \notin s.flags, "done" \notin s.flags,
           "seek_value" \in s.flags, b \notin Spacing, Accepts(s, b)
    PROVE  StepsOn(s, After(s, b))
<1>1. /\ s.flags \subseteq Modes /\ s.length \in Nat /\ Family(s.bare) /\ Len(s.bare) \in Nat
      /\ s.top \in 0..Len(s.bare) /\ (s.top = 0 <=> Len(s.bare) = 0)
      /\ (s.top # 0 => s.bare[s.top].type \in Containers)
  <2>1. /\ s.flags \subseteq Modes /\ s.length \in Nat /\ Family(s.bare)
        /\ s.top \in 0..Len(s.bare) /\ (s.top = 0 <=> Len(s.bare) = 0)
        /\ (s.top # 0 => s.bare[s.top].type \in Containers)
    BY DEF Sound
  <2>2. Len(s.bare) \in Nat
    BY <2>1 DEF Family
  <2> QED
    BY <2>1, <2>2
<1>2. After(s, b) = AfterSeeking(s, b)
  BY DEF After, Spacing
<1>3. AcceptsSeeking(s, b)
  BY DEF Accepts, Spacing
<1>4. CASE b = ":"
  <2> DEFINE t == State(s.flags \ {"need_colon"}, s.top, s.length, s.bare)
  <2>1. t.flags = s.flags \ {"need_colon"} /\ t.top = s.top /\ t.length = s.length /\ t.bare = s.bare
        /\ t = State(t.flags, t.top, t.length, t.bare)
    BY DEF State
  <2> HIDE DEF t
  <2>2. Sound(t)
    BY <1>1, <2>1 DEF Sound
  <2> USE DEF t
  <2>3. Grows(s, t)
    BY <1>1, <2>2, NodesLeft
  <2> QED
    BY <1>2, <1>4, <2>2, <2>3 DEF AfterSeeking, StepsOn
<1>5. CASE b = "]"
  <2>1. s.top # 0
    BY <1>3, <1>5 DEF AcceptsSeeking, Opening, Digit
  <2>2. s.top \in 1..Len(s.bare)
    BY <1>1, <2>1
  <2>3. NodesGrow(s.bare, s.bare)
    BY <1>1, NodesGrowNot
  <2>4. StepsOn(s, Closed(s.length, s.bare, s.top, s.flags))
    BY <1>1, <2>2, <2>3, ClosedStep
  <2> QED
    BY <1>2, <1>5, <2>4 DEF AfterSeeking
<1>6. CASE b \in {"{", "[", "quote"}
  <2> DEFINE type == IF b = "{" THEN "object" ELSE IF b = "[" THEN "array" ELSE "string"
             bs == Begun(s, type)
             fs == IF b = "{" THEN s.flags \ {"seek_value"}
                   ELSE IF b = "[" THEN s.flags ELSE (s.flags \ {"seek_value"}) \cup {"string"}
             l == IF b = "quote" THEN 0 ELSE s.length
             t == State(fs, Len(s.bare) + 1, l, bs)
  <2>1. After(s, b) = t
    BY <1>2, <1>6 DEF AfterSeeking
  <2>2. type \in Kinds
    BY DEF Kinds
  <2>3. t.flags = fs /\ t.top = Len(s.bare) + 1 /\ t.length = l /\ t.bare = bs
        /\ t = State(t.flags, t.top, t.length, t.bare)
    BY DEF State
  <2> HIDE DEF t
  <2>4. Family(bs) /\ Len(bs) = Len(s.bare) + 1 /\ bs[Len(s.bare) + 1] = Fresh(type, s.top) /\ NodesGrow(s.bare, bs)
    BY <2>2, NodeMore
  <2> HIDE DEF bs, type
  <2>5. bs[Len(s.bare) + 1].type = type /\ bs[Len(s.bare) + 1].count = 0
    BY <2>4 DEF Fresh
  <2> USE DEF type
  <2>6. /\ fs \subseteq Modes /\ l \in Nat /\ "done" \notin fs
        /\ "string" \in fs => type = "string" /\ "seek_value" \notin fs
        /\ "string" \notin fs => type \in Containers
        /\ "string" \notin fs /\ "seek_value" \notin fs => type = "object"
    BY <1>1, <1>6 DEF Modes, Containers
  <2> HIDE DEF type, fs, l
  <2>7. t.top \in 0..Len(t.bare) /\ t.top # 0 /\ Len(t.bare) # 0
    BY <1>1, <2>3, <2>4
  <2>8. Sound(t)
    BY <2>3, <2>4, <2>5, <2>6, <2>7 DEF Sound
  <2>9. Grows(s, t)
    BY <2>3, <2>4 DEF Grows
  <2> QED
    BY <2>1, <2>8, <2>9 DEF StepsOn
<1>7. CASE b \in {"word", "-"} \cup Digit
  <2> DEFINE type == IF b = "word" THEN "word" ELSE "number"
             bs == Begun(s, type)
  <2>1. After(s, b) = Closed(s.length, bs, Len(s.bare) + 1, s.flags)
    BY <1>2, <1>7 DEF AfterSeeking, Digit
  <2>2. type \in Kinds
    BY DEF Kinds
  <2>3. Family(bs) /\ Len(bs) = Len(s.bare) + 1 /\ NodesGrow(s.bare, bs)
    BY <2>2, NodeMore
  <2> HIDE DEF bs, type
  <2>4. Len(s.bare) + 1 \in 1..Len(bs)
    BY <1>1, <2>3
  <2>5. StepsOn(s, Closed(s.length, bs, Len(s.bare) + 1, s.flags))
    BY <2>3, <2>4, ClosedStep
  <2> QED
    BY <2>1, <2>5
<1> QED
  BY <1>3, <1>4, <1>5, <1>6, <1>7 DEF AcceptsSeeking, Opening, Spacing

(* A character between the names of an object.                                 *)
LEMMA StepInObject ==
    ASSUME NEW s, NEW b, Sound(s), "string" \notin s.flags, "done" \notin s.flags,
           "seek_value" \notin s.flags, b \notin Spacing, Accepts(s, b)
    PROVE  StepsOn(s, After(s, b))
<1>1. /\ s.flags \subseteq Modes /\ s.length \in Nat /\ Family(s.bare) /\ Len(s.bare) \in Nat
      /\ s.top \in 0..Len(s.bare) /\ s.top # 0 /\ s.bare[s.top].type = "object"
  <2>1. /\ s.flags \subseteq Modes /\ s.length \in Nat /\ Family(s.bare)
        /\ s.top \in 0..Len(s.bare) /\ s.top # 0 /\ s.bare[s.top].type = "object"
    BY DEF Sound
  <2>2. Len(s.bare) \in Nat
    BY <2>1 DEF Family
  <2> QED
    BY <2>1, <2>2
<1>2. After(s, b) = AfterInObject(s, b)
  BY DEF After, Spacing
<1>3. b \in {"}", "quote"}
  BY DEF Accepts, Spacing
<1>4. s.top \in 1..Len(s.bare)
  BY <1>1
<1>5. NodesGrow(s.bare, s.bare)
  BY <1>1, NodesGrowNot
<1>6. CASE b = "quote"
  <2> DEFINE t == State(s.flags \cup {"string"}, s.top, 0, s.bare)
  <2>1. /\ t.flags = s.flags \cup {"string"} /\ t.top = s.top /\ t.length = 0 /\ t.bare = s.bare
        /\ t = State(t.flags, t.top, t.length, t.bare)
    BY DEF State
  <2> HIDE DEF t
  <2>2. t.flags \subseteq Modes
    BY <1>1, <2>1 DEF Modes
  <2>3. Sound(t)
    <3>1. t.top \in 0..Len(t.bare) /\ (t.top = 0 <=> Len(t.bare) = 0)
      BY <2>1 DEF Sound
    <3> QED
      BY <1>1, <2>1, <2>2, <3>1 DEF Sound
  <2>4. Grows(s, t)
    BY <1>5, <2>1 DEF Grows
  <2> USE DEF t
  <2> QED
    BY <1>2, <1>6, <2>3, <2>4 DEF AfterInObject, StepsOn
<1>7. CASE b = "}"
  <2>1. StepsOn(s, Closed(s.length, s.bare, s.top, s.flags))
    BY <1>1, <1>4, <1>5, ClosedStep
  <2> QED
    BY <1>2, <1>7, <2>1 DEF AfterInObject
<1> QED
  BY <1>3, <1>6, <1>7

(* Any character that is accepted.                                             *)
LEMMA StepMade ==
    ASSUME NEW s, NEW b, Sound(s), Accepts(s, b)
    PROVE  StepsOn(s, After(s, b))
<1>1. Grows(s, s)
  <2>1. s.flags \subseteq Modes /\ s.length \in Nat /\ Family(s.bare)
        /\ s = State(s.flags, s.top, s.length, s.bare)
    BY DEF Sound
  <2>2. s.length <= s.length
    BY <2>1
  <2> QED
    BY <2>1, <2>2, NodesLeft
<1>2. CASE "string" \in s.flags
  BY <1>2, StepInString
<1>3. CASE "string" \notin s.flags /\ ("done" \in s.flags \/ b = "space")
  <2>1. After(s, b) = s
    BY <1>3 DEF After
  <2> QED
    BY <1>1, <2>1 DEF StepsOn
<1>4. CASE "string" \notin s.flags /\ "done" \notin s.flags /\ b = ","
  <2> DEFINE t == State(s.flags \ {"need_comma"}, s.top, s.length, s.bare)
  <2>1. /\ t.flags = s.flags \ {"need_comma"} /\ t.top = s.top
        /\ t.length = s.length /\ t.bare = s.bare
        /\ t = State(t.flags, t.top, t.length, t.bare)
    BY DEF State
  <2>2. After(s, b) = t
    BY <1>4 DEF After
  <2>3. s.flags \subseteq Modes
    BY DEF Sound
  <2> HIDE DEF t
  <2>4. Sound(t)
    BY <1>4, <2>1, <2>3 DEF Sound
  <2>5. Grows(s, t)
    BY <1>1, <1>4, <2>1 DEF Grows
  <2> QED
    BY <2>2, <2>4, <2>5 DEF StepsOn
<1>5. CASE "string" \notin s.flags /\ "done" \notin s.flags /\ b \notin {"space", ","}
  BY <1>5, StepSeeking, StepInObject DEF Spacing
<1> QED
  BY <1>2, <1>3, <1>4, <1>5

-----------------------------------------------------------------------------
(* The parser as this machine.                                                *)

Types == {"object", "array", "string", "word", "integer", "double"}
Record == [type : Types, parent : Nat, count : Nat, room : Nat, names : Nat, nameroom : Nat,
           kids : Seq(Nat), own : BOOLEAN, freed : Nat, ownfreed : Nat]

Bares(ns, n) == [k \in 1..n |-> Bare(ns[k])]
Seen == IF pass = "first" THEN Len(nodes) ELSE alloc - 1
View == State(flags \ NumberFlags, top, length, Bares(nodes, Seen))

\* What a node keeps when its entries and names are counted.
Lasting(n) == <<n.type, n.parent, n.room, n.nameroom, n.own>>
\* Only node k is another, and in its counts and entries only.
OnlyAt(ns, ms, k) ==
    /\ ms \in Seq(Record) /\ Len(ms) = Len(ns)
    /\ \A i \in 1..Len(ns) : i # k => ms[i] = ns[i]
    /\ Lasting(ms[k]) = Lasting(ns[k])

(* The bare nodes of nodes.                                                    *)
LEMMA BaresAre ==
    ASSUME NEW ns \in Seq(Record), NEW n \in Nat, n <= Len(ns)
    PROVE  /\ Bares(ns, n) \in Seq(BareNode) /\ Len(Bares(ns, n)) = n
           /\ \A k \in 1..n : /\ Bares(ns, n)[k].type = Kind(ns[k].type)
                              /\ Bares(ns, n)[k].parent = ns[k].parent
                              /\ Bares(ns, n)[k].count = ns[k].count
                              /\ Bares(ns, n)[k].names = ns[k].names
                              /\ Bares(ns, n)[k] = Bare(ns[k])
<1>1. \A k \in 1..n : ns[k] \in Record
  <2>1. Len(ns) \in Nat
    OBVIOUS
  <2>2. \A k \in 1..n : k \in 1..Len(ns)
    BY <2>1
  <2> QED
    BY <2>2
<1>2. \A k \in 1..n : Bare(ns[k]) \in BareNode
  BY <1>1 DEF Record, Types, BareNode, Bare, Kind, Kinds
<1> DEFINE bs == Bares(ns, n)
<1>3. DOMAIN bs = 1..n /\ \A k \in 1..n : bs[k] = Bare(ns[k])
  BY DEF Bares
<1>4. bs = [k \in 1..n |-> bs[k]]
  BY DEF Bares
<1> HIDE DEF bs
<1>5. bs \in Seq(BareNode) /\ Len(bs) = n
  BY <1>2, <1>3, <1>4
<1>6. \A k \in 1..n : /\ bs[k].type = Kind(ns[k].type) /\ bs[k].parent = ns[k].parent
                      /\ bs[k].count = ns[k].count /\ bs[k].names = ns[k].names
  BY <1>3 DEF Bare
<1> QED
  BY <1>3, <1>5, <1>6 DEF bs

(* A node's count is put down ...                                              *)
LEMMA BareCount ==
    ASSUME NEW ns \in Seq(Record), NEW ms \in Seq(Record), NEW n \in Nat, n <= Len(ns),
           NEW k \in 1..n, NEW c \in Nat, OnlyAt(ns, ms, k),
           ms[k].count = c, ms[k].names = ns[k].names
    PROVE  Bares(ms, n) = CountAt(Bares(ns, n), k, c)
<1> DEFINE bs == Bares(ns, n)
           cs == Bares(ms, n)
<1>1. Len(ms) = Len(ns) /\ Len(ns) \in Nat
  BY DEF OnlyAt
<1>2. \A i \in 1..n : cs[i] = Bare(ms[i]) /\ bs[i] = Bare(ns[i])
  BY <1>1, BaresAre
<1>3. DOMAIN bs = 1..n /\ DOMAIN cs = 1..n
  BY DEF Bares
<1>4. cs = [i \in 1..n |-> cs[i]]
  BY DEF Bares
<1> HIDE DEF bs, cs
<1>5. \A i \in 1..n : i # k => cs[i] = bs[i]
  BY <1>1, <1>2 DEF OnlyAt
<1>6. ms[k].type = ns[k].type /\ ms[k].parent = ns[k].parent
  BY DEF OnlyAt, Lasting
<1>7. cs[k] = [bs[k] EXCEPT !.count = c]
  <2> DEFINE t == Kind(ns[k].type)
             up == ns[k].parent
             o == ns[k].names
             x == ns[k].count
  <2>1. cs[k] = [type |-> t, parent |-> up, count |-> c, names |-> o]
    BY <1>2, <1>6 DEF Bare
  <2>2. bs[k] = [type |-> t, parent |-> up, count |-> x, names |-> o]
    BY <1>2 DEF Bare
  <2> HIDE DEF t, up, o, x
  <2> QED
    BY <2>1, <2>2
<1>8. CountAt(bs, k, c) = [i \in 1..n |-> IF i = k THEN [bs[k] EXCEPT !.count = c] ELSE bs[i]]
  BY <1>3 DEF CountAt
<1>9. cs = CountAt(bs, k, c)
  BY <1>4, <1>5, <1>7, <1>8
<1> QED
  BY <1>9 DEF bs, cs

(* ... or its bytes of names.                                                  *)
LEMMA BareNames ==
    ASSUME NEW ns \in Seq(Record), NEW ms \in Seq(Record), NEW n \in Nat, n <= Len(ns),
           NEW k \in 1..n, NEW m \in Nat, OnlyAt(ns, ms, k),
           ms[k].names = m, ms[k].count = ns[k].count
    PROVE  Bares(ms, n) = NamesAt(Bares(ns, n), k, m)
<1> DEFINE bs == Bares(ns, n)
           cs == Bares(ms, n)
<1>1. Len(ms) = Len(ns) /\ Len(ns) \in Nat
  BY DEF OnlyAt
<1>2. \A i \in 1..n : cs[i] = Bare(ms[i]) /\ bs[i] = Bare(ns[i])
  BY <1>1, BaresAre
<1>3. DOMAIN bs = 1..n /\ DOMAIN cs = 1..n
  BY DEF Bares
<1>4. cs = [i \in 1..n |-> cs[i]]
  BY DEF Bares
<1> HIDE DEF bs, cs
<1>5. \A i \in 1..n : i # k => cs[i] = bs[i]
  BY <1>1, <1>2 DEF OnlyAt
<1>6. ms[k].type = ns[k].type /\ ms[k].parent = ns[k].parent
  BY DEF OnlyAt, Lasting
<1>7. cs[k] = [bs[k] EXCEPT !.names = m]
  <2> DEFINE t == Kind(ns[k].type)
             up == ns[k].parent
             o == ns[k].count
             x == ns[k].names
  <2>1. cs[k] = [type |-> t, parent |-> up, count |-> o, names |-> m]
    BY <1>2, <1>6 DEF Bare
  <2>2. bs[k] = [type |-> t, parent |-> up, count |-> o, names |-> x]
    BY <1>2 DEF Bare
  <2> HIDE DEF t, up, o, x
  <2> QED
    BY <2>1, <2>2
<1>8. NamesAt(bs, k, m) = [i \in 1..n |-> IF i = k THEN [bs[k] EXCEPT !.names = m] ELSE bs[i]]
  BY <1>3 DEF NamesAt
<1>9. cs = NamesAt(bs, k, m)
  BY <1>4, <1>5, <1>7, <1>8
<1> QED
  BY <1>9 DEF bs, cs

(* What linking an entry changes.                                              *)
LEMMA LinkedAt ==
    ASSUME NEW ns \in Seq(Record), NEW k \in 1..Len(ns), ns[k].parent \in 1..Len(ns)
    PROVE  /\ OnlyAt(ns, Linked(ns, k), ns[k].parent)
           /\ Linked(ns, k)[ns[k].parent].count = ns[ns[k].parent].count + 1
           /\ Linked(ns, k)[ns[k].parent].names = ns[ns[k].parent].names
           /\ Linked(ns, k)[ns[k].parent].kids =
                 IF pass = "second" THEN Append(ns[ns[k].parent].kids, k) ELSE ns[ns[k].parent].kids
           /\ Linked(ns, k)[ns[k].parent].freed = ns[ns[k].parent].freed
           /\ Linked(ns, k)[ns[k].parent].ownfreed = ns[ns[k].parent].ownfreed
<1> DEFINE up == ns[k].parent
           kids == IF pass = "second" THEN Append(ns[up].kids, k) ELSE ns[up].kids
           x == [ns[up] EXCEPT !.count = ns[up].count + 1, !.kids = kids]
           ms == Linked(ns, k)
<1>1. ns[up] \in Record /\ up \in 1..Len(ns) /\ up # 0 /\ k \in Nat /\ Len(ns) \in Nat
  OBVIOUS
<1>2. ns[up].count + 1 \in Nat /\ kids \in Seq(Nat)
  <2>1. ns[up].count \in Nat /\ ns[up].kids \in Seq(Nat)
    BY <1>1 DEF Record
  <2>2. Append(ns[up].kids, k) \in Seq(Nat)
    BY <1>1, <2>1
  <2> QED
    BY <2>1, <2>2
<1>3. x \in Record
  BY <1>1, <1>2 DEF Record
<1>4. /\ x.type = ns[up].type /\ x.parent = ns[up].parent /\ x.count = ns[up].count + 1
      /\ x.room = ns[up].room /\ x.names = ns[up].names /\ x.nameroom = ns[up].nameroom
      /\ x.kids = kids /\ x.own = ns[up].own /\ x.freed = ns[up].freed
      /\ x.ownfreed = ns[up].ownfreed
  BY <1>1 DEF Record
<1>5. ms = [ns EXCEPT ![up] = x]
  BY <1>1 DEF Linked
<1> HIDE DEF x, ms
<1>6. /\ ms \in Seq(Record) /\ Len(ms) = Len(ns) /\ ms[up] = x
      /\ \A i \in 1..Len(ns) : i # up => ms[i] = ns[i]
  BY <1>1, <1>3, <1>5
<1>7. OnlyAt(ns, ms, up)
  BY <1>4, <1>6 DEF OnlyAt, Lasting
<1> QED
  BY <1>4, <1>6, <1>7 DEF ms

(* A value is complete: the machine's step.                                    *)
LEMMA LinkedView ==
    ASSUME NEW ns \in Seq(Record), NEW n \in Nat, n <= Len(ns), NEW k \in 1..n,
           Family(Bares(ns, n))
    PROVE  /\ Bares(Linked(ns, k), n) = Counted(Bares(ns, n), k)
           /\ Linked(ns, k) \in Seq(Record) /\ Len(Linked(ns, k)) = Len(ns)
           /\ \A i \in 1..Len(ns) : /\ Lasting(Linked(ns, k)[i]) = Lasting(ns[i])
                                    /\ i > n => Linked(ns, k)[i] = ns[i]
           /\ Wanted(Bares(ns, n), k) =
                 IF ns[k].parent = 0 THEN {"done"}
                 ELSE IF ns[ns[k].parent].type = "array" THEN {"seek_value"} ELSE {}
           /\ Bares(ns, n)[k].parent = ns[k].parent
<1> DEFINE bs == Bares(ns, n)
           up == ns[k].parent
           ms == Linked(ns, k)
<1>1. Len(bs) = n /\ \A i \in 1..n : /\ bs[i].type = Kind(ns[i].type) /\ bs[i].parent = ns[i].parent
                                     /\ bs[i].count = ns[i].count /\ bs[i].names = ns[i].names
  BY BaresAre
<1>2. bs[k].parent = up /\ (up # 0 => up \in 1..n)
  BY <1>1, Parts
<1> HIDE DEF bs
<1>3. CASE up = 0
  <2>1. ms = ns /\ Counted(bs, k) = bs
    BY <1>2, <1>3 DEF Linked, Counted
  <2>2. Wanted(bs, k) = {"done"}
    BY <1>2, <1>3 DEF Wanted
  <2> QED
    BY <1>2, <1>3, <2>1, <2>2 DEF bs
<1>4. CASE up # 0
  <2>1. up \in 1..n /\ up \in 1..Len(ns) /\ k \in 1..Len(ns) /\ Len(ns) \in Nat
    BY <1>2, <1>4
  <2>2. /\ OnlyAt(ns, ms, up) /\ ms[up].count = ns[up].count + 1 /\ ms[up].names = ns[up].names
    BY <2>1, LinkedAt
  <2>3. ns[up].count \in Nat
    <3>1. ns[up] \in Record
      BY <2>1
    <3> QED
      BY <3>1 DEF Record
  <2> HIDE DEF ms
  <2>4. ms \in Seq(Record) /\ Len(ms) = Len(ns)
    BY <2>2 DEF OnlyAt
  <2>5. \A i \in 1..Len(ns) : Lasting(ms[i]) = Lasting(ns[i]) /\ (i > n => ms[i] = ns[i])
    BY <2>1, <2>2 DEF OnlyAt
  <2>6. bs[up].count = ns[up].count
    BY <1>1, <2>1
  <2>7. Counted(bs, k) = CountAt(bs, up, ns[up].count + 1)
    BY <1>2, <1>4, <2>6 DEF Counted
  <2> DEFINE c == ns[up].count + 1
  <2>8. c \in Nat
    BY <2>3
  <2> HIDE DEF up, c
  <2>9. Bares(ms, n) = CountAt(Bares(ns, n), up, c)
    <3>1. ms[up].count = c
      BY <2>2 DEF c
    <3> QED
      BY <2>1, <2>2, <2>4, <2>8, <3>1, BareCount
  <2>10. bs[up].type = "array" <=> ns[up].type = "array"
    BY <1>1, <2>1 DEF Kind
  <2>11. Wanted(bs, k) = IF ns[up].type = "array" THEN {"seek_value"} ELSE {}
    BY <1>2, <1>4, <2>10 DEF Wanted
  <2> QED
    BY <1>2, <1>4, <2>4, <2>5, <2>7, <2>9, <2>11 DEF bs, ms, up, c
<1> QED
  BY <1>3, <1>4

-----------------------------------------------------------------------------
(* The parser's steps are the machine's.                                      *)

Reading ==
    /\ pass \in {"first", "second"}
    /\ nodes \in Seq(Record) /\ alloc \in Nat /\ Seen \in Nat /\ Seen <= Len(nodes)
    /\ flags \subseteq Modes \cup NumberFlags
    /\ Sound(View)

\* The node the second pass comes to next is the one a value of this type wants.
Fits(type) ==
    pass = "second" =>
      /\ alloc \in 1..Len(nodes)
      /\ Kind(nodes[alloc].type) = type /\ nodes[alloc].parent = top
      /\ type \in {"word", "number"} => nodes[alloc].count = 0 /\ nodes[alloc].names = 0

\* What a step does beside the machine's: in the second pass rooms are only made.
Standing ==
    /\ nodes' \in Seq(Record) /\ Seen' \in Nat /\ Seen' <= Len(nodes') /\ alloc' \in Nat
    /\ flags' \subseteq Modes \cup NumberFlags
    /\ pass' = pass
    /\ pass = "second" =>
         /\ Len(nodes') = Len(nodes) /\ Seen <= Seen'
         /\ \A k \in 1..Len(nodes) :
               /\ k <= Seen => Lasting(nodes'[k]) = Lasting(nodes[k])
               /\ k > Seen /\ k <= Seen' => Lasting(nodes'[k]) = Lasting(Renewed(nodes[k]))
               /\ k > Seen' => nodes'[k] = nodes[k]
Moved(b) == View' = After(View, b) /\ Standing

(* What the machine sees of the variables.                                     *)
LEMMA Seeing ==
    ASSUME Reading
    PROVE  /\ View.flags = flags \ NumberFlags /\ View.top = top /\ View.length = length
           /\ View.bare = Bares(nodes, Seen) /\ Family(View.bare) /\ Len(View.bare) = Seen
           /\ length \in Nat /\ top \in Nat /\ top <= Seen /\ (top = 0 <=> Seen = 0)
           /\ \A f \in Modes : f \in View.flags <=> f \in flags
           /\ \A k \in 1..Seen :
                 /\ View.bare[k].type = Kind(nodes[k].type) /\ View.bare[k].parent = nodes[k].parent
                 /\ View.bare[k].count = nodes[k].count /\ View.bare[k].names = nodes[k].names
<1>1. /\ View.flags = flags \ NumberFlags /\ View.top = top /\ View.length = length
      /\ View.bare = Bares(nodes, Seen)
  BY DEF View, State
<1>2. nodes \in Seq(Record) /\ Seen \in Nat /\ Seen <= Len(nodes) /\ Sound(View)
  BY DEF Reading
<1>3. Family(View.bare) /\ View.length \in Nat /\ View.top \in 0..Len(View.bare)
      /\ (View.top = 0 <=> Len(View.bare) = 0)
  BY <1>2 DEF Sound
<1> HIDE DEF View
<1>4. /\ Len(View.bare) = Seen
      /\ \A k \in 1..Seen :
            /\ View.bare[k].type = Kind(nodes[k].type) /\ View.bare[k].parent = nodes[k].parent
            /\ View.bare[k].count = nodes[k].count /\ View.bare[k].names = nodes[k].names
  <2> DEFINE bs == Bares(nodes, Seen)
  <2>1. /\ Len(bs) = Seen
        /\ \A k \in 1..Seen :
              /\ bs[k].type = Kind(nodes[k].type) /\ bs[k].parent = nodes[k].parent
              /\ bs[k].count = nodes[k].count /\ bs[k].names = nodes[k].names
    BY <1>2, BaresAre
  <2>2. View.bare = bs
    BY <1>1
  <2> HIDE DEF bs
  <2> QED
    BY <2>1, <2>2
<1>5. \A f \in Modes : f \in View.flags <=> f \in flags
  BY <1>1 DEF Modes, NumberFlags
<1>6. length \in Nat /\ top \in Nat /\ top <= Seen /\ (top = 0 <=> Seen = 0)
  BY <1>1, <1>2, <1>3, <1>4
<1> QED
  BY <1>1, <1>3, <1>4, <1>5, <1>6

(* The nodes stay.                                                             *)
LEMMA NodesStay ==
    ASSUME Reading, UNCHANGED <<nodes, alloc, pass>>, flags' \subseteq Modes \cup NumberFlags
    PROVE  Standing /\ View' = State(flags' \ NumberFlags, top', length', View.bare)
<1>1. Seen' = Seen
  BY DEF Seen
<1>2. Standing
  BY <1>1 DEF Standing, Reading
<1>3. View' = State(flags' \ NumberFlags, top', length', Bares(nodes, Seen))
  BY <1>1 DEF View, Bares, Bare, State
<1>4. View.bare = Bares(nodes, Seen)
  BY Seeing
<1> QED
  BY <1>2, <1>3, <1>4

(* A value ends, in nodes that may be new or changed before.                   *)
LEMMA CompletedStep ==
    ASSUME NEW ns \in Seq(Record), NEW n \in Nat, n <= Len(ns), NEW k \in 1..n,
           NEW rest, rest \subseteq Modes \cup NumberFlags,
           Family(Bares(ns, n)), Completed(ns, k, rest), UNCHANGED <<pass, length>>,
           IF pass = "first" THEN n = Len(ns) ELSE n = alloc' - 1
    PROVE  /\ Seen' = n /\ View' = Closed(length, Bares(ns, n), k, rest \ NumberFlags)
           /\ nodes' \in Seq(Record) /\ Len(nodes') = Len(ns)
           /\ \A i \in 1..Len(ns) : /\ Lasting(nodes'[i]) = Lasting(ns[i])
                                    /\ i > n => nodes'[i] = ns[i]
           /\ flags' \subseteq Modes \cup NumberFlags
<1> DEFINE ms == Linked(ns, k)
           w == Wanted(Bares(ns, n), k)
<1>1. /\ Bares(ms, n) = Counted(Bares(ns, n), k)
      /\ ms \in Seq(Record) /\ Len(ms) = Len(ns)
      /\ \A i \in 1..Len(ns) : Lasting(ms[i]) = Lasting(ns[i]) /\ (i > n => ms[i] = ns[i])
      /\ w = IF ns[k].parent = 0 THEN {"done"}
             ELSE IF ns[ns[k].parent].type = "array" THEN {"seek_value"} ELSE {}
      /\ Bares(ns, n)[k].parent = ns[k].parent
  BY LinkedView
<1>2. /\ nodes' = ms /\ top' = (IF ns[k].parent = 0 THEN k ELSE ns[k].parent)
      /\ flags' = (rest \ {"seek_value"}) \cup {"need_comma"} \cup w
  BY <1>1 DEF Completed
<1>3. w \subseteq {"done", "seek_value"}
  BY <1>1
<1> HIDE DEF ms, w
<1>8. Seen' = n
  BY <1>1, <1>2 DEF Seen
<1>4. View' = State(flags' \ NumberFlags, top', length', Bares(nodes', n))
  BY <1>8 DEF View, Bares, Bare, State
<1>5. flags' \ NumberFlags = ((rest \ NumberFlags) \ {"seek_value"}) \cup {"need_comma"} \cup w
  BY <1>2, <1>3 DEF NumberFlags
<1>6. flags' \subseteq Modes \cup NumberFlags
  BY <1>2, <1>3 DEF Modes
<1>7. View' = Closed(length, Bares(ns, n), k, rest \ NumberFlags)
  BY <1>1, <1>2, <1>4, <1>5 DEF Closed, w
<1> QED
  BY <1>1, <1>2, <1>6, <1>7, <1>8

(* Inside a string.                                                            *)
LEMMA MovedInString ==
    ASSUME Reading, NEW b, StringAdd(b)
    PROVE  Accepts(View, b) /\ Moved(b)
<1>1. /\ "string" \in flags /\ b # EOF
      /\ UNCHANGED <<nodes, alloc, pass>> /\ top' = top
  BY DEF StringAdd
<1>2. /\ View.flags = flags \ NumberFlags /\ View.top = top /\ View.length = length
      /\ \A f \in Modes : f \in View.flags <=> f \in flags
  BY Seeing
<1>3. "string" \in View.flags /\ ("escaped" \in View.flags <=> "escaped" \in flags)
  BY <1>1, <1>2 DEF Modes
<1>4. flags \subseteq Modes \cup NumberFlags
  BY DEF Reading
<1>5. After(View, b) = AfterInString(View, b)
  BY <1>3 DEF After
<1>6. CASE "escaped" \in flags
  <2>1. b # "u" /\ flags' = flags \ {"escaped"} /\ length' = length + EscapedBytes(b)
    BY <1>6 DEF StringAdd
  <2>2. flags' \ NumberFlags = View.flags \ {"escaped"} /\ flags' \subseteq Modes \cup NumberFlags
    BY <1>2, <1>4, <2>1
  <2>3. Standing /\ View' = State(View.flags \ {"escaped"}, View.top, View.length + EscapedBytes(b), View.bare)
    BY <1>1, <1>2, <2>1, <2>2, NodesStay
  <2>4. View' = After(View, b)
    BY <1>3, <1>5, <1>6, <2>3 DEF AfterInString
  <2> QED
    BY <1>1, <1>3, <2>1, <2>3, <2>4 DEF Accepts, Moved
<1>7. CASE "escaped" \notin flags /\ b = "\\"
  <2>1. flags' = flags \cup {"escaped"} /\ length' = length
    BY <1>7 DEF StringAdd
  <2>2. flags' \ NumberFlags = View.flags \cup {"escaped"} /\ flags' \subseteq Modes \cup NumberFlags
    BY <1>2, <1>4, <2>1 DEF NumberFlags, Modes
  <2>3. Standing /\ View' = State(View.flags \cup {"escaped"}, View.top, View.length, View.bare)
    BY <1>1, <1>2, <2>1, <2>2, NodesStay
  <2>4. View' = After(View, b)
    BY <1>3, <1>5, <1>7, <2>3 DEF AfterInString
  <2> QED
    BY <1>1, <1>3, <1>7, <2>3, <2>4 DEF Accepts, Moved
<1>8. CASE "escaped" \notin flags /\ b # "\\"
  <2>1. b # "quote" /\ flags' = flags /\ length' = length + PlainBytes(b)
    BY <1>8 DEF StringAdd
  <2>2. flags' \ NumberFlags = View.flags /\ flags' \subseteq Modes \cup NumberFlags
    BY <1>2, <1>4, <2>1
  <2>3. Standing /\ View' = State(View.flags, View.top, View.length + PlainBytes(b), View.bare)
    BY <1>1, <1>2, <2>1, <2>2, NodesStay
  <2>4. View' = After(View, b)
    BY <1>3, <1>5, <1>8, <2>1, <2>3 DEF AfterInString
  <2> QED
    BY <1>1, <1>3, <1>8, <2>3, <2>4 DEF Accepts, Moved
<1> QED
  BY <1>6, <1>7, <1>8

(* No character of the text's structure ends the text.                         *)
LEMMA NotTheEnd == EOF \notin Structure \cup {"word"} \cup {"-"} \cup Digit
BY JsonAssumption DEF Structure, Numeric, Digit

(* A value ends, and no node is new: the step stands.                          *)
LEMMA StandingClosed ==
    ASSUME Reading, NEW ns \in Seq(Record), NEW k \in 1..Seen, Len(ns) = Len(nodes),
           NEW rest, rest \subseteq Modes \cup NumberFlags,
           \A i \in 1..Len(nodes) : /\ Lasting(ns[i]) = Lasting(nodes[i])
                                    /\ i > Seen => ns[i] = nodes[i],
           Family(Bares(ns, Seen)), Completed(ns, k, rest), UNCHANGED <<pass, alloc, length>>
    PROVE  Standing /\ View' = Closed(length, Bares(ns, Seen), k, rest \ NumberFlags)
<1> DEFINE n == Seen
<1>1. n \in Nat /\ n <= Len(ns) /\ alloc \in Nat /\ pass \in {"first", "second"}
  BY DEF Reading
<1>2. IF pass = "first" THEN n = Len(ns) ELSE n = alloc' - 1
  BY DEF Seen
<1>3. k \in 1..n /\ Family(Bares(ns, n))
  OBVIOUS
<1> HIDE DEF n
<1>4. /\ Seen' = n /\ View' = Closed(length, Bares(ns, n), k, rest \ NumberFlags)
      /\ nodes' \in Seq(Record) /\ Len(nodes') = Len(ns)
      /\ \A i \in 1..Len(ns) : /\ Lasting(nodes'[i]) = Lasting(ns[i])
                               /\ i > n => nodes'[i] = ns[i]
      /\ flags' \subseteq Modes \cup NumberFlags
  BY <1>1, <1>2, <1>3, CompletedStep
<1> USE DEF n
<1>5. Standing
  <2>1. \A i \in 1..Len(nodes) : /\ Lasting(nodes'[i]) = Lasting(nodes[i])
                                 /\ i > Seen => nodes'[i] = nodes[i]
    BY <1>4
  <2>2. Seen' = Seen /\ Len(nodes') = Len(nodes) /\ alloc' \in Nat /\ Len(nodes) \in Nat
    BY <1>1, <1>4 DEF Reading
  <2>3. ~ \E i \in 1..Len(nodes) : i > Seen /\ i <= Seen'
    BY <1>1, <2>2
  <2> QED
    BY <1>1, <1>4, <2>1, <2>2, <2>3 DEF Standing
<1> QED
  BY <1>4, <1>5

(* A node's count in the parser.                                               *)
LEMMA RecordCount ==
    ASSUME NEW ns \in Seq(Record), NEW k \in 1..Len(ns), NEW c \in Nat
    PROVE  LET ms == [ns EXCEPT ![k].count = c]
           IN  ms \in Seq(Record) /\ OnlyAt(ns, ms, k) /\ ms[k].count = c /\ ms[k].names = ns[k].names
<1> DEFINE x == [ns[k] EXCEPT !.count = c]
           ms == [ns EXCEPT ![k].count = c]
<1>1. ns[k] \in Record
  OBVIOUS
<1>2. x \in Record
  BY <1>1 DEF Record
<1>3. /\ x.type = ns[k].type /\ x.parent = ns[k].parent /\ x.count = c /\ x.room = ns[k].room
      /\ x.names = ns[k].names /\ x.nameroom = ns[k].nameroom /\ x.own = ns[k].own
  BY <1>1 DEF Record
<1>4. ms = [ns EXCEPT ![k] = x]
  OBVIOUS
<1> HIDE DEF x, ms
<1>5. /\ ms \in Seq(Record) /\ Len(ms) = Len(ns) /\ ms[k] = x
      /\ \A i \in 1..Len(ns) : i # k => ms[i] = ns[i]
  BY <1>2, <1>4
<1>6. OnlyAt(ns, ms, k) /\ ms[k].count = c /\ ms[k].names = ns[k].names
  BY <1>3, <1>5 DEF OnlyAt, Lasting
<1> QED
  BY <1>5, <1>6 DEF ms

(* ... and its bytes of names.                                                 *)
LEMMA RecordNames ==
    ASSUME NEW ns \in Seq(Record), NEW k \in 1..Len(ns), NEW m \in Nat
    PROVE  LET ms == [ns EXCEPT ![k].names = m]
           IN  ms \in Seq(Record) /\ OnlyAt(ns, ms, k) /\ ms[k].names = m /\ ms[k].count = ns[k].count
<1> DEFINE x == [ns[k] EXCEPT !.names = m]
           ms == [ns EXCEPT ![k].names = m]
<1>1. ns[k] \in Record
  OBVIOUS
<1>2. x \in Record
  BY <1>1 DEF Record
<1>3. /\ x.type = ns[k].type /\ x.parent = ns[k].parent /\ x.count = ns[k].count /\ x.room = ns[k].room
      /\ x.names = m /\ x.nameroom = ns[k].nameroom /\ x.own = ns[k].own
  BY <1>1 DEF Record
<1>4. ms = [ns EXCEPT ![k] = x]
  OBVIOUS
<1> HIDE DEF x, ms
<1>5. /\ ms \in Seq(Record) /\ Len(ms) = Len(ns) /\ ms[k] = x
      /\ \A i \in 1..Len(ns) : i # k => ms[i] = ns[i]
  BY <1>2, <1>4
<1>6. OnlyAt(ns, ms, k) /\ ms[k].names = m /\ ms[k].count = ns[k].count
  BY <1>3, <1>5 DEF OnlyAt, Lasting
<1> QED
  BY <1>5, <1>6 DEF ms

(* A string ends.                                                              *)
LEMMA MovedStringEnd ==
    ASSUME Reading, StringEnd
    PROVE  Accepts(View, "quote") /\ Moved("quote")
<1>1. /\ "string" \in flags /\ "escaped" \notin flags /\ UNCHANGED <<pass, alloc, length>>
  BY DEF StringEnd
<1>2. /\ View.flags = flags \ NumberFlags /\ View.top = top /\ View.length = length
      /\ View.bare = Bares(nodes, Seen) /\ Family(View.bare) /\ Len(View.bare) = Seen
      /\ length \in Nat /\ top \in Nat /\ top <= Seen
      /\ \A f \in Modes : f \in View.flags <=> f \in flags
      /\ \A k \in 1..Seen : /\ View.bare[k].type = Kind(nodes[k].type)
                            /\ View.bare[k].names = nodes[k].names
  BY Seeing
<1>3. "string" \in View.flags /\ "escaped" \notin View.flags
  BY <1>1, <1>2 DEF Modes
<1>4. /\ nodes \in Seq(Record) /\ Seen \in Nat /\ Seen <= Len(nodes) /\ flags \subseteq Modes \cup NumberFlags
  BY DEF Reading
<1>5. /\ View.top # 0 /\ View.bare[View.top].type \in {"string", "object"}
  BY <1>3 DEF Reading, Sound
<1>6. top \in 1..Seen /\ top \in 1..Len(nodes)
  BY <1>2, <1>4, <1>5
<1>7. Accepts(View, "quote")
  BY <1>3, NotTheEnd DEF Accepts, Structure
<1>8. After(View, "quote") =
         IF View.bare[View.top].type = "string"
         THEN Closed(View.length, Sized(View), View.top, View.flags \ {"string"})
         ELSE State((View.flags \ {"string"}) \cup {"seek_value", "need_colon"}, View.top,
                    View.length, Named(View))
  BY <1>3 DEF After, AfterInString
<1>9. View.bare[View.top].type = "string" <=> nodes[top].type = "string"
  BY <1>2, <1>6 DEF Kind
<1>10. CASE nodes[top].type = "string"
  <2> DEFINE ns == [nodes EXCEPT ![top].count = length]
  <2>1. Completed(ns, top, flags \ {"string"})
    BY <1>10 DEF StringEnd
  <2>2. /\ ns \in Seq(Record) /\ OnlyAt(nodes, ns, top) /\ ns[top].count = length
        /\ ns[top].names = nodes[top].names
    BY <1>2, <1>4, <1>6, RecordCount
  <2> HIDE DEF ns
  <2>3. Bares(ns, Seen) = CountAt(Bares(nodes, Seen), top, length)
    BY <1>2, <1>4, <1>6, <2>2, BareCount
  <2>4. Bares(ns, Seen) = Sized(View)
    BY <1>2, <2>3 DEF Sized
  <2>5. Family(Sized(View))
    <3> DEFINE bs == View.bare
               cs == Sized(View)
    <3>1. cs = CountAt(bs, top, length) /\ Family(bs) /\ top \in 1..Len(bs)
      BY <1>2, <1>6 DEF Sized
    <3>2. bs[top].type = "string"
      BY <1>2, <1>9, <1>10
    <3> HIDE DEF bs, cs
    <3>3. cs \in Seq(BareNode) /\ Adjusted(bs, cs, top)
      BY <1>2, <3>1, CountPut
    <3>4. Family(cs)
      BY <3>1, <3>2, <3>3, FamilyAdjusted
    <3> QED
      BY <3>4 DEF cs
  <2>6. flags \ {"string"} \subseteq Modes \cup NumberFlags
    BY <1>4
  <2>7. \A i \in 1..Len(nodes) : Lasting(ns[i]) = Lasting(nodes[i]) /\ (i > Seen => ns[i] = nodes[i])
    BY <1>4, <1>6, <2>2 DEF OnlyAt
  <2>8. Len(ns) = Len(nodes)
    BY <2>2 DEF OnlyAt
  <2>9. Standing /\ View' = Closed(length, Bares(ns, Seen), top, (flags \ {"string"}) \ NumberFlags)
    BY <1>1, <1>6, <2>1, <2>2, <2>4, <2>5, <2>6, <2>7, <2>8, StandingClosed
  <2>10. (flags \ {"string"}) \ NumberFlags = View.flags \ {"string"}
    BY <1>2
  <2>11. View' = After(View, "quote")
    BY <1>2, <1>8, <1>9, <1>10, <2>4, <2>9, <2>10
  <2> QED
    BY <1>7, <2>9, <2>11 DEF Moved
<1>11. CASE nodes[top].type # "string"
  <2> DEFINE m == nodes[top].names + length + 1
             ns == [nodes EXCEPT ![top].names = m]
  <2>1. nodes' = ns /\ top' = top /\ flags' = (flags \ {"string"}) \cup {"seek_value", "need_colon"}
    BY <1>11 DEF StringEnd
  <2>2. nodes[top].names \in Nat
    <3>1. nodes[top] \in Record
      BY <1>4, <1>6
    <3> QED
      BY <3>1 DEF Record
  <2>3. m \in Nat
    BY <1>2, <2>2
  <2> HIDE DEF m
  <2>4. /\ ns \in Seq(Record) /\ OnlyAt(nodes, ns, top) /\ ns[top].names = m
        /\ ns[top].count = nodes[top].count
    BY <1>4, <1>6, <2>3, RecordNames
  <2> HIDE DEF ns
  <2>5. Bares(ns, Seen) = NamesAt(Bares(nodes, Seen), top, m)
    BY <1>4, <1>6, <2>3, <2>4, BareNames
  <2>6. m = View.bare[View.top].names + View.length + 1
    BY <1>2, <1>6 DEF m
  <2>7. Bares(ns, Seen) = Named(View)
    BY <1>2, <2>5, <2>6 DEF Named
  <2>8. Len(ns) = Len(nodes)
    BY <2>4 DEF OnlyAt
  <2>9. Seen' = Seen
    BY <1>1, <2>1, <2>8 DEF Seen
  <2>10. flags' \ NumberFlags = (View.flags \ {"string"}) \cup {"seek_value", "need_colon"}
         /\ flags' \subseteq Modes \cup NumberFlags
    BY <1>2, <1>4, <2>1 DEF NumberFlags, Modes
  <2>11. View' = State(flags' \ NumberFlags, top', length', Bares(nodes', Seen))
    BY <2>9 DEF View, Bares, Bare, State
  <2>12. View' = After(View, "quote")
    BY <1>1, <1>2, <1>8, <1>9, <1>11, <2>1, <2>7, <2>10, <2>11
  <2>13. Standing
    <3>1. \A i \in 1..Len(nodes) : Lasting(ns[i]) = Lasting(nodes[i]) /\ (i > Seen => ns[i] = nodes[i])
      BY <1>4, <1>6, <2>4 DEF OnlyAt
    <3>2. ~ \E i \in 1..Len(nodes) : i > Seen /\ i <= Seen'
      BY <1>4, <2>9
    <3>3. alloc' \in Nat /\ Len(nodes') = Len(nodes) /\ Seen <= Seen' /\ Seen' \in Nat /\ Seen' <= Len(nodes')
      BY <1>1, <1>4, <2>1, <2>8, <2>9 DEF Reading
    <3> QED
      BY <1>1, <2>1, <2>4, <2>9, <2>10, <3>1, <3>2, <3>3 DEF Standing
  <2> QED
    BY <1>7, <2>12, <2>13 DEF Moved
<1> QED
  BY <1>10, <1>11

(* Spaces, commas, colons, and the quote that begins a name.                   *)
LEMMA MovedOn ==
    ASSUME Reading, NEW b, SeekOn(b) \/ ObjectOn(b) \/ (DoneSpace /\ b = "space")
    PROVE  Accepts(View, b) /\ Moved(b)
<1>1. /\ View.flags = flags \ NumberFlags /\ View.top = top /\ View.length = length
      /\ Family(View.bare) /\ Len(View.bare) = Seen /\ top <= Seen /\ top \in Nat
      /\ \A f \in Modes : f \in View.flags <=> f \in flags
      /\ \A k \in 1..Seen : View.bare[k].type = Kind(nodes[k].type)
  BY Seeing
<1>2. /\ "string" \in View.flags <=> "string" \in flags
      /\ "done" \in View.flags <=> "done" \in flags
      /\ "seek_value" \in View.flags <=> "seek_value" \in flags
      /\ "need_comma" \in View.flags <=> "need_comma" \in flags
      /\ "need_colon" \in View.flags <=> "need_colon" \in flags
  BY <1>1 DEF Modes
<1>3. flags \subseteq Modes \cup NumberFlags /\ View = State(View.flags, View.top, View.length, View.bare)
  BY DEF Reading, Sound
<1>4. UNCHANGED <<nodes, alloc, pass, top>>
  BY DEF SeekOn, ObjectOn, DoneSpace
<1>5. ASSUME flags' \subseteq Modes \cup NumberFlags
      PROVE  Standing /\ View' = State(flags' \ NumberFlags, View.top, length', View.bare)
  BY <1>1, <1>4, <1>5, NodesStay
<1>6. b = "space" \/ b = "," \/ b = ":" \/ b = "quote" => b # EOF
  BY NotTheEnd DEF Structure
<1>7. CASE SeekOn(b)
  <2>1. "seek_value" \in flags /\ "string" \notin flags /\ "done" \notin flags /\ length' = length
    BY <1>7 DEF SeekOn, Seeking
  <2>2. CASE b = "space"
    <3>1. flags' = flags
      BY <1>7, <2>2 DEF SeekOn
    <3>2. Accepts(View, b) /\ After(View, b) = View
      BY <1>2, <1>6, <2>1, <2>2 DEF Accepts, AcceptsSeeking, After
    <3> QED
      BY <1>1, <1>3, <1>5, <2>1, <3>1, <3>2 DEF Moved
  <2>3. CASE b = ","
    <3>1. flags' = flags \ {"need_comma"} /\ "need_comma" \in flags
      BY <1>7, <2>3 DEF SeekOn
    <3>2. /\ Accepts(View, b)
          /\ After(View, b) = State(View.flags \ {"need_comma"}, View.top, View.length, View.bare)
      BY <1>2, <1>6, <2>1, <2>3, <3>1 DEF Accepts, AcceptsSeeking, After
    <3>3. flags' \ NumberFlags = View.flags \ {"need_comma"} /\ flags' \subseteq Modes \cup NumberFlags
      BY <1>1, <1>3, <3>1
    <3> QED
      BY <1>1, <1>5, <2>1, <3>2, <3>3 DEF Moved
  <2>4. CASE b = ":"
    <3>1. flags' = flags \ {"need_colon"} /\ "need_colon" \in flags /\ "need_comma" \notin flags
      BY <1>7, <2>4 DEF SeekOn
    <3>2. /\ Accepts(View, b)
          /\ After(View, b) = State(View.flags \ {"need_colon"}, View.top, View.length, View.bare)
      BY <1>2, <1>6, <2>1, <2>4, <3>1 DEF Accepts, AcceptsSeeking, After, AfterSeeking
    <3>3. flags' \ NumberFlags = View.flags \ {"need_colon"} /\ flags' \subseteq Modes \cup NumberFlags
      BY <1>1, <1>3, <3>1
    <3> QED
      BY <1>1, <1>5, <2>1, <3>2, <3>3 DEF Moved
  <2> QED
    BY <1>7, <2>2, <2>3, <2>4 DEF SeekOn
<1>8. CASE ObjectOn(b)
  <2>1. "seek_value" \notin flags /\ "string" \notin flags /\ "done" \notin flags
    BY <1>8 DEF ObjectOn, Inside
  <2>2. CASE b = "space"
    <3>1. flags' = flags /\ length' = length
      BY <1>8, <2>2 DEF ObjectOn
    <3>2. Accepts(View, b) /\ After(View, b) = View
      BY <1>2, <1>6, <2>1, <2>2 DEF Accepts, After
    <3> QED
      BY <1>1, <1>3, <1>5, <3>1, <3>2 DEF Moved
  <2>3. CASE b = ","
    <3>1. flags' = flags \ {"need_comma"} /\ "need_comma" \in flags /\ length' = length
      BY <1>8, <2>3 DEF ObjectOn
    <3>2. /\ Accepts(View, b)
          /\ After(View, b) = State(View.flags \ {"need_comma"}, View.top, View.length, View.bare)
      BY <1>2, <1>6, <2>1, <2>3, <3>1 DEF Accepts, After
    <3>3. flags' \ NumberFlags = View.flags \ {"need_comma"} /\ flags' \subseteq Modes \cup NumberFlags
      BY <1>1, <1>3, <3>1
    <3> QED
      BY <1>1, <1>5, <3>1, <3>2, <3>3 DEF Moved
  <2>4. CASE b = "quote"
    <3>1. flags' = flags \cup {"string"} /\ "need_comma" \notin flags /\ length' = 0
      BY <1>8, <2>4 DEF ObjectOn
    <3>2. /\ Accepts(View, b)
          /\ After(View, b) = State(View.flags \cup {"string"}, View.top, 0, View.bare)
      BY <1>2, <1>6, <2>1, <2>4, <3>1 DEF Accepts, After, AfterInObject
    <3>3. flags' \ NumberFlags = View.flags \cup {"string"} /\ flags' \subseteq Modes \cup NumberFlags
      BY <1>1, <1>3, <3>1 DEF NumberFlags, Modes
    <3> QED
      BY <1>1, <1>5, <3>1, <3>2, <3>3 DEF Moved
  <2> QED
    BY <1>8, <2>2, <2>3, <2>4 DEF ObjectOn
<1>9. CASE DoneSpace /\ b = "space"
  <2>1. "done" \in flags /\ flags' = flags /\ length' = length
    BY <1>9 DEF DoneSpace
  <2>2. "string" \notin View.flags
    BY <1>2, <2>1 DEF Reading, Sound
  <2>3. Accepts(View, b) /\ After(View, b) = View
    BY <1>2, <1>6, <1>9, <2>1, <2>2 DEF Accepts, After
  <2> QED
    BY <1>1, <1>3, <1>5, <2>1, <2>3 DEF Moved
<1> QED
  BY <1>7, <1>8, <1>9

\* A bracket or a brace that ends a value.
Shuts(b) ==
    \/ SeekBracket /\ b = "]" /\ top # 0 /\ nodes[top].type = "array"
    \/ ObjectEnd /\ b = "}"

(* It is accepted there, and ends it.                                          *)
LEMMA MovedBracket ==
    ASSUME Reading, NEW b, Shuts(b)
    PROVE  Accepts(View, b) /\ Moved(b)
<1>1. /\ View.flags = flags \ NumberFlags /\ View.top = top /\ View.length = length
      /\ View.bare = Bares(nodes, Seen) /\ Family(View.bare) /\ Len(View.bare) = Seen
      /\ top <= Seen /\ top \in Nat /\ (top = 0 <=> Seen = 0)
      /\ \A f \in Modes : f \in View.flags <=> f \in flags
      /\ \A k \in 1..Seen : View.bare[k].type = Kind(nodes[k].type)
  BY Seeing
<1>2. /\ "string" \in View.flags <=> "string" \in flags
      /\ "done" \in View.flags <=> "done" \in flags
      /\ "seek_value" \in View.flags <=> "seek_value" \in flags
  BY <1>1 DEF Modes
<1>3. flags \subseteq Modes \cup NumberFlags /\ nodes \in Seq(Record) /\ Seen \in Nat
  BY DEF Reading
<1>4. "string" \notin flags /\ "done" \notin flags
  BY DEF Shuts, SeekBracket, Seeking, ObjectEnd, Inside
<1>5. b # EOF
  BY NotTheEnd DEF Structure, Shuts
<1>6. ASSUME Completed(nodes, top, flags), UNCHANGED <<pass, alloc, length>>, top # 0
      PROVE  Standing /\ View' = Closed(View.length, View.bare, View.top, View.flags)
  <2> DEFINE n == Seen
  <2>1. top \in 1..n
    <3>1. n \in Nat /\ top \in Nat /\ top <= n /\ top # 0
      BY <1>1, <1>3, <1>6
    <3> HIDE DEF n
    <3> QED
      BY <3>1
  <2>2. \A i \in 1..Len(nodes) : Lasting(nodes[i]) = Lasting(nodes[i]) /\ (i > Seen => nodes[i] = nodes[i])
    OBVIOUS
  <2>3. Standing /\ View' = Closed(length, Bares(nodes, Seen), top, flags \ NumberFlags)
    BY <1>1, <1>3, <1>6, <2>1, <2>2, StandingClosed
  <2> QED
    BY <1>1, <2>3
<1>7. CASE SeekBracket /\ b = "]" /\ top # 0 /\ nodes[top].type = "array"
  <2>1. "seek_value" \in flags
    BY <1>7 DEF SeekBracket, Seeking
  <2>2. /\ top # 0 /\ nodes[top].type = "array" /\ Completed(nodes, top, flags)
        /\ UNCHANGED <<pass, alloc, length>>
    BY <1>7 DEF SeekBracket
  <2> DEFINE n == Seen
  <2>6. top \in 1..n
    <3>1. n \in Nat /\ top \in Nat /\ top <= n /\ top # 0
      BY <1>1, <1>3, <2>2
    <3> HIDE DEF n
    <3> QED
      BY <3>1
  <2>3. View.bare[View.top].type = "array"
    <3>1. View.bare[top].type = Kind(nodes[top].type)
      BY <1>1, <2>6
    <3> QED
      BY <1>1, <2>2, <3>1 DEF Kind
  <2>4. Accepts(View, b)
    BY <1>1, <1>2, <1>4, <1>5, <1>7, <2>1, <2>2, <2>3 DEF Accepts, AcceptsSeeking
  <2>5. After(View, b) = Closed(View.length, View.bare, View.top, View.flags)
    BY <1>2, <1>4, <1>7, <2>1 DEF After, AfterSeeking
  <2> QED
    BY <1>6, <2>2, <2>4, <2>5 DEF Moved
<1>8. CASE ObjectEnd /\ b = "}"
  <2>1. "seek_value" \notin flags /\ Completed(nodes, top, flags) /\ UNCHANGED <<pass, alloc, length>>
    BY <1>8 DEF ObjectEnd, Inside
  <2>2. top # 0
    BY <1>1, <1>2, <1>4, <2>1 DEF Reading, Sound
  <2>3. Accepts(View, b)
    BY <1>2, <1>4, <1>5, <1>8, <2>1 DEF Accepts
  <2>4. After(View, b) = Closed(View.length, View.bare, View.top, View.flags)
    BY <1>2, <1>4, <1>8, <2>1 DEF After, AfterInObject
  <2> QED
    BY <1>6, <2>1, <2>2, <2>3, <2>4 DEF Moved
<1> QED
  BY <1>7, <1>8 DEF Shuts

(* One more bare node.                                                         *)
LEMMA BareMore ==
    ASSUME NEW ns \in Seq(Record), NEW ms \in Seq(Record), NEW n \in Nat, n <= Len(ns),
           n + 1 <= Len(ms), \A i \in 1..n : ms[i] = ns[i],
           NEW x, Bare(ms[n + 1]) = x
    PROVE  Bares(ms, n + 1) = Append(Bares(ns, n), x)
<1> DEFINE bs == Bares(ns, n)
           cs == Bares(ms, n + 1)
           m == n + 1
<1>1. m \in Nat /\ m \in 1..m /\ \A i \in 1..n : i \in 1..m
  OBVIOUS
<1>2. Len(bs) = n /\ bs \in Seq(BareNode) /\ \A i \in 1..n : bs[i] = Bare(ns[i])
  BY BaresAre
<1>3. Len(cs) = m /\ cs \in Seq(BareNode) /\ \A i \in 1..m : cs[i] = Bare(ms[i])
  <2> HIDE DEF m
  <2>1. m <= Len(ms)
    BY DEF m
  <2> QED
    BY <1>1, <2>1, BaresAre DEF m
<1>4. \A i \in 1..n : cs[i] = bs[i]
  BY <1>1, <1>2, <1>3
<1>5. cs[m] = x
  BY <1>1, <1>3
<1> DEFINE ds == Append(bs, x)
<1>6. x \in BareNode
  BY <1>1, <1>3, <1>5
<1> HIDE DEF bs, cs
<1>7. ds \in Seq(BareNode) /\ Len(ds) = m /\ ds[m] = x /\ \A i \in 1..n : ds[i] = bs[i]
  BY <1>2, <1>6
<1> HIDE DEF ds
<1>8. Len(cs) = Len(ds) /\ \A i \in 1..Len(cs) : cs[i] = ds[i]
  BY <1>3, <1>4, <1>5, <1>7
<1>9. cs = ds
  BY <1>3, <1>7, <1>8, SeqEqual
<1> QED
  BY <1>9 DEF bs, cs, ds

(* A node is new, or renewed.                                                  *)
LEMMA NodeMade ==
    ASSUME Reading, NEW type \in Types, Fits(Kind(type)),
           "string" \notin flags, "done" \notin flags, "seek_value" \in flags
    PROVE  /\ WithNode(type) \in Seq(Record) /\ Node = Seen + 1 /\ Node <= Len(WithNode(type))
           /\ Bares(WithNode(type), Seen + 1) = Begun(View, Kind(type))
           /\ Family(Begun(View, Kind(type)))
           /\ Next_alloc \in Nat
           /\ pass = "first" => Len(WithNode(type)) = Seen + 1
           /\ pass = "second" =>
                /\ Len(WithNode(type)) = Len(nodes) /\ Next_alloc = Seen + 2
                /\ \A i \in 1..Len(nodes) :
                      WithNode(type)[i] = IF i = Seen + 1 THEN Renewed(nodes[i]) ELSE nodes[i]
<1> DEFINE ns == WithNode(type)
           x == Fresh(Kind(type), top)
<1>1. /\ View.top = top /\ View.bare = Bares(nodes, Seen) /\ top \in Nat
      /\ \A f \in Modes : f \in View.flags <=> f \in flags
  BY Seeing
<1>2. "string" \notin View.flags /\ "done" \notin View.flags /\ "seek_value" \in View.flags
  BY <1>1 DEF Modes
<1>3. nodes \in Seq(Record) /\ Seen \in Nat /\ Seen <= Len(nodes) /\ alloc \in Nat
      /\ pass \in {"first", "second"}
  BY DEF Reading
<1>4. Kind(type) \in Kinds
  BY DEF Types, Kinds, Kind
<1>5. Family(Begun(View, Kind(type)))
  BY <1>2, <1>4, NodeMore DEF Reading
<1>6. Begun(View, Kind(type)) = Append(Bares(nodes, Seen), x)
  BY <1>1 DEF Begun
<1>7. CASE pass = "first"
  <2> DEFINE new == NewNode(type, top)
  <2>1. Seen = Len(nodes) /\ Node = Len(nodes) + 1 /\ Next_alloc = Len(nodes) + 1 /\ ns = Append(nodes, new)
    BY <1>7 DEF Seen, Node, Next_alloc, WithNode
  <2>2. <<>> \in Seq(Nat)
    OBVIOUS
  <2>3. new \in Record
    BY <1>1, <2>2 DEF NewNode, Record
  <2>4. Bare(new) = x
    BY DEF Bare, NewNode, Fresh
  <2> HIDE DEF new, ns, x
  <2>5. /\ ns \in Seq(Record) /\ Len(ns) = Len(nodes) + 1 /\ ns[Len(nodes) + 1] = new
        /\ \A i \in 1..Len(nodes) : ns[i] = nodes[i]
    BY <1>3, <2>1, <2>3
  <2> DEFINE n == Seen
  <2>6. n \in Nat /\ n <= Len(nodes) /\ n + 1 <= Len(ns) /\ Bare(ns[n + 1]) = x
        /\ \A i \in 1..n : ns[i] = nodes[i]
    BY <1>3, <2>1, <2>4, <2>5
  <2> HIDE DEF n
  <2>7. Bares(ns, n + 1) = Append(Bares(nodes, n), x)
    BY <1>3, <2>5, <2>6, BareMore
  <2> QED
    BY <1>3, <1>5, <1>6, <1>7, <2>1, <2>5, <2>6, <2>7 DEF n, ns
<1>8. CASE pass = "second"
  <2> DEFINE r == Renewed(nodes[alloc])
  <2>1. /\ Seen = alloc - 1 /\ Node = alloc /\ Next_alloc = alloc + 1
        /\ ns = [nodes EXCEPT ![alloc] = r]
    BY <1>8 DEF Seen, Node, Next_alloc, WithNode
  <2>2. /\ alloc \in 1..Len(nodes) /\ Kind(nodes[alloc].type) = Kind(type)
        /\ nodes[alloc].parent = top
        /\ Kind(type) \in {"word", "number"} => nodes[alloc].count = 0 /\ nodes[alloc].names = 0
    BY <1>8 DEF Fits
  <2>3. nodes[alloc] \in Record
    BY <1>3, <2>2
  <2>4. r \in Record /\ r.type = nodes[alloc].type /\ r.parent = nodes[alloc].parent
        /\ (nodes[alloc].type \in Owning => r.count = 0 /\ r.names = 0)
        /\ (nodes[alloc].type \notin Owning => r = nodes[alloc])
    BY <2>3 DEF Renewed, Record
  <2>5. nodes[alloc].type \notin Owning => Kind(type) \in {"word", "number"}
    BY <2>2, <2>3 DEF Record, Types, Owning, Kind
  <2>6. r.count = 0 /\ r.names = 0
    BY <2>2, <2>4, <2>5
  <2>7. Bare(r) = x
    BY <2>2, <2>4, <2>6 DEF Bare, Fresh
  <2> HIDE DEF r, ns, x
  <2>8. /\ ns \in Seq(Record) /\ Len(ns) = Len(nodes) /\ ns[alloc] = r
        /\ \A i \in 1..Len(nodes) : i # alloc => ns[i] = nodes[i]
    BY <1>3, <2>1, <2>2, <2>4
  <2> DEFINE n == Seen
  <2>9. n \in Nat /\ n <= Len(nodes) /\ n + 1 <= Len(ns) /\ n + 1 = alloc /\ Len(nodes) \in Nat
    BY <1>3, <2>1, <2>2, <2>8
  <2>10. \A i \in 1..Len(nodes) : ns[i] = IF i = n + 1 THEN Renewed(nodes[i]) ELSE nodes[i]
    BY <2>8, <2>9 DEF r
  <2>13. Next_alloc = n + 2 /\ Next_alloc \in Nat /\ Node = n + 1
    BY <1>3, <2>1, <2>9
  <2> HIDE DEF n
  <2>11. \A i \in 1..n : ns[i] = nodes[i]
    BY <2>8, <2>9
  <2>12. Bares(ns, n + 1) = Append(Bares(nodes, n), x)
    BY <1>3, <2>7, <2>8, <2>9, <2>11, BareMore
  <2> QED
    BY <1>5, <1>6, <1>8, <2>8, <2>9, <2>10, <2>12, <2>13 DEF n, ns
<1> QED
  BY <1>3, <1>7, <1>8

(* Where a value is wanted and no comma or colon is due.                       *)
LEMMA Beginning ==
    ASSUME Reading, NEW b, Begins(b), b \in Opening
    PROVE  /\ "string" \notin flags /\ "done" \notin flags /\ "seek_value" \in flags
           /\ Accepts(View, b) /\ After(View, b) = AfterSeeking(View, b)
<1>1. \A f \in Modes : f \in View.flags <=> f \in flags
  BY Seeing
<1>2. /\ "string" \notin flags /\ "done" \notin flags /\ "seek_value" \in flags
      /\ "need_comma" \notin flags /\ "need_colon" \notin flags
  BY DEF Begins, Seeking
<1>3. /\ "string" \notin View.flags /\ "done" \notin View.flags /\ "seek_value" \in View.flags
      /\ "need_comma" \notin View.flags /\ "need_colon" \notin View.flags
  BY <1>1, <1>2 DEF Modes
<1>4. b # EOF /\ b # "space" /\ b # ","
  BY NotTheEnd DEF Opening, Structure, Digit
<1>5. Accepts(View, b)
  BY <1>3, <1>4 DEF Accepts, AcceptsSeeking
<1>6. After(View, b) = AfterSeeking(View, b)
  BY <1>3, <1>4 DEF After
<1> QED
  BY <1>2, <1>5, <1>6

\* Objects, arrays and strings by the characters they begin with.
Entrances == {"{", "[", "quote"}
Begun_by(b) == IF b = "{" THEN "object" ELSE IF b = "[" THEN "array" ELSE "string"

(* One of them begins.                                                         *)
LEMMA MovedContainer ==
    ASSUME Reading, NEW b \in Entrances, SeekContainer(b, Begun_by(b)), Fits(Begun_by(b))
    PROVE  Accepts(View, b) /\ Moved(b)
<1> DEFINE type == Begun_by(b)
           ns == WithNode(type)
           n == Seen
<1>1. /\ View.flags = flags \ NumberFlags /\ View.top = top /\ View.length = length
      /\ Len(View.bare) = Seen /\ length \in Nat
  BY Seeing
<1>2. b \in Opening /\ Begins(b)
  BY DEF Opening, SeekContainer, Entrances
<1>3. /\ "string" \notin flags /\ "done" \notin flags /\ "seek_value" \in flags
      /\ Accepts(View, b) /\ After(View, b) = AfterSeeking(View, b)
  BY <1>2, Beginning
<1>4. type \in Types /\ Kind(type) = type
  BY DEF Begun_by, Types, Kind
<1>5. Fits(Kind(type))
  BY <1>4
<1>6. /\ nodes' = ns /\ top' = Node /\ alloc' = Next_alloc /\ pass' = pass
      /\ flags' = (IF type = "array" THEN flags
                   ELSE IF type = "object" THEN flags \ {"seek_value"}
                   ELSE (flags \ {"seek_value"}) \cup {"string"})
      /\ length' = IF type = "string" THEN 0 ELSE length
  BY DEF SeekContainer
<1>7. nodes \in Seq(Record) /\ n \in Nat /\ n <= Len(nodes) /\ flags \subseteq Modes \cup NumberFlags
      /\ pass \in {"first", "second"}
  BY DEF Reading
<1>8. /\ ns \in Seq(Record) /\ Node = n + 1 /\ Node <= Len(ns) /\ Bares(ns, n + 1) = Begun(View, type)
      /\ Next_alloc \in Nat
      /\ pass = "first" => Len(ns) = n + 1
      /\ pass = "second" => /\ Len(ns) = Len(nodes) /\ Next_alloc = n + 2
                            /\ \A i \in 1..Len(nodes) :
                                  ns[i] = IF i = n + 1 THEN Renewed(nodes[i]) ELSE nodes[i]
  BY <1>3, <1>4, <1>5, NodeMade
<1>9. type = "array" <=> b = "["
  BY DEF Begun_by, Entrances
<1>10. type = "object" <=> b = "{"
  BY DEF Begun_by, Entrances
<1>11. type = "string" <=> b = "quote"
  BY DEF Begun_by, Entrances
<1> HIDE DEF ns, type
<1>12. Seen' = n + 1
  BY <1>6, <1>7, <1>8 DEF Seen
<1>13. View' = State(flags' \ NumberFlags, n + 1, length', Begun(View, type))
  BY <1>6, <1>8, <1>12 DEF View, Bares, Bare, State
<1>14. flags' \subseteq Modes \cup NumberFlags
  BY <1>6, <1>7 DEF Modes
<1>15. flags' \ NumberFlags = IF type = "array" THEN View.flags
                              ELSE IF type = "object" THEN View.flags \ {"seek_value"}
                              ELSE (View.flags \ {"seek_value"}) \cup {"string"}
  BY <1>1, <1>6 DEF NumberFlags
<1>16. View' = AfterSeeking(View, b)
  <2>1. CASE b = "["
    <3>1. type = "array" /\ type # "string"
      BY <1>9, <2>1
    <3>2. View' = State(View.flags, n + 1, length, Begun(View, "array"))
      BY <1>6, <1>13, <1>15, <3>1
    <3> QED
      BY <1>1, <2>1, <3>2 DEF AfterSeeking
  <2>2. CASE b = "{"
    <3>1. type = "object" /\ type # "string" /\ type # "array"
      BY <1>10, <2>2
    <3>2. View' = State(View.flags \ {"seek_value"}, n + 1, length, Begun(View, "object"))
      BY <1>6, <1>13, <1>15, <3>1
    <3> QED
      BY <1>1, <2>2, <3>2 DEF AfterSeeking
  <2>3. CASE b = "quote"
    <3>1. type = "string" /\ type # "object" /\ type # "array"
      BY <1>11, <2>3
    <3>2. View' = State((View.flags \ {"seek_value"}) \cup {"string"}, n + 1, 0, Begun(View, "string"))
      BY <1>6, <1>13, <1>15, <3>1
    <3> QED
      BY <1>1, <2>3, <3>2 DEF AfterSeeking
  <2> QED
    BY <2>1, <2>2, <2>3 DEF Entrances
<1>17. Standing
  <2>1. n + 1 \in Nat /\ n <= n + 1 /\ n + 1 <= Len(ns)
    BY <1>7, <1>8
  <2>2. ASSUME pass = "second"
        PROVE  \A k \in 1..Len(nodes) :
                 /\ k <= n => Lasting(ns[k]) = Lasting(nodes[k])
                 /\ k > n /\ k <= n + 1 => Lasting(ns[k]) = Lasting(Renewed(nodes[k]))
                 /\ k > n + 1 => ns[k] = nodes[k]
    <3> HIDE DEF n
    <3> QED
      BY <1>7, <1>8, <2>2
  <2> QED
    BY <1>6, <1>8, <1>12, <1>14, <2>1, <2>2 DEF Standing
<1> QED
  BY <1>3, <1>16, <1>17 DEF Moved

\* What a step does that begins a value and ends it at once.
EndsAtOnce(b, type, ns) ==
    /\ Begins(b) /\ Completed(ns, Node, flags)
    /\ alloc' = Next_alloc /\ UNCHANGED <<pass, length>>

(* A word, or in the second pass a number.                                     *)
LEMMA MovedAtOnce ==
    ASSUME Reading, NEW b \in {"word", "-"} \cup Digit, NEW type \in {"word", "integer"},
           type = "word" <=> b = "word",
           EndsAtOnce(b, type, WithNode(type)), Fits(Kind(type))
    PROVE  Accepts(View, b) /\ Moved(b)
<1> DEFINE ns == WithNode(type)
           n == Seen
           k == n + 1
<1>1. /\ View.flags = flags \ NumberFlags /\ View.top = top /\ View.length = length
      /\ Len(View.bare) = Seen /\ length \in Nat
  BY Seeing
<1>2. b \in Opening /\ Begins(b)
  BY DEF Opening, EndsAtOnce
<1>3. /\ "string" \notin flags /\ "done" \notin flags /\ "seek_value" \in flags
      /\ Accepts(View, b) /\ After(View, b) = AfterSeeking(View, b)
  BY <1>2, Beginning
<1>4. type \in Types
  BY DEF Types
<1>5. Kind(type) = IF b = "word" THEN "word" ELSE "number"
  BY DEF Kind
<1>6. After(View, b) = Closed(View.length, Begun(View, Kind(type)), Len(View.bare) + 1, View.flags)
  BY <1>3, <1>5 DEF AfterSeeking, Digit
<1>7. nodes \in Seq(Record) /\ n \in Nat /\ n <= Len(nodes) /\ flags \subseteq Modes \cup NumberFlags
      /\ pass \in {"first", "second"}
  BY DEF Reading
<1>8. /\ ns \in Seq(Record) /\ Node = k /\ Node <= Len(ns) /\ Bares(ns, k) = Begun(View, Kind(type))
      /\ Family(Begun(View, Kind(type)))
      /\ Next_alloc \in Nat
      /\ pass = "first" => Len(ns) = k
      /\ pass = "second" => /\ Len(ns) = Len(nodes) /\ Next_alloc = n + 2
                            /\ \A i \in 1..Len(nodes) :
                                  ns[i] = IF i = k THEN Renewed(nodes[i]) ELSE nodes[i]
  BY <1>3, <1>4, NodeMade
<1>9. /\ Completed(ns, k, flags) /\ alloc' = Next_alloc /\ UNCHANGED <<pass, length>>
  BY <1>8 DEF EndsAtOnce
<1> HIDE DEF ns
<1>10. k \in Nat /\ k <= Len(ns) /\ k \in 1..k
  BY <1>7, <1>8
<1>11. IF pass = "first" THEN k = Len(ns) ELSE k = alloc' - 1
  BY <1>7, <1>8, <1>9
<1> HIDE DEF k
<1>12. /\ Seen' = k /\ View' = Closed(length, Bares(ns, k), k, flags \ NumberFlags)
       /\ nodes' \in Seq(Record) /\ Len(nodes') = Len(ns)
       /\ \A i \in 1..Len(ns) : /\ Lasting(nodes'[i]) = Lasting(ns[i])
                                /\ i > k => nodes'[i] = ns[i]
       /\ flags' \subseteq Modes \cup NumberFlags
  BY <1>7, <1>8, <1>9, <1>10, <1>11, CompletedStep
<1>13. View' = After(View, b)
  BY <1>1, <1>6, <1>8, <1>12 DEF k
<1>14. Standing
  <2>1. n <= k
    BY <1>7 DEF k
  <2>2. ASSUME pass = "second"
        PROVE  \A i \in 1..Len(nodes) :
                 /\ i <= n => Lasting(nodes'[i]) = Lasting(nodes[i])
                 /\ i > n /\ i <= k => Lasting(nodes'[i]) = Lasting(Renewed(nodes[i]))
                 /\ i > k => nodes'[i] = nodes[i]
    <3>1. Len(ns) = Len(nodes) /\ \A i \in 1..Len(nodes) :
             ns[i] = IF i = k THEN Renewed(nodes[i]) ELSE nodes[i]
      BY <1>8, <2>2
    <3>2. \A i \in 1..Len(nodes) : (i <= n => i # k) /\ (i > n /\ i <= k => i = k) /\ (i > k => i # k)
      <4> HIDE DEF n
      <4> QED
        BY <1>7 DEF k
    <3> HIDE DEF n
    <3> QED
      BY <1>12, <3>1, <3>2
  <2> QED
    BY <1>8, <1>9, <1>10, <1>12, <2>1, <2>2 DEF Standing
<1> QED
  BY <1>3, <1>13, <1>14 DEF Moved

(* The kind of the node on top.                                                *)
LEMMA TopKind ==
    ASSUME Reading
    PROVE  top # 0 => View.bare[View.top].type = Kind(nodes[top].type)
<1> DEFINE n == Seen
<1>1. /\ View.top = top /\ top <= n /\ top \in Nat /\ n \in Nat
      /\ \A k \in 1..n : View.bare[k].type = Kind(nodes[k].type)
  BY Seeing DEF Reading
<1> HIDE DEF n
<1>2. top # 0 => top \in 1..n
  BY <1>1
<1> QED
  BY <1>1, <1>2

(* A number is over before anything else is read.                              *)
LEMMA NoNumber ==
    ASSUME Reading
    PROVE  ~Number
<1> SUFFICES ASSUME Number
             PROVE  FALSE
  OBVIOUS
<1>1. "string" \notin flags /\ "done" \notin flags /\ "seek_value" \notin flags
      /\ nodes[top].type \in {"integer", "double"}
  BY DEF Number, Inside
<1>2. /\ View.top = top
      /\ \A f \in Modes : f \in View.flags <=> f \in flags
  BY Seeing
<1>3. "string" \notin View.flags /\ "done" \notin View.flags /\ "seek_value" \notin View.flags
  BY <1>1, <1>2 DEF Modes
<1>4. View.top # 0 /\ View.bare[View.top].type = "object"
  BY <1>3 DEF Reading, Sound
<1> QED
  BY <1>1, <1>2, <1>4, TopKind DEF Kind

(* What the machine accepts is not refused.                                    *)
LEMMA Refusals ==
    ASSUME Reading, NEW b, Accepts(View, b)
    PROVE  /\ ~StringRefuse(b) /\ ~DoneGarbage(b) /\ ~SeekRefuse(b) /\ ~ObjectRefuse(b)
           /\ b = "]" /\ SeekBracket => Shuts(b)
<1>1. /\ View.flags = flags \ NumberFlags /\ View.top = top
      /\ top <= Seen /\ top \in Nat /\ (top = 0 <=> Seen = 0)
      /\ \A f \in Modes : f \in View.flags <=> f \in flags
      /\ \A k \in 1..Seen : View.bare[k].type = Kind(nodes[k].type)
  BY Seeing
<1>2. /\ "string" \in View.flags <=> "string" \in flags
      /\ "escaped" \in View.flags <=> "escaped" \in flags
      /\ "done" \in View.flags <=> "done" \in flags
      /\ "seek_value" \in View.flags <=> "seek_value" \in flags
      /\ "need_comma" \in View.flags <=> "need_comma" \in flags
      /\ "need_colon" \in View.flags <=> "need_colon" \in flags
  BY <1>1 DEF Modes
<1>3. "done" \in flags => "string" \notin flags
  BY <1>2 DEF Reading, Sound
<1>4. top # 0 => View.bare[View.top].type = Kind(nodes[top].type)
  BY TopKind
<1>5. ~StringRefuse(b)
  BY <1>2 DEF StringRefuse, Accepts
<1>6. ~DoneGarbage(b)
  BY <1>2, <1>3 DEF DoneGarbage, Accepts
<1>7. ~SeekRefuse(b)
  <2>1. SeekRefuse(b) => "string" \notin flags /\ "done" \notin flags /\ "seek_value" \in flags
    BY DEF SeekRefuse, Seeking
  <2>2. SeekRefuse(b) => AcceptsSeeking(View, b)
    BY <1>2, <2>1 DEF Accepts
  <2>3. SeekRefuse(b) => b \notin {"space", "]"}
    BY DEF SeekRefuse
  <2>4. SeekRefuse(b) =>
           \/ "need_comma" \in flags /\ b # ","
           \/ "need_comma" \notin flags /\ "need_colon" \in flags /\ b # ":"
           \/ "need_comma" \notin flags /\ "need_colon" \notin flags /\ b \notin Opening
    BY DEF SeekRefuse, Opening
  <2> QED
    BY <1>2, <2>2, <2>3, <2>4 DEF AcceptsSeeking
<1>8. ~ObjectRefuse(b)
  BY <1>2 DEF ObjectRefuse, Inside, Accepts
<1>9. b = "]" /\ SeekBracket => Shuts(b)
  <2> SUFFICES ASSUME b = "]", SeekBracket
               PROVE  top # 0 /\ nodes[top].type = "array"
    BY DEF Shuts
  <2>1. AcceptsSeeking(View, "]")
    BY <1>2 DEF SeekBracket, Seeking, Accepts
  <2>2. View.top # 0 /\ View.bare[View.top].type = "array"
    BY <2>1 DEF AcceptsSeeking, Opening, Digit
  <2> QED
    BY <1>1, <1>4, <2>2 DEF Kind
<1> QED
  BY <1>5, <1>6, <1>7, <1>8, <1>9

-----------------------------------------------------------------------------
(* The trail of the first pass.                                               *)

Chars == Structure \cup Numeric \cup Unicode \cup {"word", "u", "x", EOF}

\* A number begins; it ends before q, or has not ended yet.
Numbers(s, b) ==
    /\ "string" \notin s.flags /\ "done" \notin s.flags /\ "seek_value" \in s.flags
    /\ b \in {"-"} \cup Digit
Over(tx, p, q, last) ==
    /\ p < q /\ \A k \in p .. q - 1 : tx[k] \in Numeric
    /\ q = last \/ tx[q] \notin Numeric

\* The states at the places of a text where values are not numbers just then.
Path(tr, tx, last) ==
    /\ last \in Nat /\ DOMAIN tr \subseteq 1..last /\ 1 \in DOMAIN tr /\ last \in DOMAIN tr
    /\ tr[1] = Start
    /\ \A p \in DOMAIN tr : Sound(tr[p]) /\ Grows(tr[p], tr[last])
    /\ \A p \in DOMAIN tr : p # last =>
          /\ Accepts(tr[p], tx[p])
          /\ IF Numbers(tr[p], tx[p])
             THEN \E q \in DOMAIN tr : Over(tx, p, q, last) /\ tr[q] = After(tr[p], tx[p])
             ELSE p + 1 \in DOMAIN tr /\ tr[p + 1] = After(tr[p], tx[p])

(* After a number comes no character of a number.                              *)
LEMMA NumberShut ==
    ASSUME NEW s, NEW b, NEW c, Sound(s), Numbers(s, b), Accepts(s, b), Accepts(After(s, b), c)
    PROVE  c \notin Numeric
<1> DEFINE t == After(s, b)
           bs == Begun(s, "number")
           k == Len(s.bare) + 1
<1>1. "string" \notin s.flags /\ "done" \notin s.flags /\ "seek_value" \in s.flags
      /\ b \in {"-"} \cup Digit
  BY DEF Numbers
<1>2. t = Closed(s.length, bs, k, s.flags)
  BY <1>1 DEF After, AfterSeeking, Digit
<1>3. t.flags = (s.flags \ {"seek_value"}) \cup {"need_comma"} \cup Wanted(bs, k)
  BY <1>2 DEF Closed, State
<1>4. Wanted(bs, k) \subseteq {"done", "seek_value"}
  BY DEF Wanted
<1> HIDE DEF t
<1>5. "string" \notin t.flags /\ "need_comma" \in t.flags
  BY <1>1, <1>3, <1>4
<1>6. c \in {"space", "]", ",", "}"}
  BY <1>5 DEF Accepts, AcceptsSeeking, t
<1> QED
  BY <1>6 DEF Numeric

\* The text goes on from place p, where the path ends, to place q.
Leads(tr, tx, ty, p, q) ==
    /\ q \in Nat /\ Path(tr, tx, p) /\ p < q
    /\ \A k \in 1 .. p - 1 : ty[k] = tx[k]
    /\ Accepts(tr[p], ty[p])
    /\ IF Numbers(tr[p], ty[p]) THEN \A k \in p .. q - 1 : ty[k] \in Numeric ELSE q = p + 1

(* One more place.                                                             *)
LEMMA PathOn ==
    ASSUME NEW tr, NEW tx, NEW ty, NEW p, NEW q, Leads(tr, tx, ty, p, q)
    PROVE  \E ts : Path(ts, ty, q) /\ ts[q] = After(tr[p], ty[p])
<1>0. /\ q \in Nat /\ Path(tr, tx, p) /\ p < q /\ (\A k \in 1 .. p - 1 : ty[k] = tx[k])
      /\ Accepts(tr[p], ty[p])
      /\ IF Numbers(tr[p], ty[p]) THEN \A k \in p .. q - 1 : ty[k] \in Numeric ELSE q = p + 1
  BY DEF Leads
<1> DEFINE t == After(tr[p], ty[p])
           ts == [i \in DOMAIN tr \cup {q} |-> IF i = q THEN t ELSE tr[i]]
<1>1. /\ p \in Nat /\ DOMAIN tr \subseteq 1..p /\ 1 \in DOMAIN tr /\ p \in DOMAIN tr /\ tr[1] = Start
      /\ \A i \in DOMAIN tr : Sound(tr[i]) /\ Grows(tr[i], tr[p])
  BY <1>0 DEF Path
<1>2. Sound(t) /\ Grows(tr[p], t)
  BY <1>0, <1>1, StepMade DEF StepsOn
<1>3. \A i \in DOMAIN tr : i \in Nat /\ i >= 1 /\ i <= p /\ i # q
  BY <1>0, <1>1
<1>4. /\ DOMAIN ts = DOMAIN tr \cup {q} /\ ts[q] = t
      /\ \A i \in DOMAIN tr : ts[i] = tr[i]
  BY <1>3
<1>5. q \in 1..q /\ DOMAIN ts \subseteq 1..q
  BY <1>0, <1>1, <1>3, <1>4
<1> HIDE DEF t, ts
<1>6. ASSUME NEW i \in DOMAIN ts
      PROVE  Sound(ts[i]) /\ Grows(ts[i], ts[q])
  <2>1. CASE i = q
    <3>1. Grows(t, t)
      <4>1. Sound(t) /\ t.flags \subseteq Modes /\ t.length \in Nat
            /\ t = State(t.flags, t.top, t.length, t.bare)
        BY <1>2 DEF Sound
      <4>2. t.length <= t.length
        BY <4>1
      <4> QED
        BY <4>1, <4>2, NodesLeft
    <3> QED
      BY <1>2, <1>4, <2>1, <3>1
  <2>2. CASE i \in DOMAIN tr
    BY <1>1, <1>2, <1>4, <2>2, GrowsOn
  <2> QED
    BY <1>4, <2>1, <2>2
<1>7. ASSUME NEW i \in DOMAIN ts, i # q
      PROVE  /\ Accepts(ts[i], ty[i])
             /\ IF Numbers(ts[i], ty[i])
                THEN \E r \in DOMAIN ts : Over(ty, i, r, q) /\ ts[r] = After(ts[i], ty[i])
                ELSE i + 1 \in DOMAIN ts /\ ts[i + 1] = After(ts[i], ty[i])
  <2>1. i \in DOMAIN tr /\ ts[i] = tr[i]
    BY <1>4, <1>7
  <2>2. CASE i = p
    <3>1. Accepts(ts[i], ty[i])
      BY <1>0, <2>1, <2>2
    <3>2. CASE Numbers(tr[p], ty[p])
      <4>1. Over(ty, i, q, q)
        BY <1>0, <2>2, <3>2 DEF Over
      <4> QED
        BY <1>4, <2>1, <2>2, <3>1, <3>2, <4>1 DEF t
    <3>3. CASE ~Numbers(tr[p], ty[p])
      BY <1>0, <1>4, <2>1, <2>2, <3>1, <3>3 DEF t
    <3> QED
      BY <3>2, <3>3
  <2>3. CASE i # p
    <3>1. ty[i] = tx[i]
      BY <1>0, <1>1, <1>3, <2>1, <2>3
    <3>2. /\ Accepts(tr[i], tx[i])
          /\ IF Numbers(tr[i], tx[i])
             THEN \E r \in DOMAIN tr : Over(tx, i, r, p) /\ tr[r] = After(tr[i], tx[i])
             ELSE i + 1 \in DOMAIN tr /\ tr[i + 1] = After(tr[i], tx[i])
      BY <1>0, <2>1, <2>3 DEF Path
    <3>3. CASE Numbers(tr[i], tx[i])
      <4>1. PICK r \in DOMAIN tr : Over(tx, i, r, p) /\ tr[r] = After(tr[i], tx[i])
        BY <3>2, <3>3
      <4>2. i \in Nat /\ i >= 1 /\ r \in Nat /\ r <= p /\ r >= 1
        BY <1>3, <2>1
      <4>3. \A k \in i .. r - 1 : ty[k] \in Numeric
        <5>1. \A k \in i .. r - 1 : k \in 1 .. p - 1
          BY <1>1, <4>2
        <5> QED
          BY <1>0, <4>1, <5>1 DEF Over
      <4>4. ty[r] \notin Numeric
        <5>1. CASE r = p
          <6>1. Sound(tr[i]) /\ Accepts(tr[i], tx[i]) /\ Accepts(After(tr[i], tx[i]), ty[r])
            BY <1>0, <1>1, <2>1, <3>2, <4>1, <5>1
          <6> QED
            BY <3>3, <6>1, NumberShut
        <5>2. CASE r # p
          <6>1. ty[r] = tx[r]
            BY <1>0, <1>1, <4>2, <5>2
          <6> QED
            BY <4>1, <5>2, <6>1 DEF Over
        <5> QED
          BY <5>1, <5>2
      <4>5. Over(ty, i, r, q)
        BY <4>1, <4>3, <4>4 DEF Over
      <4> QED
        BY <1>4, <2>1, <3>1, <3>2, <3>3, <4>1, <4>5
    <3>4. CASE ~Numbers(tr[i], tx[i])
      BY <1>4, <2>1, <3>1, <3>2, <3>4
    <3> QED
      BY <3>3, <3>4
  <2> QED
    BY <2>2, <2>3
<1>8. Path(ts, ty, q)
  BY <1>0, <1>1, <1>4, <1>5, <1>6, <1>7 DEF Path
<1> QED
  BY <1>4, <1>8 DEF t

(* A path does not depend on what comes after it.                               *)
LEMMA PathSame ==
    ASSUME NEW tr, NEW tx, NEW ty, NEW q, Path(tr, tx, q), \A k \in 1 .. q - 1 : ty[k] = tx[k]
    PROVE  Path(tr, ty, q)
<1>1. Path(tr, tx, q) /\ q \in Nat /\ \A k \in 1 .. q - 1 : ty[k] = tx[k]
  BY DEF Path
<1>2. \A i \in DOMAIN tr : i \in 1..q /\ (i # q => ty[i] = tx[i])
  BY <1>1 DEF Path
<1>3. ASSUME NEW i \in DOMAIN tr, i # q, NEW r \in DOMAIN tr, Over(tx, i, r, q)
      PROVE  Over(ty, i, r, q)
  <2>1. i \in 1..q /\ r \in 1..q
    BY <1>2
  <2>2. \A k \in i .. r - 1 : ty[k] = tx[k]
    BY <1>1, <2>1
  <2>3. r # q => ty[r] = tx[r]
    BY <1>2
  <2> QED
    BY <1>3, <2>2, <2>3 DEF Over
<1>4. \A i \in DOMAIN tr : i # q =>
        /\ Accepts(tr[i], ty[i])
        /\ IF Numbers(tr[i], ty[i])
           THEN \E r \in DOMAIN tr : Over(ty, i, r, q) /\ tr[r] = After(tr[i], ty[i])
           ELSE i + 1 \in DOMAIN tr /\ tr[i + 1] = After(tr[i], ty[i])
  BY <1>1, <1>2, <1>3 DEF Path
<1> QED
  BY <1>1, <1>4 DEF Path

\* The kind of value a character begins.
Value(b) == IF b \in Entrances THEN Begun_by(b) ELSE IF b = "word" THEN "word" ELSE "number"

\* The ways a step can go where no number is being read.
Goes(b) == At(b) /\ Accepts(View, b) /\ ~Numbers(View, b) /\ Moved(b) /\ at' = at + 1
Stops(b) ==
    /\ At(b)
    /\ \/ NewValueFails(b)
       \/ /\ ~Accepts(View, b) /\ ~("done" \in flags /\ b = EOF)
          /\ Refuse \/ (ending' = "crash" /\ pass' = "over")

(* ... are these.                                                              *)
LEMMA PlainStep ==
    ASSUME Reading, JsonNext, \A b \in Opening : Begins(b) => Fits(Value(b))
    PROVE  \/ \E b \in Chars : Goes(b) \/ Stops(b)
           \/ \E b \in {"-"} \cup Digit : SeekNumber(b)
           \/ DoneEOF
<1>1. \A f \in Modes : f \in View.flags <=> f \in flags
  BY Seeing
<1>2. /\ "string" \in View.flags <=> "string" \in flags
      /\ "done" \in View.flags <=> "done" \in flags
      /\ "seek_value" \in View.flags <=> "seek_value" \in flags
  BY <1>1 DEF Modes
<1>3. pass \in {"first", "second"} /\ ~Number
  BY NoNumber DEF Reading
<1>4. ~Release /\ ~FreeDown /\ ~FreeUp /\ ~NumberSign /\ ~NumberPoint
  BY <1>3 DEF Release, FreeDown, FreeUp, NumberSign, NumberPoint
<1>5. {"quote", "space", "]", "}", "word", "{", "["} \subseteq Chars
  BY DEF Chars, Structure
<1>6. CASE StringEnd
  <2>1. At("quote") /\ at' = at + 1 /\ ~Numbers(View, "quote")
    BY <1>6 DEF StringEnd, Numbers, Digit
  <2>2. Goes("quote")
    BY <1>6, <2>1, MovedStringEnd DEF Goes
  <2> QED
    BY <1>5, <2>2
<1>7. CASE DoneSpace
  <2>1. At("space") /\ at' = at + 1 /\ ~Numbers(View, "space")
    BY <1>7 DEF DoneSpace, Numbers, Digit
  <2>2. Goes("space")
    BY <1>7, <2>1, MovedOn DEF Goes
  <2> QED
    BY <1>5, <2>2
<1>8. CASE SeekBracket
  <2>1. CASE top # 0 /\ nodes[top].type = "array"
    <3>1. At("]") /\ at' = at + 1 /\ ~Numbers(View, "]") /\ Shuts("]")
      BY <1>8, <2>1 DEF SeekBracket, Numbers, Digit, Shuts
    <3>2. Goes("]")
      BY <3>1, MovedBracket DEF Goes
    <3> QED
      BY <1>5, <3>2
  <2>2. CASE ~(top # 0 /\ nodes[top].type = "array")
    <3>1. At("]") /\ (Refuse \/ (ending' = "crash" /\ pass' = "over"))
      BY <1>8, <2>2 DEF SeekBracket
    <3>2. ~Accepts(View, "]")
      BY <1>8, <2>2, Refusals DEF Shuts, ObjectEnd, SeekBracket, Seeking, Inside
    <3>3. "done" \notin flags
      BY <1>8 DEF SeekBracket, Seeking
    <3>4. Stops("]")
      BY <3>1, <3>2, <3>3 DEF Stops
    <3> QED
      BY <1>5, <3>4
  <2> QED
    BY <2>1, <2>2
<1>9. CASE SeekWord
  <2>1. Begins("word") /\ Fits("word")
    <3>1. "word" \in Opening /\ Value("word") = "word"
      BY DEF Opening, Value, Entrances
    <3>2. Begins("word")
      BY <1>9 DEF SeekWord
    <3> QED
      BY <3>1, <3>2
  <2>2. EndsAtOnce("word", "word", WithNode("word")) /\ Kind("word") = "word"
    BY <1>9 DEF SeekWord, EndsAtOnce, Kind
  <2>3. Accepts(View, "word") /\ Moved("word")
    BY <2>1, <2>2, MovedAtOnce
  <2>4. At("word") /\ at' = at + 1 /\ ~Numbers(View, "word")
    BY <1>9 DEF SeekWord, Begins, Numbers, Digit
  <2>5. Goes("word")
    BY <2>3, <2>4 DEF Goes
  <2> QED
    BY <1>5, <2>5
<1>10. CASE ObjectEnd
  <2>1. At("}") /\ at' = at + 1 /\ ~Numbers(View, "}") /\ Shuts("}")
    BY <1>10 DEF ObjectEnd, Numbers, Digit, Shuts
  <2>2. Goes("}")
    BY <2>1, MovedBracket DEF Goes
  <2> QED
    BY <1>5, <2>2
<1>11. ASSUME NEW b \in Entrances, SeekContainer(b, Begun_by(b))
       PROVE  Goes(b)
  <2>1. b \in Opening /\ Value(b) = Begun_by(b)
    BY DEF Opening, Value, Entrances
  <2>2. Begins(b) /\ At(b) /\ at' = at + 1
    BY <1>11 DEF SeekContainer, Begins
  <2>3. Fits(Begun_by(b))
    BY <2>1, <2>2
  <2>4. Accepts(View, b) /\ Moved(b)
    BY <1>11, <2>3, MovedContainer
  <2>5. ~Numbers(View, b)
    BY DEF Numbers, Digit, Entrances
  <2> QED
    BY <2>2, <2>4, <2>5 DEF Goes
<1>12. CASE \/ SeekContainer("{", "object") \/ SeekContainer("[", "array")
            \/ SeekContainer("quote", "string")
  <2>1. /\ Entrances = {"{", "[", "quote"}
        /\ Begun_by("{") = "object" /\ Begun_by("[") = "array" /\ Begun_by("quote") = "string"
    BY DEF Entrances, Begun_by
  <2>2. \E b \in Entrances : SeekContainer(b, Begun_by(b))
    BY <1>12, <2>1
  <2>3. \E b \in Entrances : Goes(b)
    BY <1>11, <2>2
  <2> QED
    BY <1>5, <2>1, <2>3
<1>13. ASSUME NEW b \in Symbols \cup {EOF},
              \/ NewValueFails(b) \/ StringRefuse(b) \/ StringAdd(b) \/ DoneGarbage(b) \/ SeekOn(b)
              \/ SeekRefuse(b) \/ SeekNumber(b) \/ ObjectOn(b) \/ ObjectRefuse(b)
              \/ NumberDigit(b) \/ NumberOver(b)
       PROVE  \/ \E c \in Chars : Goes(c) \/ Stops(c)
              \/ \E c \in {"-"} \cup Digit : SeekNumber(c)
  <2>1. b \in Chars
    BY JsonAssumption DEF Chars
  <2>2. CASE NewValueFails(b)
    <3>1. Stops(b)
      BY <2>2 DEF Stops, NewValueFails
    <3> QED
      BY <2>1, <3>1
  <2>3. CASE StringRefuse(b) \/ DoneGarbage(b) \/ SeekRefuse(b) \/ ObjectRefuse(b)
    <3>1. At(b) /\ Refuse
      BY <2>3 DEF StringRefuse, DoneGarbage, SeekRefuse, ObjectRefuse
    <3>2. ~Accepts(View, b)
      BY <2>3, Refusals
    <3>3. ~("done" \in flags /\ b = EOF)
      <4>1. "done" \in View.flags => "string" \notin View.flags
        BY DEF Reading, Sound
      <4> QED
        BY <1>2, <2>3, <4>1 DEF StringRefuse, DoneGarbage, SeekRefuse, Seeking, ObjectRefuse, Inside
    <3>4. Stops(b)
      BY <3>1, <3>2, <3>3 DEF Stops
    <3> QED
      BY <2>1, <3>4
  <2>4. CASE StringAdd(b)
    <3>1. At(b) /\ at' = at + 1 /\ "string" \in flags
      BY <2>4 DEF StringAdd
    <3>2. ~Numbers(View, b)
      BY <1>2, <3>1 DEF Numbers
    <3>3. Goes(b)
      BY <2>4, <3>1, <3>2, MovedInString DEF Goes
    <3> QED
      BY <2>1, <3>3
  <2>5. CASE SeekOn(b) \/ ObjectOn(b)
    <3>1. At(b) /\ at' = at + 1
      BY <2>5 DEF SeekOn, ObjectOn
    <3>2. ~Numbers(View, b)
      BY <1>2, <2>5 DEF Numbers, SeekOn, ObjectOn, Inside, Digit
    <3>3. Goes(b)
      BY <2>5, <3>1, <3>2, MovedOn DEF Goes
    <3> QED
      BY <2>1, <3>3
  <2>6. CASE SeekNumber(b)
    BY <2>6 DEF SeekNumber
  <2>7. CASE NumberDigit(b) \/ NumberOver(b)
    BY <1>3, <2>7 DEF NumberDigit, NumberOver
  <2> QED
    BY <1>13, <2>2, <2>3, <2>4, <2>5, <2>6, <2>7
<1> QED
  BY <1>4, <1>6, <1>7, <1>8, <1>9, <1>10, <1>12, <1>13 DEF JsonNext

-----------------------------------------------------------------------------
(* The first pass.                                                            *)

TextRead ==
    text \in Seq(Chars) /\ at \in Nat /\ at >= 1 /\ (Len(text) = at - 1 \/ Len(text) = at)

Plain(tr) == Reading /\ Path(tr, text, at) /\ tr[at] = View

\* A number that began at place p; what is left to do ends it.
Ending == Closed(length, Bares(nodes, Len(nodes)), top, flags \ NumberFlags)
InNumber(tr, p) ==
    /\ p \in Nat /\ p <= at /\ p <= Len(text) /\ Path(tr, text, p)
    /\ Accepts(tr[p], text[p]) /\ Numbers(tr[p], text[p])
    /\ \A k \in p .. at - 1 : text[k] \in Numeric
    /\ at = p => text[p] \in Digit
    /\ nodes \in Seq(Record) /\ alloc \in Nat /\ flags \subseteq Modes \cup NumberFlags
    /\ flags \cap {"string", "done", "seek_value"} = {}
    /\ top \in 1..Len(nodes) /\ nodes[top].type \in {"integer", "double"}
    /\ Family(Bares(nodes, Len(nodes)))
    /\ Ending = After(tr[p], text[p])

FirstPass == TextRead /\ \E tr : Plain(tr) \/ \E p : InNumber(tr, p)

(* The character that is read.                                                 *)
LEMMA AtPlace ==
    ASSUME TextRead, NEW b \in Chars, At(b)
    PROVE  /\ text' \in Seq(Chars) /\ Len(text') = at /\ text'[at] = b
           /\ \A k \in 1 .. at - 1 : text'[k] = text[k]
           /\ at <= Len(text) => text' = text
<1>1. text \in Seq(Chars) /\ at \in Nat /\ at >= 1 /\ (Len(text) = at - 1 \/ Len(text) = at)
  BY DEF TextRead
<1>2. CASE at <= Len(text)
  BY <1>1, <1>2 DEF At
<1>3. CASE ~(at <= Len(text))
  <2>1. text' = Append(text, b)
    BY <1>3 DEF At
  <2>2. Len(text) = at - 1
    BY <1>1, <1>3
  <2> QED
    BY <1>1, <1>3, <2>1, <2>2
<1> QED
  BY <1>2, <1>3

(* ... then stays read.                                                        *)
LEMMA TextOn ==
    ASSUME TextRead, NEW b \in Chars, At(b), at' = at \/ at' = at + 1
    PROVE  TextRead'
<1>1. at \in Nat /\ at >= 1
  BY DEF TextRead
<1>2. text' \in Seq(Chars) /\ Len(text') = at
  BY AtPlace
<1>3. at' \in Nat /\ at' >= 1 /\ (Len(text') = at' - 1 \/ Len(text') = at')
  BY <1>1, <1>2
<1> QED
  BY <1>2, <1>3 DEF TextRead

(* Where no number is read.                                                    *)
LEMMA PlainGoes ==
    ASSUME TextRead, NEW tr, Plain(tr), NEW b \in Chars, Goes(b)
    PROVE  TextRead' /\ \E ts : Plain(ts)'
<1>1. /\ Reading /\ Path(tr, text, at) /\ tr[at] = View
  BY DEF Plain
<1>2. /\ At(b) /\ Accepts(View, b) /\ ~Numbers(View, b) /\ at' = at + 1
      /\ View' = After(View, b) /\ Standing
  BY DEF Goes, Moved
<1>3. TextRead' /\ at \in Nat
  BY <1>2, TextOn DEF TextRead
<1>4. text'[at] = b /\ \A k \in 1 .. at - 1 : text'[k] = text[k]
  BY <1>2, AtPlace
<1>5. Leads(tr, text, text', at, at + 1)
  BY <1>1, <1>2, <1>3, <1>4 DEF Leads
<1>6. \E ts : Path(ts, text', at + 1) /\ ts[at + 1] = After(tr[at], text'[at])
  BY <1>5, PathOn
<1>7. PICK ts : Path(ts, text', at') /\ ts[at'] = View'
  BY <1>1, <1>2, <1>4, <1>6
<1>8. Sound(View')
  BY <1>1, <1>2, StepMade DEF Reading, StepsOn
<1>9. Reading'
  BY <1>1, <1>2, <1>8 DEF Reading, Standing
<1>10. Plain(ts)'
  BY <1>7, <1>9 DEF Plain
<1> QED
  BY <1>3, <1>10

(* A number begins.                                                            *)
LEMMA PlainNumber ==
    ASSUME TextRead, NEW tr, Plain(tr), pass = "first", NEW b \in {"-"} \cup Digit, SeekNumber(b),
           NEW p, p = at
    PROVE  TextRead' /\ InNumber(tr, p)' /\ pass' = "first"
<1>1. /\ Reading /\ Path(tr, text, at) /\ tr[at] = View
  BY DEF Plain
<1> DEFINE n == Seen
           ns == WithNode("integer")
<1>2. /\ At(b) /\ Begins(b) /\ alloc' = Next_alloc /\ nodes' = ns /\ top' = Node
      /\ flags' = (flags \ ({"seek_value"} \cup NumberFlags))
                     \cup (IF b = "-" THEN {"num_negative"} ELSE {})
      /\ at' = (IF b = "-" THEN at + 1 ELSE at)
      /\ UNCHANGED <<pass, length, ending>>
  BY DEF SeekNumber, Begins
<1>3. b \in Chars /\ b \in Opening /\ b \in Numeric
  BY DEF Chars, Opening, Numeric, Digit
<1>4. /\ "string" \notin flags /\ "done" \notin flags /\ "seek_value" \in flags
      /\ Accepts(View, b) /\ After(View, b) = AfterSeeking(View, b)
  BY <1>1, <1>2, <1>3, Beginning
<1>5. /\ View.flags = flags \ NumberFlags /\ View.top = top /\ View.length = length
      /\ Len(View.bare) = n /\ length \in Nat
      /\ \A f \in Modes : f \in View.flags <=> f \in flags
  BY <1>1, Seeing
<1>6. Numbers(View, b)
  BY <1>4, <1>5 DEF Numbers, Modes
<1>7. Kind("integer") = "number" /\ "integer" \in Types
  BY DEF Kind, Types
<1>8. Fits("number")
  BY DEF Fits
<1>9. /\ ns \in Seq(Record) /\ Node = n + 1 /\ Bares(ns, n + 1) = Begun(View, "number")
      /\ Family(Begun(View, "number")) /\ Next_alloc \in Nat /\ Len(ns) = n + 1
  BY <1>1, <1>4, <1>7, <1>8, NodeMade
<1>10. After(View, b) = Closed(View.length, Begun(View, "number"), n + 1, View.flags)
  BY <1>4, <1>5 DEF AfterSeeking, Digit
<1>11. n \in Nat /\ flags \subseteq Modes \cup NumberFlags /\ n = Len(nodes)
       /\ nodes \in Seq(Record)
  BY <1>1 DEF Reading, Seen
<1>12. nodes'[top'].type = "integer"
  <2>1. ns = Append(nodes, NewNode("integer", top)) /\ Node = Len(nodes) + 1
    BY DEF WithNode, Node
  <2>2. ns[Len(nodes) + 1] = NewNode("integer", top)
    BY <1>11, <2>1
  <2> QED
    BY <1>2, <2>1, <2>2 DEF NewNode
<1> HIDE DEF ns
<1>13. (flags' \ NumberFlags) \ {"seek_value"} = View.flags \ {"seek_value"}
  BY <1>2, <1>5 DEF NumberFlags
<1>14. Ending' = After(View, b)
  <2>1. Len(nodes') = n + 1 /\ top' = n + 1 /\ length' = length
    BY <1>2, <1>9
  <2>2. Ending' = Closed(length', Bares(nodes', Len(nodes')), top', flags' \ NumberFlags)
    BY DEF Ending, Closed, Counted, Wanted, CountAt, Bares, Bare, State
  <2>3. Bares(nodes', Len(nodes')) = Begun(View, "number")
    BY <1>2, <1>9, <2>1
  <2>4. Ending' = Closed(View.length, Begun(View, "number"), n + 1, flags' \ NumberFlags)
    BY <1>5, <2>1, <2>2, <2>3
  <2>5. Closed(View.length, Begun(View, "number"), n + 1, flags' \ NumberFlags)
           = Closed(View.length, Begun(View, "number"), n + 1, View.flags)
    BY <1>13 DEF Closed
  <2> QED
    BY <1>10, <2>4, <2>5
<1>15. TextRead' /\ at \in Nat /\ at >= 1
  BY <1>2, <1>3, TextOn DEF TextRead
<1>16. /\ text'[at] = b /\ Len(text') = at
       /\ \A k \in 1 .. at - 1 : text'[k] = text[k]
  BY <1>2, <1>3, AtPlace
<1>17. Path(tr, text', at)
  BY <1>1, <1>16, PathSame
<1>18. at' = at => text'[at] \in Digit
  BY <1>2, <1>15, <1>16 DEF Digit
<1>19. at <= at' /\ \A k \in at .. at' - 1 : text'[k] \in Numeric
  <2>1. \A k \in at .. at' - 1 : k = at
    BY <1>2, <1>15
  <2> QED
    BY <1>2, <1>3, <1>15, <1>16, <2>1
<1>20. flags' \subseteq Modes \cup NumberFlags /\ flags' \cap {"string", "done", "seek_value"} = {}
  BY <1>2, <1>4, <1>11 DEF NumberFlags
<1>21. top' \in 1..Len(nodes') /\ Family(Bares(nodes', Len(nodes')))
  BY <1>2, <1>9, <1>11
<1>22. InNumber(tr, p)'
  BY <1>1, <1>2, <1>4, <1>6, <1>9, <1>12, <1>14, <1>15, <1>16, <1>17, <1>18, <1>19, <1>20, <1>21
     DEF InNumber
<1> QED
  BY <1>2, <1>15, <1>22

(* A number with a point or an exponent.                                       *)
LEMMA RecordDouble ==
    ASSUME NEW ns \in Seq(Record), NEW k \in 1..Len(ns), Kind(ns[k].type) = "number"
    PROVE  LET ms == [ns EXCEPT ![k].type = "double"]
           IN  /\ ms \in Seq(Record) /\ Len(ms) = Len(ns) /\ ms[k].type = "double"
               /\ Bares(ms, Len(ns)) = Bares(ns, Len(ns))
<1> DEFINE x == [ns[k] EXCEPT !.type = "double"]
           ms == [ns EXCEPT ![k].type = "double"]
<1>1. ns[k] \in Record /\ Len(ns) \in Nat
  OBVIOUS
<1>2. x \in Record
  BY <1>1 DEF Record, Types
<1>3. /\ x.type = "double" /\ x.parent = ns[k].parent /\ x.count = ns[k].count
      /\ x.names = ns[k].names
  BY <1>1 DEF Record
<1>4. ms = [ns EXCEPT ![k] = x]
  OBVIOUS
<1> HIDE DEF x, ms
<1>5. /\ ms \in Seq(Record) /\ Len(ms) = Len(ns) /\ ms[k] = x
      /\ \A i \in 1..Len(ns) : i # k => ms[i] = ns[i]
  BY <1>2, <1>4
<1>6. Kind(x.type) = "number"
  BY <1>3 DEF Kind
<1>7. Bare(ms[k]) = Bare(ns[k])
  BY <1>3, <1>5, <1>6 DEF Bare
<1>8. \A i \in 1..Len(ns) : Bare(ms[i]) = Bare(ns[i])
  BY <1>5, <1>7
<1>9. Bares(ms, Len(ns)) = Bares(ns, Len(ns))
  BY <1>8 DEF Bares
<1> QED
  BY <1>3, <1>5, <1>9 DEF ms

\* The number reads one more character.
NumberOn(b) ==
    /\ At(b) /\ b \in Numeric /\ at' = at + 1 /\ pass' = pass
    /\ UNCHANGED <<top, alloc, length>>
    /\ flags' \ NumberFlags = flags \ NumberFlags /\ flags' \subseteq flags \cup NumberFlags
    /\ \/ nodes' = nodes
       \/ nodes' = [nodes EXCEPT ![top].type = "double"]
\* ... or it is over before it.
NumberEnd(b) ==
    /\ At(b) /\ b \notin Digit /\ Completed(nodes, top, flags)
    /\ UNCHANGED <<at, pass, alloc, length>>

(* The steps inside a number.                                                  *)
LEMMA NumberStep ==
    ASSUME NEW tr, NEW p, InNumber(tr, p), pass = "first", JsonNext
    PROVE  \/ \E b \in Chars : NumberOn(b) \/ NumberEnd(b)
           \/ Refuse
<1>1. /\ flags \cap {"string", "done", "seek_value"} = {}
      /\ nodes[top].type \in {"integer", "double"}
  BY DEF InNumber
<1>2. /\ ~StringEnd /\ ~DoneSpace /\ ~DoneEOF /\ ~SeekBracket /\ ~SeekWord /\ ~ObjectEnd
      /\ ~SeekContainer("{", "object") /\ ~SeekContainer("[", "array") /\ ~SeekContainer("quote", "string")
      /\ ~Release /\ ~FreeDown /\ ~FreeUp
  BY <1>1 DEF StringEnd, DoneSpace, DoneEOF, SeekBracket, Seeking, SeekWord, Begins, ObjectEnd, Inside,
              SeekContainer, Release, FreeDown, FreeUp
<1>3. \A b : /\ ~NewValueFails(b) /\ ~StringRefuse(b) /\ ~StringAdd(b) /\ ~DoneGarbage(b) /\ ~SeekOn(b)
             /\ ~SeekRefuse(b) /\ ~SeekNumber(b) /\ ~ObjectOn(b) /\ ~ObjectRefuse(b)
  BY <1>1 DEF NewValueFails, StringRefuse, StringAdd, DoneGarbage, SeekOn, Seeking, SeekRefuse,
              SeekNumber, Begins, ObjectOn, ObjectRefuse, Inside
<1>4. CASE NumberSign
  <2>1. At("-") /\ at' = at + 1 /\ flags' = flags \cup {"num_e_got_sign"}
        /\ UNCHANGED <<pass, nodes, top, alloc, length>>
    BY <1>4 DEF NumberSign
  <2>2. "-" \in Numeric /\ "-" \in Chars
    BY DEF Numeric, Chars
  <2>3. flags' \ NumberFlags = flags \ NumberFlags /\ flags' \subseteq flags \cup NumberFlags
    BY <2>1 DEF NumberFlags
  <2>4. NumberOn("-")
    BY <2>1, <2>2, <2>3 DEF NumberOn
  <2> QED
    BY <2>2, <2>4
<1>5. CASE NumberPoint
  <2>1. At(".") /\ (Refuse \/ (at' = at + 1 /\ nodes' = [nodes EXCEPT ![top].type = "double"]
                               /\ UNCHANGED <<pass, flags, top, alloc, length>>))
    BY <1>5 DEF NumberPoint
  <2>2. "." \in Numeric /\ "." \in Chars
    BY DEF Numeric, Chars
  <2>3. Refuse \/ NumberOn(".")
    BY <2>1, <2>2 DEF NumberOn
  <2> QED
    BY <2>2, <2>3
<1>6. ASSUME NEW b \in Symbols \cup {EOF}, NumberDigit(b) \/ NumberOver(b)
      PROVE  \/ \E c \in Chars : NumberOn(c) \/ NumberEnd(c)
             \/ Refuse
  <2>1. b \in Chars
    BY JsonAssumption DEF Chars
  <2>2. CASE NumberDigit(b)
    <3>1. At(b) /\ b \in Digit
      BY <2>2 DEF NumberDigit
    <3>2. \/ Refuse
          \/ /\ flags' = flags \cup
                 (IF "num_e" \in flags THEN {"num_e_got_sign"}
                  ELSE IF nodes[top].type = "integer" /\ digits = 0 /\ b = "0" THEN {"num_zero"}
                  ELSE {})
             /\ at' = at + 1
             /\ UNCHANGED <<pass, nodes, top, alloc, length, ending>>
      BY <2>2 DEF NumberDigit
    <3>3. CASE ~Refuse
      <4>1. flags' \ NumberFlags = flags \ NumberFlags /\ flags' \subseteq flags \cup NumberFlags
        BY <3>2, <3>3 DEF NumberFlags
      <4>2. NumberOn(b)
        BY <3>1, <3>2, <3>3, <4>1 DEF NumberOn, Numeric, Digit
      <4> QED
        BY <2>1, <4>2
    <3> QED
      BY <3>3
  <2>3. CASE NumberOver(b)
    <3>1. At(b) /\ b \notin Digit
      BY <2>3 DEF NumberOver
    <3>2. \/ Refuse
          \/ /\ b = "e" /\ nodes' = [nodes EXCEPT ![top].type = "double"]
             /\ flags' = (flags \cup {"num_e"}) \ {"num_zero"}
             /\ at' = at + 1
             /\ UNCHANGED <<pass, top, alloc, length, ending>>
          \/ Completed(nodes, top, flags) /\ UNCHANGED <<at, pass, alloc, length, digits, ending>>
      BY <2>3 DEF NumberOver
    <3>3. CASE /\ b = "e" /\ nodes' = [nodes EXCEPT ![top].type = "double"]
               /\ flags' = (flags \cup {"num_e"}) \ {"num_zero"}
               /\ at' = at + 1
               /\ UNCHANGED <<pass, top, alloc, length, ending>>
      <4>2. flags' \ NumberFlags = flags \ NumberFlags /\ flags' \subseteq flags \cup NumberFlags
        BY <3>3 DEF NumberFlags
      <4>3. NumberOn(b)
        BY <3>1, <3>3, <4>2 DEF NumberOn, Numeric
      <4> QED
        BY <2>1, <4>3
    <3>4. CASE Completed(nodes, top, flags) /\ UNCHANGED <<at, pass, alloc, length, digits, ending>>
      <4>1. NumberEnd(b)
        BY <3>1, <3>4 DEF NumberEnd
      <4> QED
        BY <2>1, <4>1
    <3> QED
      BY <3>2, <3>3, <3>4
  <2> QED
    BY <1>6, <2>2, <2>3
<1> QED
  BY <1>2, <1>3, <1>4, <1>5, <1>6 DEF JsonNext

(* A number goes on.                                                           *)
LEMMA NumberGoes ==
    ASSUME TextRead, NEW tr, NEW p, InNumber(tr, p), NEW b \in Chars, NumberOn(b)
    PROVE  TextRead' /\ InNumber(tr, p)'
<1>1. /\ p \in Nat /\ p <= at /\ p <= Len(text) /\ Path(tr, text, p)
      /\ Accepts(tr[p], text[p]) /\ Numbers(tr[p], text[p])
      /\ \A k \in p .. at - 1 : text[k] \in Numeric
      /\ nodes \in Seq(Record) /\ alloc \in Nat /\ flags \subseteq Modes \cup NumberFlags
      /\ flags \cap {"string", "done", "seek_value"} = {}
      /\ top \in 1..Len(nodes) /\ nodes[top].type \in {"integer", "double"}
      /\ Family(Bares(nodes, Len(nodes)))
      /\ Ending = After(tr[p], text[p])
  BY DEF InNumber
<1>2. /\ At(b) /\ b \in Numeric /\ at' = at + 1 /\ UNCHANGED <<top, alloc, length>>
      /\ flags' \ NumberFlags = flags \ NumberFlags /\ flags' \subseteq flags \cup NumberFlags
  BY DEF NumberOn
<1>3. TextRead' /\ at \in Nat /\ at >= 1 /\ text \in Seq(Chars)
      /\ (Len(text) = at - 1 \/ Len(text) = at)
  BY <1>2, TextOn DEF TextRead
<1>4. /\ text'[at] = b /\ Len(text') = at /\ \A k \in 1 .. at - 1 : text'[k] = text[k]
      /\ at <= Len(text) => text' = text
  BY <1>2, AtPlace
<1>5. p >= 1
  BY <1>1 DEF Path
<1>6. text'[p] = text[p] /\ p <= Len(text')
  <2>1. CASE p = at
    BY <1>1, <1>3, <1>4, <2>1
  <2>2. CASE p # at
    BY <1>1, <1>3, <1>4, <1>5, <2>2
  <2> QED
    BY <2>1, <2>2
<1>7. Path(tr, text', p)
  <2>1. \A k \in 1 .. p - 1 : text'[k] = text[k]
    BY <1>1, <1>3, <1>4
  <2> QED
    BY <1>1, <2>1, PathSame
<1>8. \A k \in p .. at' - 1 : text'[k] \in Numeric
  <2>1. ASSUME NEW k \in p .. at' - 1
        PROVE  text'[k] \in Numeric
    <3>1. k \in p .. at - 1 \/ k = at
      BY <1>1, <1>2, <1>3
    <3>2. k \in p .. at - 1 => k \in 1 .. at - 1
      BY <1>1, <1>3, <1>5
    <3> QED
      BY <1>1, <1>2, <1>4, <3>1, <3>2
  <2> QED
    BY <2>1
<1>9. p <= at' /\ at' # p
  BY <1>1, <1>2, <1>3
<1>10. /\ nodes' \in Seq(Record) /\ Len(nodes') = Len(nodes)
       /\ nodes'[top].type \in {"integer", "double"}
       /\ Bares(nodes', Len(nodes')) = Bares(nodes, Len(nodes))
  <2>1. CASE nodes' = nodes
    BY <1>1, <2>1
  <2>2. CASE nodes' = [nodes EXCEPT ![top].type = "double"]
    <3> DEFINE ms == [nodes EXCEPT ![top].type = "double"]
    <3>1. Kind(nodes[top].type) = "number"
      BY <1>1 DEF Kind
    <3>2. /\ ms \in Seq(Record) /\ Len(ms) = Len(nodes) /\ ms[top].type = "double"
          /\ Bares(ms, Len(nodes)) = Bares(nodes, Len(nodes))
      BY <1>1, <3>1, RecordDouble
    <3> HIDE DEF ms
    <3>3. nodes' = ms
      BY <2>2 DEF ms
    <3> QED
      BY <3>2, <3>3
  <2> QED
    BY <2>1, <2>2 DEF NumberOn
<1>11. Ending' = Ending
  <2>1. Ending' = Closed(length', Bares(nodes', Len(nodes')), top', flags' \ NumberFlags)
    BY DEF Ending, Closed, Counted, Wanted, CountAt, Bares, Bare, State
  <2>2. Ending' = Closed(length, Bares(nodes, Len(nodes)), top, flags \ NumberFlags)
    BY <1>2, <1>10, <2>1
  <2> QED
    BY <2>2 DEF Ending
<1>12. flags' \subseteq Modes \cup NumberFlags /\ flags' \cap {"string", "done", "seek_value"} = {}
  BY <1>1, <1>2 DEF NumberFlags
<1>13. InNumber(tr, p)'
  BY <1>1, <1>2, <1>6, <1>7, <1>8, <1>9, <1>10, <1>11, <1>12 DEF InNumber
<1> QED
  BY <1>3, <1>13

(* A number ends.                                                              *)
LEMMA NumberEnds ==
    ASSUME TextRead, NEW tr, NEW p, InNumber(tr, p), pass = "first", NEW b \in Chars, NumberEnd(b)
    PROVE  TextRead' /\ \E ts : Plain(ts)'
<1>1. /\ p \in Nat /\ p <= at /\ p <= Len(text) /\ Path(tr, text, p)
      /\ Accepts(tr[p], text[p]) /\ Numbers(tr[p], text[p])
      /\ \A k \in p .. at - 1 : text[k] \in Numeric
      /\ (at = p => text[p] \in Digit)
      /\ nodes \in Seq(Record) /\ alloc \in Nat /\ flags \subseteq Modes \cup NumberFlags
      /\ top \in 1..Len(nodes)
      /\ Family(Bares(nodes, Len(nodes)))
      /\ Ending = After(tr[p], text[p])
  BY DEF InNumber
<1>2. /\ At(b) /\ b \notin Digit /\ Completed(nodes, top, flags)
      /\ UNCHANGED <<at, pass, alloc, length>>
  BY DEF NumberEnd
<1>3. TextRead' /\ at \in Nat /\ at >= 1 /\ text \in Seq(Chars)
      /\ (Len(text) = at - 1 \/ Len(text) = at)
  BY <1>2, TextOn DEF TextRead
<1>4. /\ text'[at] = b /\ Len(text') = at /\ \A k \in 1 .. at - 1 : text'[k] = text[k]
      /\ at <= Len(text) => text' = text
  BY <1>2, AtPlace
<1>5. p >= 1 /\ p < at
  <2>1. p # at
    BY <1>1, <1>2, <1>4
  <2> QED
    BY <1>1, <1>3, <2>1 DEF Path
<1>6. Leads(tr, text, text', p, at)
  <2>1. \A k \in 1 .. p - 1 : text'[k] = text[k]
    BY <1>1, <1>3, <1>4
  <2>2. text'[p] = text[p]
    BY <1>1, <1>3, <1>4, <1>5
  <2>3. \A k \in p .. at - 1 : k \in 1 .. at - 1
    BY <1>1, <1>3, <1>5
  <2>4. \A k \in p .. at - 1 : text'[k] \in Numeric
    BY <1>1, <1>4, <2>3
  <2> QED
    BY <1>1, <1>3, <1>5, <2>1, <2>2, <2>4 DEF Leads
<1>7. PICK ts : Path(ts, text', at) /\ ts[at] = After(tr[p], text'[p])
  BY <1>6, PathOn
<1>8. text'[p] = text[p]
  BY <1>1, <1>3, <1>4, <1>5
<1> DEFINE n == Len(nodes)
<1>9. n \in Nat /\ n <= Len(nodes) /\ top \in 1..n /\ Family(Bares(nodes, n))
  BY <1>1
<1>10. IF pass = "first" THEN n = Len(nodes) ELSE n = alloc' - 1
  OBVIOUS
<1> HIDE DEF n
<1>11. /\ Seen' = n /\ View' = Closed(length, Bares(nodes, n), top, flags \ NumberFlags)
       /\ nodes' \in Seq(Record) /\ Len(nodes') = Len(nodes)
       /\ flags' \subseteq Modes \cup NumberFlags
  BY <1>1, <1>2, <1>9, <1>10, CompletedStep
<1>12. View' = After(tr[p], text[p])
  BY <1>1, <1>11 DEF Ending, n
<1>13. Sound(View')
  <2>1. Sound(ts[at])
    BY <1>7 DEF Path
  <2> QED
    BY <1>7, <1>8, <1>12, <2>1
<1>14. Reading'
  BY <1>1, <1>2, <1>9, <1>11, <1>13 DEF Reading
<1>15. Path(ts, text', at') /\ ts[at'] = View'
  BY <1>2, <1>7, <1>8, <1>12
<1>16. Plain(ts)'
  BY <1>14, <1>15 DEF Plain
<1> QED
  BY <1>3, <1>16

(* A step of the first pass.                                                   *)
LEMMA FirstStep ==
    ASSUME pass = "first", FirstPass, JsonNext
    PROVE  \/ pass' = "first" /\ FirstPass'
           \/ pass' = "over"
           \/ DoneEOF /\ TextRead /\ \E tr : Plain(tr)
<1>1. TextRead
  BY DEF FirstPass
<1>2. ASSUME Refuse
      PROVE  pass' = "over"
  BY <1>2 DEF Refuse
<1>3. ASSUME NEW tr, Plain(tr)
      PROVE  \/ pass' = "first" /\ FirstPass'
             \/ pass' = "over"
             \/ DoneEOF /\ TextRead /\ \E ts : Plain(ts)
  <2>1. Reading
    BY <1>3 DEF Plain
  <2>2. \A b \in Opening : Begins(b) => Fits(Value(b))
    BY DEF Fits
  <2>3. \/ \E b \in Chars : Goes(b) \/ Stops(b)
        \/ \E b \in {"-"} \cup Digit : SeekNumber(b)
        \/ DoneEOF
    BY <2>1, <2>2, PlainStep
  <2>4. ASSUME NEW b \in Chars, Goes(b)
        PROVE  pass' = "first" /\ FirstPass'
    <3>1. TextRead' /\ \E ts : Plain(ts)'
      BY <1>1, <1>3, <2>4, PlainGoes
    <3>2. pass' = "first"
      BY <2>4 DEF Goes, Moved, Standing
    <3> QED
      BY <3>1, <3>2 DEF FirstPass
  <2>5. ASSUME NEW b \in Chars, Stops(b)
        PROVE  pass' = "over"
    BY <1>2, <2>5 DEF Stops, NewValueFails
  <2>6. ASSUME NEW b \in {"-"} \cup Digit, SeekNumber(b)
        PROVE  pass' = "first" /\ FirstPass'
    <3>1. PICK p : p = at
      OBVIOUS
    <3>2. TextRead' /\ InNumber(tr, p)' /\ pass' = "first"
      BY <1>1, <1>3, <2>6, <3>1, PlainNumber
    <3> QED
      BY <3>2 DEF FirstPass
  <2> QED
    BY <1>1, <1>3, <2>3, <2>4, <2>5, <2>6
<1>4. ASSUME NEW tr, NEW p, InNumber(tr, p)
      PROVE  pass' = "over" \/ (pass' = "first" /\ FirstPass')
  <2>1. (\E b \in Chars : NumberOn(b) \/ NumberEnd(b)) \/ Refuse
    BY <1>4, NumberStep
  <2>2. ASSUME NEW b \in Chars, NumberOn(b)
        PROVE  pass' = "first" /\ FirstPass'
    <3>1. TextRead' /\ InNumber(tr, p)'
      BY <1>1, <1>4, <2>2, NumberGoes
    <3>2. pass' = "first"
      BY <2>2 DEF NumberOn
    <3> QED
      BY <3>1, <3>2 DEF FirstPass
  <2>3. ASSUME NEW b \in Chars, NumberEnd(b)
        PROVE  pass' = "first" /\ FirstPass'
    <3>1. TextRead' /\ \E ts : Plain(ts)'
      BY <1>1, <1>4, <2>3, NumberEnds
    <3>2. pass' = "first"
      BY <2>3 DEF NumberEnd
    <3> QED
      BY <3>1, <3>2 DEF FirstPass
  <2> QED
    BY <1>2, <2>1, <2>2, <2>3
<1> QED
  BY <1>3, <1>4 DEF FirstPass

-----------------------------------------------------------------------------
(* The second pass.                                                           *)

\* A node that only the first pass has seen.
Blank(n) == ~n.own /\ n.freed = 0 /\ n.ownfreed = 0 /\ n.kids = <<>>

\* A node with room for what it was in the end.
Roomy(n, f) == IF n.type \in Owning THEN n.own /\ n.room = f.count /\ n.nameroom = f.names
               ELSE ~n.own

Second(tr) ==
    /\ pass = "second" /\ text \in Seq(Chars) /\ Path(tr, text, Len(text))
    /\ text[Len(text)] = EOF /\ "done" \in tr[Len(text)].flags
    /\ Reading /\ at \in DOMAIN tr /\ tr[at] = View
    /\ Len(nodes) = Len(tr[Len(text)].bare)
    /\ \A k \in 1..Len(nodes) :
          IF k <= Seen THEN Roomy(nodes[k], tr[Len(text)].bare[k])
          ELSE Bare(nodes[k]) = tr[Len(text)].bare[k] /\ Blank(nodes[k])

(* The character that is read again.                                           *)
LEMMA AtAgain ==
    ASSUME NEW tr, Second(tr), NEW b, At(b)
    PROVE  b = text[at] /\ text' = text
<1>1. at \in 1..Len(text) /\ Len(text) \in Nat
  BY DEF Second, Path
<1> QED
  BY <1>1 DEF At

(* The next node is of the type that is wanted.                                *)
LEMMA FitsAgain ==
    ASSUME NEW tr, Second(tr), NEW b \in Opening, Begins(b)
    PROVE  Fits(Value(b))
<1> DEFINE last == Len(text)
           F == tr[last].bare
           t == After(View, b)
           n == Seen
           type == Value(b)
           bs == Begun(View, type)
<1>1. /\ Path(tr, text, last) /\ Reading /\ at \in DOMAIN tr /\ tr[at] = View
      /\ "done" \in tr[last].flags /\ Len(nodes) = Len(F)
      /\ pass = "second"
  BY DEF Second
<1>2. b = text[at] /\ at \in Nat
  BY AtAgain DEF Begins, Second, Path
<1>3. /\ "string" \notin flags /\ "done" \notin flags /\ "seek_value" \in flags
      /\ t = AfterSeeking(View, b)
  BY <1>1, Beginning
<1>4. /\ View.flags = flags \ NumberFlags /\ View.top = top /\ Len(View.bare) = n
      /\ \A f \in Modes : f \in View.flags <=> f \in flags
  BY <1>1, Seeing
<1>5. "string" \notin View.flags /\ "done" \notin View.flags /\ "seek_value" \in View.flags
  BY <1>3, <1>4 DEF Modes
<1>6. at # last
  BY <1>1, <1>5
<1>7. \E r \in DOMAIN tr : tr[r] = t
  BY <1>1, <1>2, <1>6 DEF Path
<1>8. Sound(t) /\ Grows(t, tr[last]) /\ Sound(tr[last])
  BY <1>1, <1>7 DEF Path
<1>9. type \in Kinds
  BY DEF Value, Begun_by, Kinds
<1>10. /\ Family(bs) /\ Len(bs) = n + 1 /\ bs[n + 1] = Fresh(type, top)
  BY <1>1, <1>4, <1>5, <1>9, NodeMore DEF Reading
<1>11. n \in Nat /\ alloc \in Nat /\ n = alloc - 1
  BY <1>1 DEF Reading, Seen
<1>12. n + 1 \in 1..Len(bs) /\ alloc = n + 1
  BY <1>10, <1>11
<1>13. NodesGrow(bs, t.bare)
  <2>1. CASE b \in Entrances
    <3>1. t.bare = bs
      <4>1. type = Begun_by(b)
        BY <2>1 DEF Value
      <4>2. CASE b = "{"
        <5>1. type = "object"
          BY <4>1, <4>2 DEF Begun_by
        <5>2. t = State(View.flags \ {"seek_value"}, Len(View.bare) + 1, View.length, Begun(View, "object"))
          BY <1>3, <4>2 DEF AfterSeeking
        <5>3. t.bare = Begun(View, "object")
          BY <5>2 DEF State
        <5> QED
          BY <5>1, <5>3
      <4>3. CASE b = "["
        <5>1. type = "array" /\ t.bare = Begun(View, "array")
          BY <1>3, <4>1, <4>3 DEF AfterSeeking, State, Begun_by
        <5> QED
          BY <5>1
      <4>4. CASE b = "quote"
        <5>1. type = "string" /\ t.bare = Begun(View, "string")
          BY <1>3, <4>1, <4>4 DEF AfterSeeking, State, Begun_by
        <5> QED
          BY <5>1
      <4> QED
        BY <2>1, <4>2, <4>3, <4>4 DEF Entrances
    <3> QED
      BY <1>10, <3>1, NodesGrowNot
  <2>2. CASE b \notin Entrances
    <3>1. b \in {"word", "-"} \cup Digit
      BY <2>2 DEF Opening, Entrances
    <3>2. t = Closed(View.length, bs, n + 1, View.flags)
      BY <1>3, <1>4, <2>2, <3>1 DEF AfterSeeking, Value, Entrances, Digit
    <3>3. t.bare = Counted(bs, n + 1)
      BY <3>2 DEF Closed, State
    <3> HIDE DEF bs, t, n
    <3> QED
      BY <1>10, <1>12, <3>3, NodesGrowClosed
  <2> QED
    BY <2>1, <2>2
<1> HIDE DEF bs, t, n, F, last, type
<1>14. Family(F) /\ Family(t.bare) /\ NodesGrow(t.bare, F)
  BY <1>8 DEF Sound, Grows, F
<1>15. NodesGrow(bs, F)
  BY <1>10, <1>13, <1>14, NodesGrowOn
<1>16. /\ alloc \in 1..Len(nodes) /\ F[alloc].type = type /\ F[alloc].parent = top
  <2>1. Len(bs) <= Len(F) /\ F[n + 1].type = bs[n + 1].type /\ F[n + 1].parent = bs[n + 1].parent
    BY <1>12, <1>15 DEF NodesGrow
  <2>2. Len(F) \in Nat
    BY <1>14 DEF Family
  <2>3. bs[n + 1].type = type /\ bs[n + 1].parent = top
    BY <1>10 DEF Fresh
  <2>4. alloc \in 1..Len(nodes)
    BY <1>1, <1>10, <1>11, <1>12, <2>1, <2>2
  <2> QED
    BY <1>12, <2>1, <2>3, <2>4
<1>17. Bare(nodes[alloc]) = F[alloc]
  <2>1. ~(alloc <= Seen)
    BY <1>11 DEF n
  <2> QED
    BY <1>16, <2>1 DEF Second, F, last
<1>18. /\ Kind(nodes[alloc].type) = F[alloc].type /\ nodes[alloc].parent = F[alloc].parent
       /\ nodes[alloc].count = F[alloc].count /\ nodes[alloc].names = F[alloc].names
  BY <1>17 DEF Bare
<1>19. type \in {"word", "number"} => F[alloc].count = 0 /\ F[alloc].names = 0
  <2>1. alloc \in 1..Len(F)
    BY <1>1, <1>16 DEF F
  <2> QED
    BY <1>14, <1>16, <2>1 DEF Family
<1> QED
  BY <1>16, <1>18, <1>19 DEF Fits, type

(* A place further on.                                                         *)
LEMMA SecondOn ==
    ASSUME NEW tr, Second(tr), NEW b, Moved(b), text' = text, at' \in DOMAIN tr, tr[at'] = View'
    PROVE  Second(tr)'
<1> DEFINE F == tr[Len(text)].bare
<1>1. /\ pass = "second" /\ text \in Seq(Chars) /\ Path(tr, text, Len(text))
      /\ text[Len(text)] = EOF /\ "done" \in tr[Len(text)].flags
      /\ Reading /\ Len(nodes) = Len(F)
      /\ \A k \in 1..Len(nodes) :
            IF k <= Seen THEN Roomy(nodes[k], F[k])
            ELSE Bare(nodes[k]) = F[k] /\ Blank(nodes[k])
  BY DEF Second
<1>2. /\ nodes' \in Seq(Record) /\ Seen' \in Nat /\ Seen' <= Len(nodes') /\ alloc' \in Nat
      /\ flags' \subseteq Modes \cup NumberFlags /\ pass' = pass
      /\ Len(nodes') = Len(nodes) /\ Seen <= Seen'
      /\ \A k \in 1..Len(nodes) :
            /\ k <= Seen => Lasting(nodes'[k]) = Lasting(nodes[k])
            /\ k > Seen /\ k <= Seen' => Lasting(nodes'[k]) = Lasting(Renewed(nodes[k]))
            /\ k > Seen' => nodes'[k] = nodes[k]
  BY <1>1 DEF Moved, Standing
<1>3. Sound(View')
  BY <1>1 DEF Path
<1>4. Reading'
  BY <1>1, <1>2, <1>3 DEF Reading
<1>5. Seen \in Nat /\ nodes \in Seq(Record)
  BY <1>1 DEF Reading
<1> HIDE DEF F
<1>6. ASSUME NEW k \in 1..Len(nodes)
      PROVE  IF k <= Seen' THEN Roomy(nodes'[k], F[k])
             ELSE Bare(nodes'[k]) = F[k] /\ Blank(nodes'[k])
  <2>1. k \in Nat /\ nodes[k] \in Record
    BY <1>5
  <2>2. CASE k <= Seen
    <3>1. Lasting(nodes'[k]) = Lasting(nodes[k]) /\ Roomy(nodes[k], F[k]) /\ k <= Seen'
      BY <1>1, <1>2, <1>5, <2>1, <2>2
    <3>2. Roomy(nodes'[k], F[k])
      BY <3>1 DEF Lasting, Roomy
    <3> QED
      BY <3>1, <3>2
  <2>3. CASE ~(k <= Seen) /\ k <= Seen'
    <3>1. Lasting(nodes'[k]) = Lasting(Renewed(nodes[k])) /\ Bare(nodes[k]) = F[k] /\ Blank(nodes[k])
      BY <1>1, <1>2, <1>5, <2>1, <2>3
    <3>2. F[k].count = nodes[k].count /\ F[k].names = nodes[k].names /\ ~nodes[k].own
      BY <3>1 DEF Bare, Blank
    <3>3. CASE nodes[k].type \in Owning
      <4>1. /\ Renewed(nodes[k]).type = nodes[k].type /\ Renewed(nodes[k]).room = nodes[k].count
            /\ Renewed(nodes[k]).nameroom = nodes[k].names /\ Renewed(nodes[k]).own
        BY <2>1, <3>3 DEF Renewed, Record
      <4> QED
        BY <2>3, <3>1, <3>2, <3>3, <4>1 DEF Lasting, Roomy
    <3>4. CASE nodes[k].type \notin Owning
      <4>1. Renewed(nodes[k]) = nodes[k]
        BY <3>4 DEF Renewed
      <4> QED
        BY <2>3, <3>1, <3>2, <3>4, <4>1 DEF Lasting, Roomy
    <3> QED
      BY <3>3, <3>4
  <2>4. CASE ~(k <= Seen')
    <3>1. nodes'[k] = nodes[k] /\ Bare(nodes[k]) = F[k] /\ Blank(nodes[k])
      BY <1>1, <1>2, <1>5, <2>1, <2>4
    <3> QED
      BY <2>4, <3>1
  <2> QED
    BY <2>2, <2>3, <2>4
<1>7. \A k \in 1..Len(nodes') :
          IF k <= Seen' THEN Roomy(nodes'[k], tr[Len(text')].bare[k])
          ELSE Bare(nodes'[k]) = tr[Len(text')].bare[k] /\ Blank(nodes'[k])
  BY <1>2, <1>6 DEF F
<1>8. Len(nodes') = Len(tr[Len(text')].bare)
  BY <1>1, <1>2 DEF F
<1> QED
  BY <1>1, <1>2, <1>4, <1>7, <1>8 DEF Second

(* Where a number of the text ends.                                            *)
LEMMA PastNumber ==
    ASSUME NEW tr, Second(tr), NEW q, Over(text, at, q, Len(text)), q \in DOMAIN tr
    PROVE  Past(at) = q
<1>1. q \in at .. Len(text) /\ at \in Nat /\ q \in Nat /\ Len(text) \in Nat
  BY DEF Second, Path, Over
<1>2. text[q] \notin Numeric
  <2>1. EOF \notin Numeric
    BY JsonAssumption
  <2> QED
    BY <2>1 DEF Over, Second
<1>3. \A k \in at .. q - 1 : text[k] \in Numeric
  BY DEF Over
<1>4. ASSUME NEW j \in at .. Len(text), text[j] \notin Numeric, \A k \in at .. j - 1 : text[k] \in Numeric
      PROVE  j = q
  <2>1. ~(j < q) /\ ~(q < j)
    BY <1>1, <1>2, <1>3, <1>4
  <2> QED
    BY <1>1, <2>1
<1> DEFINE P(j) == text[j] \notin Numeric /\ \A k \in at .. j - 1 : text[k] \in Numeric
<1>5. P(q) /\ \A j \in at .. Len(text) : P(j) => j = q
  BY <1>2, <1>3, <1>4
<1>6. (CHOOSE j \in at .. Len(text) : P(j)) = q
  <2> HIDE DEF P
  <2> QED
    BY <1>1, <1>5
<1> QED
  BY <1>6 DEF Past

(* A step of the second pass.                                                  *)
LEMMA SecondStep ==
    ASSUME NEW tr, Second(tr), JsonNext
    PROVE  \/ Second(tr)'
           \/ pass' = "read" /\ ending' = "parsed"
           \/ pass' = "free" /\ ending' = "memory"
<1> DEFINE last == Len(text)
<1>1. /\ pass = "second" /\ Path(tr, text, last) /\ text[last] = EOF /\ "done" \in tr[last].flags
      /\ Reading /\ at \in DOMAIN tr /\ tr[at] = View
  BY DEF Second
<1>2. \A b \in Opening : Begins(b) => Fits(Value(b))
  BY FitsAgain
<1>3. \/ \E b \in Chars : Goes(b) \/ Stops(b)
      \/ \E b \in {"-"} \cup Digit : SeekNumber(b)
      \/ DoneEOF
  BY <1>1, <1>2, PlainStep
<1>4. \A f \in Modes : f \in View.flags <=> f \in flags
  BY <1>1, Seeing
<1>5. at = last => "done" \in flags
  BY <1>1, <1>4 DEF Modes
<1>6. ASSUME at # last
      PROVE  /\ Accepts(View, text[at])
             /\ IF Numbers(View, text[at])
                THEN \E q \in DOMAIN tr : Over(text, at, q, last) /\ tr[q] = After(View, text[at])
                ELSE at + 1 \in DOMAIN tr /\ tr[at + 1] = After(View, text[at])
  BY <1>1, <1>6 DEF Path
<1>7. ASSUME NEW b \in Chars, Goes(b)
      PROVE  Second(tr)'
  <2>1. /\ At(b) /\ Accepts(View, b) /\ ~Numbers(View, b) /\ Moved(b) /\ at' = at + 1
        /\ View' = After(View, b)
    BY <1>7 DEF Goes, Moved
  <2>2. b = text[at] /\ text' = text
    BY <2>1, AtAgain
  <2>3. at # last
    BY <1>1, <2>1, <2>2 DEF Accepts
  <2>4. at' \in DOMAIN tr /\ tr[at'] = View'
    BY <1>6, <2>1, <2>2, <2>3
  <2> QED
    BY <2>1, <2>2, <2>4, SecondOn
<1>8. ASSUME NEW b \in Chars, Stops(b)
      PROVE  pass' = "free" /\ ending' = "memory"
  <2>1. b = text[at] /\ text' = text
    BY <1>8, AtAgain DEF Stops
  <2>2. NewValueFails(b)
    <3>1. ASSUME ~Accepts(View, b), ~("done" \in flags /\ b = EOF)
          PROVE  FALSE
      <4>1. at = last
        BY <1>6, <2>1, <3>1
      <4> QED
        BY <1>1, <1>5, <2>1, <3>1, <4>1
    <3> QED
      BY <1>8, <3>1 DEF Stops
  <2> QED
    BY <1>1, <2>2 DEF NewValueFails
<1>9. ASSUME NEW b \in {"-"} \cup Digit, SeekNumber(b)
      PROVE  Second(tr)'
  <2>1. /\ Begins(b) /\ At(b) /\ Completed(nodes, alloc, flags) /\ at' = Past(at)
        /\ alloc' = Next_alloc /\ UNCHANGED <<pass, length>>
    BY <1>1, <1>9 DEF SeekNumber, Begins
  <2>2. b = text[at] /\ text' = text
    BY <2>1, AtAgain
  <2>3. b \in Opening /\ Value(b) = "number" /\ Kind("integer") = "number"
    BY DEF Opening, Value, Entrances, Digit, Kind
  <2>4. Fits("number")
    BY <2>1, <2>3, FitsAgain
  <2>5. WithNode("integer") = nodes /\ Node = alloc
    <3>1. Kind(nodes[alloc].type) = "number" /\ alloc \in 1..Len(nodes)
      BY <1>1, <2>4 DEF Fits
    <3>2. Renewed(nodes[alloc]) = nodes[alloc]
      BY <3>1 DEF Kind, Renewed, Owning
    <3>3. nodes \in Seq(Record)
      BY <1>1 DEF Reading
    <3>4. [nodes EXCEPT ![alloc] = nodes[alloc]] = nodes
      BY <3>1, <3>3
    <3> QED
      BY <1>1, <3>2, <3>4 DEF WithNode, Node
  <2>6. EndsAtOnce(b, "integer", WithNode("integer"))
    BY <2>1, <2>5 DEF EndsAtOnce
  <2>7. "integer" \in {"word", "integer"} /\ ("integer" = "word" <=> b = "word") /\ b \in {"word", "-"} \cup Digit
    BY DEF Digit
  <2>8. Accepts(View, b) /\ Moved(b)
    BY <1>1, <2>3, <2>4, <2>6, <2>7, MovedAtOnce
  <2>9. Numbers(View, b)
    <3>1. "string" \notin flags /\ "done" \notin flags /\ "seek_value" \in flags
      BY <1>1, <2>1, <2>3, Beginning
    <3> QED
      BY <1>4, <3>1 DEF Numbers, Modes
  <2>10. at # last
    BY <1>1, <2>2, <2>8 DEF Accepts
  <2>11. PICK q \in DOMAIN tr : Over(text, at, q, last) /\ tr[q] = After(View, b)
    BY <1>6, <2>2, <2>9, <2>10
  <2>12. at' = q
    BY <2>1, <2>11, PastNumber
  <2> QED
    BY <2>2, <2>8, <2>11, <2>12, SecondOn DEF Moved
<1>10. CASE DoneEOF
  BY <1>1, <1>10 DEF DoneEOF
<1> QED
  BY <1>3, <1>7, <1>8, <1>9, <1>10

-----------------------------------------------------------------------------
(* What the first pass leaves.                                                *)

Blanks(ns) ==
    \A k \in DOMAIN ns : {"own", "freed", "ownfreed", "kids"} \subseteq DOMAIN ns[k] /\ Blank(ns[k])
\* A node with another count, other bytes of names or another type.
Varied(n, m) ==
    \E x : m \in {[n EXCEPT !.count = x], [n EXCEPT !.names = x], [n EXCEPT !.type = x]}

(* ... is as blank.                                                            *)
LEMMA BlankVaried ==
    ASSUME NEW ns, Blanks(ns), NEW k, NEW m, Varied(ns[k], m)
    PROVE  Blanks([ns EXCEPT ![k] = m])
<1>1. PICK x : m \in {[ns[k] EXCEPT !.count = x], [ns[k] EXCEPT !.names = x], [ns[k] EXCEPT !.type = x]}
  BY DEF Varied
<1>2. CASE k \notin DOMAIN ns
  BY <1>2 DEF Blanks
<1>3. CASE k \in DOMAIN ns
  <2>1. {"own", "freed", "ownfreed", "kids"} \subseteq DOMAIN ns[k] /\ Blank(ns[k])
    BY <1>3 DEF Blanks
  <2>2. DOMAIN m = DOMAIN ns[k]
    BY <1>1
  <2>3. m.own = ns[k].own /\ m.freed = ns[k].freed /\ m.ownfreed = ns[k].ownfreed /\ m.kids = ns[k].kids
    BY <1>1, <2>1
  <2>4. Blank(m)
    BY <2>1, <2>3 DEF Blank
  <2> QED
    BY <1>3, <2>1, <2>2, <2>4 DEF Blanks
<1> QED
  BY <1>2, <1>3

(* Counting entries leaves blank nodes blank while nothing is linked.          *)
LEMMA BlanksLinked ==
    ASSUME pass = "first", NEW ns, Blanks(ns), NEW k
    PROVE  Blanks(Linked(ns, k))
<1> DEFINE up == ns[k].parent
           ms == Linked(ns, k)
           m == [ns[up] EXCEPT !.count = ns[up].count + 1, !.kids = ns[up].kids]
<1>1. CASE up = 0
  BY <1>1 DEF Linked
<1>2. CASE up # 0
  <2>1. ms = [ns EXCEPT ![up] = m]
    BY <1>2 DEF Linked
  <2> DEFINE c == ns[up].count + 1
  <2>2. up \in DOMAIN ns => m = [ns[up] EXCEPT !.count = c]
    <3>1. \A n, x : [n EXCEPT !.count = x, !.kids = n.kids] = [n EXCEPT !.count = x]
      OBVIOUS
    <3> QED
      BY <3>1
  <2> HIDE DEF c
  <2>3. up \in DOMAIN ns => Varied(ns[up], m)
    BY <2>2 DEF Varied
  <2> HIDE DEF m, ms, up
  <2>4. up \in DOMAIN ns => Blanks(ms)
    BY <2>1, <2>3, BlankVaried
  <2>5. up \notin DOMAIN ns => Blanks(ms)
    BY <2>1 DEF Blanks
  <2> QED
    BY <2>4, <2>5 DEF ms
<1> QED
  BY <1>1, <1>2

(* A new node is blank.                                                        *)
LEMMA BlanksMade ==
    ASSUME pass = "first", nodes \in Seq(Record), Blanks(nodes), NEW type
    PROVE  Blanks(WithNode(type))
<1> DEFINE new == NewNode(type, top)
           ns == WithNode(type)
<1>1. {"own", "freed", "ownfreed", "kids"} \subseteq DOMAIN new /\ Blank(new)
  BY DEF NewNode, Blank
<1>2. ns = Append(nodes, new)
  BY DEF WithNode
<1> HIDE DEF ns, new
<1>3. /\ DOMAIN ns = 1 .. Len(nodes) + 1 /\ ns[Len(nodes) + 1] = new
      /\ DOMAIN nodes = 1 .. Len(nodes) /\ Len(nodes) \in Nat
      /\ \A i \in 1..Len(nodes) : ns[i] = nodes[i]
  BY <1>2
<1>4. \A i \in DOMAIN ns : i = Len(nodes) + 1 \/ i \in DOMAIN nodes
  BY <1>3
<1>5. Blanks(ns)
  BY <1>1, <1>3, <1>4 DEF Blanks
<1> QED
  BY <1>5 DEF ns

(* The nodes of the first pass stay blank.                                     *)
LEMMA BlankStep ==
    ASSUME pass = "first", nodes \in Seq(Record), Blanks(nodes), JsonNext, pass' # "over"
    PROVE  Blanks(nodes')
<1>1. ~Refuse
  BY DEF Refuse
<1>2. \A ns, k, rest : Blanks(ns) /\ Completed(ns, k, rest) => Blanks(nodes')
  BY BlanksLinked DEF Completed
<1>3. \A type : Blanks(WithNode(type))
  BY BlanksMade
<1>4. \A x : /\ Blanks([nodes EXCEPT ![top].count = x]) /\ Blanks([nodes EXCEPT ![top].names = x])
             /\ Blanks([nodes EXCEPT ![top].type = x])
  <2> SUFFICES ASSUME NEW x
               PROVE  /\ Blanks([nodes EXCEPT ![top].count = x]) /\ Blanks([nodes EXCEPT ![top].names = x])
                      /\ Blanks([nodes EXCEPT ![top].type = x])
    OBVIOUS
  <2>1. /\ Varied(nodes[top], [nodes[top] EXCEPT !.count = x])
        /\ Varied(nodes[top], [nodes[top] EXCEPT !.names = x])
        /\ Varied(nodes[top], [nodes[top] EXCEPT !.type = x])
    BY DEF Varied
  <2>2. /\ Blanks([nodes EXCEPT ![top] = [nodes[top] EXCEPT !.count = x]])
        /\ Blanks([nodes EXCEPT ![top] = [nodes[top] EXCEPT !.names = x]])
        /\ Blanks([nodes EXCEPT ![top] = [nodes[top] EXCEPT !.type = x]])
    BY <2>1, BlankVaried
  <2> QED
    BY <2>2
<1>5. CASE StringEnd
  <2>1. CASE nodes[top].type = "string"
    BY <1>2, <1>4, <1>5, <2>1 DEF StringEnd
  <2>2. CASE nodes[top].type # "string"
    <3> DEFINE m == nodes[top].names + length + 1
    <3>1. nodes' = [nodes EXCEPT ![top].names = m]
      BY <1>5, <2>2 DEF StringEnd
    <3> HIDE DEF m
    <3> QED
      BY <1>4, <3>1
  <2> QED
    BY <2>1, <2>2
<1>6. CASE SeekBracket \/ ObjectEnd
  BY <1>1, <1>2, <1>6 DEF SeekBracket, ObjectEnd
<1>7. CASE SeekWord
  BY <1>2, <1>3, <1>7 DEF SeekWord
<1>8. ASSUME NEW b, NEW type, SeekContainer(b, type)
      PROVE  Blanks(nodes')
  BY <1>3, <1>8 DEF SeekContainer
<1>9. ASSUME NEW b, SeekNumber(b) \/ NumberDigit(b) \/ NumberOver(b)
      PROVE  Blanks(nodes')
  BY <1>1, <1>2, <1>3, <1>4, <1>9 DEF SeekNumber, NumberDigit, NumberOver
<1>10. CASE NumberPoint
  BY <1>1, <1>4, <1>10 DEF NumberPoint
<1>11. CASE DoneSpace \/ DoneEOF \/ NumberSign \/ \E b : StringAdd(b) \/ SeekOn(b) \/ ObjectOn(b)
  BY <1>11 DEF DoneSpace, DoneEOF, NumberSign, StringAdd, SeekOn, ObjectOn
<1>12. ASSUME NEW b
       PROVE  ~NewValueFails(b) /\ ~StringRefuse(b) /\ ~DoneGarbage(b) /\ ~SeekRefuse(b) /\ ~ObjectRefuse(b)
  BY <1>1 DEF NewValueFails, StringRefuse, DoneGarbage, SeekRefuse, ObjectRefuse
<1>13. ~Release /\ ~FreeDown /\ ~FreeUp
  BY DEF Release, FreeDown, FreeUp
<1> HIDE DEF Blanks
<1> QED
  BY <1>5, <1>6, <1>7, <1>8, <1>9, <1>10, <1>11, <1>12, <1>13 DEF JsonNext

-----------------------------------------------------------------------------
(* Both passes.                                                               *)

(* Before anything is seen.                                                    *)
LEMMA NoBares ==
    ASSUME NEW ns \in Seq(Record)
    PROVE  Bares(ns, 0) = <<>>
<1>1. Bares(ns, 0) \in Seq(BareNode) /\ Len(Bares(ns, 0)) = 0
  BY BaresAre
<1> HIDE DEF Bares
<1>2. \A bs \in Seq(BareNode) : Len(bs) = 0 => bs = <<>>
  OBVIOUS
<1> QED
  BY <1>1, <1>2

(* The first state of the machine.                                             *)
LEMMA StartSound == Sound(Start) /\ Grows(Start, Start)
<1>1. <<>> \in Seq(BareNode) /\ Len(<<>>) = 0
  OBVIOUS
<1>2. Family(<<>>) /\ NodesGrow(<<>>, <<>>)
  BY <1>1 DEF Family, NodesGrow
<1>3. /\ Start.flags = {"seek_value"} /\ Start.top = 0 /\ Start.length = 0 /\ Start.bare = <<>>
      /\ Start = State(Start.flags, Start.top, Start.length, Start.bare)
  BY DEF Start, State
<1>4. {"seek_value"} \subseteq Modes
  BY DEF Modes
<1> HIDE DEF Start
<1> QED
  BY <1>1, <1>2, <1>3, <1>4 DEF Sound, Grows

(* The first pass begins on a path of one place.                               *)
LEMMA FirstStarts ==
    ASSUME JsonInit
    PROVE  pass = "first" /\ FirstPass /\ Blanks(nodes)
<1> DEFINE tr == [i \in {1} |-> Start]
<1>1. /\ text = <<>> /\ at = 1 /\ pass = "first" /\ flags = {"seek_value"} /\ nodes = <<>>
      /\ top = 0 /\ alloc = 0 /\ length = 0
  BY DEF JsonInit
<1>2. TextRead
  BY <1>1 DEF TextRead
<1>3. Bares(nodes, 0) = <<>>
  <2>1. <<>> \in Seq(Record)
    OBVIOUS
  <2> QED
    BY <1>1, <2>1, NoBares
<1>4. Seen = 0
  BY <1>1 DEF Seen
<1>5. {"seek_value"} \ NumberFlags = {"seek_value"}
  BY DEF NumberFlags
<1>6. View = Start
  BY <1>1, <1>3, <1>4, <1>5 DEF View, Start
<1>7. Reading
  <2>1. <<>> \in Seq(Record) /\ Len(<<>>) = 0
    OBVIOUS
  <2>2. Sound(View)
    BY <1>6, StartSound
  <2>3. "seek_value" \in Modes
    BY DEF Modes
  <2> QED
    BY <1>1, <1>4, <2>1, <2>2, <2>3 DEF Reading
<1>8. Path(tr, text, at) /\ tr[at] = View
  <2>1. DOMAIN tr = {1} /\ tr[1] = Start
    OBVIOUS
  <2> HIDE DEF tr
  <2> QED
    BY <1>1, <1>6, <2>1, StartSound DEF Path
<1>9. Plain(tr)
  BY <1>7, <1>8 DEF Plain
<1> HIDE DEF tr
<1> QED
  BY <1>1, <1>2, <1>9 DEF FirstPass, Blanks

(* The end of the first pass: its path is the one the second goes along.        *)
LEMMA SecondStarts ==
    ASSUME pass = "first", DoneEOF, TextRead, NEW tr, Plain(tr), Blanks(nodes)
    PROVE  Second(tr)'
<1>1. /\ "done" \in flags /\ At(EOF) /\ pass' = "second" /\ at' = 1 /\ flags' = {"seek_value"}
      /\ top' = 0 /\ alloc' = 1 /\ length' = 0 /\ nodes' = nodes
  BY DEF DoneEOF
<1>2. Reading /\ Path(tr, text, at) /\ tr[at] = View
  BY DEF Plain
<1>3. EOF \in Chars
  BY DEF Chars
<1>4. /\ text' \in Seq(Chars) /\ Len(text') = at /\ text'[at] = EOF
      /\ \A k \in 1 .. at - 1 : text'[k] = text[k]
  BY <1>1, <1>3, AtPlace
<1>5. Path(tr, text', at)
  BY <1>2, <1>4, PathSame
<1>6. "done" \in tr[at].flags
  BY <1>1, <1>2, Seeing DEF Modes
<1>7. Seen' = 0 /\ Seen = Len(nodes)
  BY <1>1 DEF Seen
<1>8. nodes \in Seq(Record) /\ Len(nodes) \in Nat /\ DOMAIN nodes = 1..Len(nodes)
  BY <1>2 DEF Reading
<1>9. View' = Start
  <2>1. Bares(nodes, 0) = <<>>
    BY <1>8, NoBares
  <2>2. {"seek_value"} \ NumberFlags = {"seek_value"}
    BY DEF NumberFlags
  <2> QED
    BY <1>1, <1>7, <2>1, <2>2 DEF View, Start
<1>10. Reading'
  <2>1. Sound(View)'
    BY <1>9, StartSound
  <2>2. {"seek_value"} \subseteq Modes
    BY DEF Modes
  <2> QED
    BY <1>1, <1>7, <1>8, <2>1, <2>2 DEF Reading
<1>11. 1 \in DOMAIN tr /\ tr[1] = View'
  BY <1>5, <1>9 DEF Path
<1>12. View.bare = Bares(nodes, Len(nodes)) /\ Len(View.bare) = Len(nodes)
  BY <1>2, <1>7, Seeing
<1>13. \A k \in 1..Len(nodes) : Bare(nodes[k]) = tr[at].bare[k] /\ Blank(nodes[k])
  <2>1. \A k \in 1..Len(nodes) : Blank(nodes[k])
    BY <1>8 DEF Blanks
  <2>2. \A k \in 1..Len(nodes) : Bares(nodes, Len(nodes))[k] = Bare(nodes[k])
    BY DEF Bares
  <2> QED
    BY <1>2, <1>12, <2>1, <2>2
<1> HIDE DEF Plain
<1>14. \A k \in 1..Len(nodes') :
          IF k <= Seen' THEN Roomy(nodes'[k], tr[Len(text')].bare[k])
          ELSE Bare(nodes'[k]) = tr[Len(text')].bare[k] /\ Blank(nodes'[k])
  BY <1>1, <1>4, <1>7, <1>8, <1>13
<1>15. Len(nodes') = Len(tr[Len(text')].bare)
  BY <1>1, <1>2, <1>4, <1>12
<1>16. /\ Path(tr, text', Len(text')) /\ text'[Len(text')] = EOF /\ "done" \in tr[Len(text')].flags
       /\ at' \in DOMAIN tr /\ tr[at'] = View'
  BY <1>1, <1>4, <1>5, <1>6, <1>11
<1> QED
  BY <1>1, <1>4, <1>10, <1>14, <1>15, <1>16 DEF Second

(* The end of the path has room for everything on it.                          *)
LEMMA RoomForAll ==
    ASSUME NEW tr, Second(tr)
    PROVE  SecondPassFits
<1> DEFINE t == tr[Len(text)]
<1>1. /\ pass = "second" /\ Reading /\ View = tr[at] /\ at \in DOMAIN tr
      /\ Path(tr, text, Len(text)) /\ "done" \in t.flags /\ Len(nodes) = Len(t.bare)
      /\ \A k \in 1..Len(nodes) : k <= Seen => Roomy(nodes[k], t.bare[k])
  BY DEF Second
<1>2. Sound(View) /\ Grows(View, t) /\ Sound(t)
  BY <1>1 DEF Path
<1>3. Seen = alloc - 1 /\ alloc \in Nat /\ Seen \in Nat /\ Seen <= Len(nodes)
      /\ nodes \in Seq(Record) /\ DOMAIN nodes = 1..Len(nodes) /\ Len(nodes) \in Nat
  BY <1>1 DEF Reading, Seen
<1>4. /\ View.top = top /\ View.length = length /\ Len(View.bare) = Seen
      /\ length \in Nat /\ top \in Nat /\ top <= Seen
      /\ \A f \in Modes : f \in View.flags <=> f \in flags
      /\ \A k \in 1..Seen :
            /\ View.bare[k].type = Kind(nodes[k].type)
            /\ View.bare[k].count = nodes[k].count /\ View.bare[k].names = nodes[k].names
  BY <1>1, Seeing
<1>5. "string" \notin t.flags
  BY <1>1, <1>2 DEF Sound
<1> HIDE DEF t
<1>6. \A k \in 1..Seen : nodes[k].count <= t.bare[k].count /\ nodes[k].names <= t.bare[k].names
  BY <1>2, <1>4 DEF Grows, NodesGrow
<1>7. \A k \in 1..Seen : nodes[k].own => nodes[k].room = t.bare[k].count /\ nodes[k].nameroom = t.bare[k].names
  BY <1>1, <1>3 DEF Roomy
<1>8. top \in DOMAIN nodes \cup {0}
  BY <1>3, <1>4
<1>9. ASSUME NEW k \in DOMAIN nodes, k < alloc, nodes[k].own
      PROVE  nodes[k].count <= nodes[k].room /\ nodes[k].names <= nodes[k].nameroom
  <2>1. k \in 1..Seen
    BY <1>3, <1>9
  <2> QED
    BY <1>6, <1>7, <1>9, <2>1
<1>10. ASSUME "string" \in flags
       PROVE  IF nodes[top].type = "string" THEN length <= nodes[top].room
              ELSE nodes[top].names + length < nodes[top].nameroom
  <2>1. "string" \in View.flags
    BY <1>4, <1>10 DEF Modes
  <2>2. Held(View, t) /\ ~StillIn(View, t)
    BY <1>2, <1>5, <2>1 DEF Grows, StillIn
  <2>3. top # 0 /\ View.bare[top].type \in {"string", "object"}
    BY <1>2, <1>4, <2>1 DEF Sound
  <2>4. top \in 1..Seen
    BY <1>3, <1>4, <2>3
  <2>5. View.bare[top].type = nodes[top].type
    BY <1>4, <2>3, <2>4 DEF Kind
  <2>6. Roomy(nodes[top], t.bare[top])
    BY <1>1, <1>3, <2>4
  <2>7. nodes[top].room = t.bare[top].count /\ nodes[top].nameroom = t.bare[top].names
    BY <2>3, <2>5, <2>6 DEF Roomy, Owning
  <2>8. View.bare[top].names = nodes[top].names
    BY <1>4, <2>4
  <2> QED
    BY <1>4, <2>2, <2>5, <2>7, <2>8 DEF Held
<1>11. ASSUME "done" \in flags
       PROVE  alloc = Len(nodes) + 1
  <2>1. "done" \in View.flags
    BY <1>4, <1>11 DEF Modes
  <2>2. t.bare = View.bare
    BY <1>2, <2>1 DEF Grows
  <2> QED
    BY <1>1, <1>3, <1>4, <2>2
<1> QED
  BY <1>1, <1>8, <1>9, <1>10, <1>11 DEF SecondPassFits

\* What the parser is in the middle of.
Midway ==
    /\ pass \in {"first", "second", "read", "free", "over"}
    /\ pass = "first" => FirstPass /\ Blanks(nodes)
    /\ pass = "second" => \E tr : Second(tr)
    /\ pass = "read" => ending = "parsed"
    /\ pass = "free" => ending \in {"parsed", "memory"}

(* After both passes there is only the walk.                                   *)
LEMMA LaterSteps ==
    ASSUME JsonNext, pass \notin {"first", "second"}
    PROVE  Release \/ FreeDown \/ FreeUp
  BY DEF JsonNext, StringEnd, DoneSpace, DoneEOF, SeekBracket, SeekWord, ObjectEnd,
      NumberSign, NumberPoint, SeekContainer, NewValueFails, StringRefuse, StringAdd, DoneGarbage,
      SeekOn, SeekRefuse, SeekNumber, ObjectOn, ObjectRefuse, NumberDigit, NumberOver,
      Begins, Seeking, Number, Inside, Parsing

(* Every step leaves it in the middle of something.                            *)
LEMMA MidwayStep ==
    ASSUME Midway, [JsonNext]_jsonVars
    PROVE  Midway'
<1>1. CASE UNCHANGED jsonVars
  BY <1>1 DEF Midway, jsonVars, FirstPass, TextRead, Plain, InNumber, Ending, Blanks, Second, Reading, View, Seen
<1>2. CASE JsonNext /\ pass = "first"
  <2>1. FirstPass /\ Blanks(nodes)
    BY <1>2 DEF Midway
  <2>2. nodes \in Seq(Record)
    <3>1. ASSUME NEW tr, Plain(tr) \/ \E p : InNumber(tr, p)
          PROVE  nodes \in Seq(Record)
      BY <3>1 DEF Plain, Reading, InNumber
    <3> QED
      BY <2>1, <3>1 DEF FirstPass
  <2>3. pass' # "over" => Blanks(nodes')
    BY <1>2, <2>1, <2>2, BlankStep
  <2>4. CASE pass' = "first" /\ FirstPass'
    BY <2>3, <2>4 DEF Midway
  <2>5. CASE pass' = "over"
    BY <2>5 DEF Midway
  <2>6. CASE DoneEOF /\ TextRead /\ \E tr : Plain(tr)
    <3>1. PICK tr : Plain(tr)
      BY <2>6
    <3>2. Second(tr)'
      BY <1>2, <2>1, <2>6, <3>1, SecondStarts
    <3>3. pass' = "second" /\ \E ts : Second(ts)'
      BY <3>2 DEF Second
    <3> QED
      BY <3>3 DEF Midway
  <2> QED
    BY <1>2, <2>1, <2>4, <2>5, <2>6, FirstStep
<1>3. CASE JsonNext /\ pass = "second"
  <2>1. PICK tr : Second(tr)
    BY <1>3 DEF Midway
  <2>2. CASE Second(tr)'
    <3>1. pass' = "second" /\ \E ts : Second(ts)'
      BY <2>2 DEF Second
    <3> QED
      BY <3>1 DEF Midway
  <2>3. CASE pass' = "read" /\ ending' = "parsed"
    BY <2>3 DEF Midway
  <2>4. CASE pass' = "free" /\ ending' = "memory"
    BY <2>4 DEF Midway
  <2> QED
    BY <1>3, <2>1, <2>2, <2>3, <2>4, SecondStep
<1>4. CASE JsonNext /\ pass \notin {"first", "second"}
  <2>1. Release \/ FreeDown \/ FreeUp
    BY <1>4, LaterSteps
  <2> QED
    BY <1>4, <2>1 DEF Midway, Release, FreeDown, FreeUp
<1> QED
  BY <1>1, <1>2, <1>3, <1>4

(* The second pass finds room for all it puts down and refuses nothing that    *)
(* the first has accepted, whatever the text (json_parse_ex, new_value).       *)
THEOREM SecondPassHasRoom == JsonSpec => []SecondPassFits
<1>1. JsonInit => Midway
  BY FirstStarts DEF Midway
<1>2. Midway /\ [JsonNext]_jsonVars => Midway'
  BY MidwayStep
<1>3. Midway => SecondPassFits
  <2>1. ASSUME Midway, pass = "second"
        PROVE  SecondPassFits
    BY <2>1, RoomForAll DEF Midway
  <2>2. ASSUME Midway, pass # "second"
        PROVE  SecondPassFits
    BY <2>2 DEF Midway, SecondPassFits
  <2> QED
    BY <2>1, <2>2
<1> QED
  BY <1>1, <1>2, <1>3, PTL DEF JsonSpec

-----------------------------------------------------------------------------
(* What hangs on what, and what the walk of json_value_free_ex has freed.     *)

\* A value comes after the one around it; only the first is in none.
Ordered(ns) ==
    ns \in Seq(Record) /\ \A k \in 1..Len(ns) : ns[k].parent < k /\ (ns[k].parent = 0 <=> k = 1)

(* The value around another.                                                   *)
LEMMA Around ==
    ASSUME NEW ns, Ordered(ns), NEW k \in 1..Len(ns)
    PROVE  /\ ns[k] \in Record /\ ns[k].parent \in Nat /\ ns[k].parent < k
           /\ ns[k].parent # 0 => ns[k].parent \in 1..Len(ns)
<1>1. ns \in Seq(Record) /\ ns[k].parent < k /\ Len(ns) \in Nat
  BY DEF Ordered
<1>2. ns[k] \in Record
  BY <1>1
<1>3. ns[k].parent \in Nat
  BY <1>2 DEF Record
<1> QED
  BY <1>1, <1>2, <1>3

\* The open values: each is in the one before it.
Chained(ns, P) ==
    /\ P \subseteq 1..Len(ns)
    /\ \A k \in P : ns[k].parent \in P \cup {0}
    /\ \A j, k \in P : j < k => j <= ns[k].parent

\* Value c is the j-th entry of k.
Entry(ns, k, j, c) == j \in 1..Len(ns[k].kids) /\ ns[k].kids[j] = c

\* The first n values of the second pass: those that are not open hang on the
\* values around them, each once.
Hung(ns, n, P) ==
    /\ Ordered(ns) /\ n \in Nat /\ n <= Len(ns)
    /\ Chained(ns, P) /\ P \subseteq 1..n
    /\ \A k \in 1..Len(ns) : ns[k].freed = 0 /\ ns[k].ownfreed = 0
    /\ \A k \in 1..n : ns[k].type \in Containers => Len(ns[k].kids) = ns[k].count
    /\ \A k \in n + 1 .. Len(ns) : ns[k].kids = <<>> /\ ~ns[k].own
    /\ \A k \in 1..Len(ns) : \A j, c : Entry(ns, k, j, c) => c \in (1..n) \ P /\ ns[c].parent = k
    /\ \A k \in 1..Len(ns) : \A i, j, c : Entry(ns, k, i, c) /\ Entry(ns, k, j, c) => i = j
    /\ \A c \in 1..n : c \notin P => ns[c].parent # 0 /\ \E j : Entry(ns, ns[c].parent, j, c)

\* Nodes that differ in what the walk does not look at.
Alike(ns, ms) ==
    /\ ms \in Seq(Record) /\ Len(ms) = Len(ns)
    /\ \A k \in 1..Len(ns) :
          /\ ms[k].parent = ns[k].parent /\ ms[k].kids = ns[k].kids /\ ms[k].own = ns[k].own
          /\ ms[k].freed = ns[k].freed /\ ms[k].ownfreed = ns[k].ownfreed
          /\ ms[k].type = ns[k].type
          /\ ms[k].type \in Containers => ms[k].count = ns[k].count

(* ... hang the same way.                                                      *)
LEMMA HungAlike ==
    ASSUME NEW ns, NEW n, NEW P, Hung(ns, n, P), NEW ms, Alike(ns, ms)
    PROVE  Hung(ms, n, P)
<1>1. /\ Ordered(ns) /\ n \in Nat /\ n <= Len(ns) /\ Chained(ns, P) /\ P \subseteq 1..n
      /\ ms \in Seq(Record) /\ Len(ms) = Len(ns) /\ Len(ns) \in Nat
  BY DEF Hung, Ordered, Alike
<1>2. \A k \in 1..Len(ns) : ms[k].parent = ns[k].parent /\ ms[k].kids = ns[k].kids /\ ms[k].own = ns[k].own
  BY DEF Alike
<1>3. Ordered(ms)
  BY <1>1, <1>2 DEF Ordered
<1>4. Chained(ms, P)
  BY <1>1, <1>2 DEF Chained
<1>5. \A k \in 1..Len(ms) : ms[k].freed = 0 /\ ms[k].ownfreed = 0
  BY <1>1 DEF Hung, Alike
<1>6. \A k \in 1..n : ms[k].type \in Containers => Len(ms[k].kids) = ms[k].count
  <2> TAKE k \in 1..n
  <2>1. k \in 1..Len(ns)
    BY <1>1
  <2> QED
    BY <1>2, <2>1 DEF Hung, Alike
<1>7. \A k \in n + 1 .. Len(ms) : ms[k].kids = <<>> /\ ~ms[k].own
  BY <1>1, <1>2 DEF Hung
<1>8. \A k \in 1..Len(ns) : \A j, c : Entry(ms, k, j, c) <=> Entry(ns, k, j, c)
  BY <1>2 DEF Entry
<1>9. \A k \in 1..Len(ms) : \A j, c : Entry(ms, k, j, c) => c \in (1..n) \ P /\ ms[c].parent = k
  <2> TAKE k \in 1..Len(ms)
  <2> TAKE j, c
  <2> HAVE Entry(ms, k, j, c)
  <2>1. Entry(ns, k, j, c) /\ k \in 1..Len(ns)
    BY <1>1, <1>8
  <2>2. c \in (1..n) \ P /\ ns[c].parent = k
    BY <2>1 DEF Hung
  <2>3. c \in 1..Len(ns)
    BY <1>1, <2>2
  <2> QED
    BY <1>2, <2>2, <2>3
<1>10. \A k \in 1..Len(ms) : \A i, j, c : Entry(ms, k, i, c) /\ Entry(ms, k, j, c) => i = j
  <2> TAKE k \in 1..Len(ms)
  <2> TAKE i, j, c
  <2> HAVE Entry(ms, k, i, c) /\ Entry(ms, k, j, c)
  <2>1. Entry(ns, k, i, c) /\ Entry(ns, k, j, c) /\ k \in 1..Len(ns)
    BY <1>1, <1>8
  <2> QED
    BY <2>1 DEF Hung
<1>11. \A c \in 1..n : c \notin P => ms[c].parent # 0 /\ \E j : Entry(ms, ms[c].parent, j, c)
  <2> TAKE c \in 1..n
  <2> HAVE c \notin P
  <2>1. ns[c].parent # 0 /\ \E j : Entry(ns, ns[c].parent, j, c)
    BY DEF Hung
  <2>2. c \in 1..Len(ns) /\ ns[c].parent \in 1..Len(ns)
    <3>1. c \in 1..Len(ns)
      BY <1>1
    <3> QED
      BY <1>1, <2>1, <3>1, Around
  <2> QED
    BY <1>2, <1>8, <2>1, <2>2
<1> QED
  BY <1>1, <1>3, <1>4, <1>5, <1>6, <1>7, <1>9, <1>10, <1>11 DEF Hung

(* The next value is open.                                                     *)
LEMMA HungMore ==
    ASSUME NEW ns, NEW n, NEW P, Hung(ns, n, P), n + 1 <= Len(ns),
           ns[n + 1].parent \in P \cup {0}, \A k \in P : k <= ns[n + 1].parent
    PROVE  Hung([ns EXCEPT ![n + 1] = Renewed(@)], n + 1, P \cup {n + 1})
<1> DEFINE m == n + 1
           r == Renewed(ns[m])
           ms == [ns EXCEPT ![m] = r]
           Q == P \cup {m}
<1>1. /\ Ordered(ns) /\ n \in Nat /\ Chained(ns, P) /\ P \subseteq 1..n /\ Len(ns) \in Nat
      /\ ns \in Seq(Record) /\ m \in 1..Len(ns) /\ m \in Nat /\ m <= Len(ns) /\ n < m
  BY DEF Hung, Ordered
<1>2. ns[m] \in Record /\ ns[m].kids = <<>>
  BY <1>1 DEF Hung
<1>3. /\ r \in Record /\ r.parent = ns[m].parent /\ r.kids = <<>>
      /\ r.freed = ns[m].freed /\ r.ownfreed = ns[m].ownfreed
      /\ r.type \in Containers => r.count = 0
  <2>1. CASE ns[m].type \in Owning
    BY <1>2, <2>1 DEF Renewed, Record
  <2>2. CASE ns[m].type \notin Owning
    BY <1>2, <2>2 DEF Renewed, Containers, Owning
  <2> QED
    BY <2>1, <2>2
<1> HIDE DEF r
<1>4. /\ ms \in Seq(Record) /\ Len(ms) = Len(ns) /\ ms[m] = r
      /\ \A k \in 1..Len(ns) : k # m => ms[k] = ns[k]
  BY <1>1, <1>3
<1> HIDE DEF ms
<1>5. \A k \in 1..Len(ns) : ms[k].parent = ns[k].parent /\ ms[k].kids = ns[k].kids
  BY <1>2, <1>3, <1>4
<1>6. Ordered(ms)
  BY <1>1, <1>4, <1>5 DEF Ordered
<1>7. Chained(ms, Q)
  <2>1. Q \subseteq 1..Len(ms)
    BY <1>1, <1>4
  <2>2. \A k \in Q : ms[k].parent \in Q \cup {0}
    BY <1>1, <1>5 DEF Chained
  <2>3. \A j, k \in Q : j < k => j <= ms[k].parent
    <3> TAKE j, k \in Q
    <3> HAVE j < k
    <3>1. j \in P /\ k \in 1..Len(ns)
      BY <1>1
    <3> QED
      BY <1>1, <1>5, <3>1 DEF Chained
  <2> QED
    BY <2>1, <2>2, <2>3 DEF Chained
<1>8. \A k \in 1..Len(ms) : ms[k].freed = 0 /\ ms[k].ownfreed = 0
  BY <1>1, <1>3, <1>4 DEF Hung
<1>9. \A k \in 1..m : ms[k].type \in Containers => Len(ms[k].kids) = ms[k].count
  <2> TAKE k \in 1..m
  <2>1. CASE k = m
    BY <1>3, <1>4, <2>1
  <2>2. CASE k # m
    <3>1. k \in 1..n /\ k \in 1..Len(ns)
      BY <1>1, <2>2
    <3> QED
      BY <1>4, <2>2, <3>1 DEF Hung
  <2> QED
    BY <2>1, <2>2
<1>10. \A k \in m + 1 .. Len(ms) : ms[k].kids = <<>> /\ ~ms[k].own
  BY <1>1, <1>4 DEF Hung
<1>11. \A k \in 1..Len(ns) : \A j, c : Entry(ms, k, j, c) <=> Entry(ns, k, j, c)
  BY <1>5 DEF Entry
<1>12. \A k \in 1..Len(ms) : \A j, c : Entry(ms, k, j, c) => c \in (1..m) \ Q /\ ms[c].parent = k
  <2> TAKE k \in 1..Len(ms)
  <2> TAKE j, c
  <2> HAVE Entry(ms, k, j, c)
  <2>1. Entry(ns, k, j, c) /\ k \in 1..Len(ns)
    BY <1>4, <1>11
  <2>2. c \in (1..n) \ P /\ ns[c].parent = k
    BY <2>1 DEF Hung
  <2>3. c \in 1..Len(ns) /\ c \in 1..m /\ c # m
    BY <1>1, <2>2
  <2> QED
    BY <1>5, <2>2, <2>3
<1>13. \A k \in 1..Len(ms) : \A i, j, c : Entry(ms, k, i, c) /\ Entry(ms, k, j, c) => i = j
  <2> TAKE k \in 1..Len(ms)
  <2> TAKE i, j, c
  <2> HAVE Entry(ms, k, i, c) /\ Entry(ms, k, j, c)
  <2>1. Entry(ns, k, i, c) /\ Entry(ns, k, j, c) /\ k \in 1..Len(ns)
    BY <1>4, <1>11
  <2> QED
    BY <2>1 DEF Hung
<1>14. \A c \in 1..m : c \notin Q => ms[c].parent # 0 /\ \E j : Entry(ms, ms[c].parent, j, c)
  <2> TAKE c \in 1..m
  <2> HAVE c \notin Q
  <2>1. c \in 1..n /\ c \notin P /\ c \in 1..Len(ns)
    BY <1>1
  <2>2. ns[c].parent # 0 /\ \E j : Entry(ns, ns[c].parent, j, c)
    BY <2>1 DEF Hung
  <2>3. ns[c].parent \in 1..Len(ns)
    BY <1>1, <2>1, <2>2, Around
  <2> QED
    BY <1>5, <1>11, <2>1, <2>2, <2>3
<1>15. Q \subseteq 1..m
  <2>1. \A k \in P : k \in 1..n /\ k \in 1..m
    BY <1>1
  <2>2. m \in 1..m
    BY <1>1
  <2> QED
    BY <2>1, <2>2
<1> HIDE DEF m, Q
<1>16. Hung(ms, m, Q)
  BY <1>1, <1>4, <1>6, <1>7, <1>8, <1>9, <1>10, <1>12, <1>13, <1>14, <1>15 DEF Hung
<1> QED
  BY <1>16 DEF ms, r, m, Q

(* The value on top is complete: it hangs on the one around it.                *)
LEMMA HungLinked ==
    ASSUME pass = "second", NEW ns, NEW n, NEW P, Hung(ns, n, P), NEW k \in P,
           \A p \in P : p <= k, ns[k].parent # 0
    PROVE  Hung(Linked(ns, k), n, P \ {k})
<1> DEFINE up == ns[k].parent
           ms == Linked(ns, k)
           Q == P \ {k}
<1>1. /\ Ordered(ns) /\ n \in Nat /\ n <= Len(ns) /\ Chained(ns, P) /\ P \subseteq 1..n
      /\ Len(ns) \in Nat /\ ns \in Seq(Record) /\ k \in 1..Len(ns)
  BY DEF Hung, Ordered
<1>2. up \in P /\ up \in 1..n /\ up < k /\ up \in 1..Len(ns)
  <2>1. up \in P
    BY <1>1 DEF Chained
  <2> QED
    BY <1>1, <2>1, Around
<1>3. /\ OnlyAt(ns, ms, up) /\ ms[up].count = ns[up].count + 1 /\ ms[up].kids = Append(ns[up].kids, k)
      /\ ms[up].freed = ns[up].freed /\ ms[up].ownfreed = ns[up].ownfreed
  BY <1>1, <1>2, LinkedAt
<1>4. /\ ms \in Seq(Record) /\ Len(ms) = Len(ns) /\ \A i \in 1..Len(ns) : i # up => ms[i] = ns[i]
      /\ ms[up].parent = ns[up].parent /\ ms[up].type = ns[up].type /\ ms[up].own = ns[up].own
  BY <1>3 DEF OnlyAt, Lasting
<1>5. ns[up].kids \in Seq(Nat) /\ Len(ns[up].kids) \in Nat /\ k \in Nat
  <2>1. ns[up] \in Record
    BY <1>1, <1>2
  <2>2. ns[up].kids \in Seq(Nat)
    BY <2>1 DEF Record
  <2> HIDE DEF up
  <2> QED
    BY <1>1, <2>2
<1> HIDE DEF ms
<1>6. \A i \in 1..Len(ns) : ms[i].parent = ns[i].parent /\ ms[i].type = ns[i].type /\ ms[i].own = ns[i].own
  BY <1>4
<1> HIDE DEF up
<1>7. \A i \in 1..Len(ns) : \A j, c :
         Entry(ms, i, j, c) <=> \/ Entry(ns, i, j, c)
                                \/ i = up /\ j = Len(ns[up].kids) + 1 /\ c = k
  <2> TAKE i \in 1..Len(ns)
  <2> TAKE j, c
  <2>1. CASE i # up
    BY <1>4, <2>1 DEF Entry
  <2>2. CASE i = up
    <3> DEFINE a == ns[up].kids
    <3>1. ms[i].kids = Append(a, k) /\ ns[i].kids = a /\ a \in Seq(Nat) /\ Len(a) \in Nat
      BY <1>3, <1>5, <2>2
    <3> HIDE DEF a
    <3>2. /\ Len(Append(a, k)) = Len(a) + 1 /\ Append(a, k)[Len(a) + 1] = k
          /\ \A x \in 1..Len(a) : Append(a, k)[x] = a[x]
      BY <1>5, <3>1
    <3>3. j \in 1..Len(a) + 1 <=> j \in 1..Len(a) \/ j = Len(a) + 1
      BY <3>1
    <3>4. ~(Len(a) + 1 \in 1..Len(a))
      BY <3>1
    <3>5. Entry(ms, i, j, c) <=> j \in 1..Len(a) + 1 /\ Append(a, k)[j] = c
      BY <3>1, <3>2 DEF Entry
    <3>6. Entry(ns, i, j, c) <=> j \in 1..Len(a) /\ a[j] = c
      BY <3>1 DEF Entry
    <3>7. i = up /\ j = Len(a) + 1 /\ c = k <=> j = Len(a) + 1 /\ c = k
      BY <2>2
    <3> QED
      BY <3>2, <3>3, <3>4, <3>5, <3>6, <3>7 DEF a
  <2> QED
    BY <2>1, <2>2
<1>8. Ordered(ms)
  BY <1>1, <1>4, <1>6 DEF Ordered
<1>9. Chained(ms, Q) /\ Q \subseteq 1..n
  <2>1. Q \subseteq 1..Len(ms) /\ Q \subseteq 1..n
    BY <1>1, <1>4
  <2>2. \A q \in Q : ms[q].parent \in Q \cup {0}
    <3> TAKE q \in Q
    <3>1. q \in P /\ q <= k /\ q \in 1..Len(ns) /\ q # k
      BY <1>1
    <3>2. ns[q].parent \in P \cup {0} /\ ns[q].parent < q
      BY <1>1, <3>1, Around DEF Chained
    <3>3. ns[q].parent # k
      BY <1>1, <3>1, <3>2, Around
    <3> QED
      BY <1>6, <3>1, <3>2, <3>3
  <2>3. \A j, q \in Q : j < q => j <= ms[q].parent
    BY <1>1, <1>6 DEF Chained
  <2> QED
    BY <2>1, <2>2, <2>3 DEF Chained
<1>10. \A i \in 1..Len(ms) : ms[i].freed = 0 /\ ms[i].ownfreed = 0
  BY <1>2, <1>3, <1>4 DEF Hung
<1>11. \A i \in 1..n : ms[i].type \in Containers => Len(ms[i].kids) = ms[i].count
  <2> TAKE i \in 1..n
  <2>1. i \in 1..Len(ns) /\ (ns[i].type \in Containers => Len(ns[i].kids) = ns[i].count)
    BY <1>1 DEF Hung
  <2>2. CASE i = up
    <3>1. Len(Append(ns[up].kids, k)) = Len(ns[up].kids) + 1
      BY <1>5
    <3> QED
      BY <1>3, <1>4, <2>1, <2>2, <3>1
  <2>3. CASE i # up
    BY <1>4, <2>1, <2>3
  <2> QED
    BY <2>2, <2>3
<1>12. \A i \in n + 1 .. Len(ms) : ms[i].kids = <<>> /\ ~ms[i].own
  <2> TAKE i \in n + 1 .. Len(ms)
  <2>1. i \in 1..Len(ns) /\ i # up /\ i \in n + 1 .. Len(ns)
    BY <1>1, <1>2, <1>4
  <2> QED
    BY <1>4, <2>1 DEF Hung
<1>13. \A i \in 1..Len(ms) : \A j, c : Entry(ms, i, j, c) => c \in (1..n) \ Q /\ ms[c].parent = i
  <2> TAKE i \in 1..Len(ms)
  <2> TAKE j, c
  <2> HAVE Entry(ms, i, j, c)
  <2>1. i \in 1..Len(ns) /\ (Entry(ns, i, j, c) \/ (i = up /\ c = k))
    BY <1>4, <1>7
  <2>2. CASE Entry(ns, i, j, c)
    <3>1. c \in (1..n) \ P /\ ns[c].parent = i
      BY <2>1, <2>2 DEF Hung
    <3>2. c \in 1..Len(ns)
      BY <1>1, <3>1
    <3> QED
      BY <1>6, <3>1, <3>2
  <2>3. CASE i = up /\ c = k
    BY <1>1, <1>6, <2>3 DEF up
  <2> QED
    BY <2>1, <2>2, <2>3
<1>14. \A i \in 1..Len(ms) : \A x, y, c : Entry(ms, i, x, c) /\ Entry(ms, i, y, c) => x = y
  <2> TAKE i \in 1..Len(ms)
  <2> TAKE x, y, c
  <2> HAVE Entry(ms, i, x, c) /\ Entry(ms, i, y, c)
  <2>1. i \in 1..Len(ns)
    BY <1>4
  <2>2. \A j : ~Entry(ns, i, j, k)
    BY <2>1 DEF Hung
  <2>3. CASE c = k
    BY <1>7, <2>1, <2>2, <2>3
  <2>4. CASE c # k
    <3>1. Entry(ns, i, x, c) /\ Entry(ns, i, y, c)
      BY <1>7, <2>1, <2>4
    <3> QED
      BY <2>1, <3>1 DEF Hung
  <2> QED
    BY <2>3, <2>4
<1>15. \A c \in 1..n : c \notin Q => ms[c].parent # 0 /\ \E j : Entry(ms, ms[c].parent, j, c)
  <2> TAKE c \in 1..n
  <2> HAVE c \notin Q
  <2>1. c \in 1..Len(ns)
    BY <1>1
  <2>2. CASE c = k
    <3>1. ms[c].parent = up /\ up # 0
      BY <1>2, <1>6, <2>1, <2>2 DEF up
    <3>2. Entry(ms, up, Len(ns[up].kids) + 1, c)
      BY <1>2, <1>7, <2>2
    <3> QED
      BY <3>1, <3>2
  <2>3. CASE c # k
    <3>1. c \notin P
      BY <2>3
    <3>2. ns[c].parent # 0 /\ \E j : Entry(ns, ns[c].parent, j, c)
      BY <3>1 DEF Hung
    <3>3. ns[c].parent \in 1..Len(ns)
      BY <1>1, <2>1, <3>2, Around
    <3> QED
      BY <1>6, <1>7, <2>1, <3>2, <3>3
  <2> QED
    BY <2>2, <2>3
<1> HIDE DEF Q
<1>16. Hung(ms, n, Q)
  BY <1>1, <1>4, <1>8, <1>9, <1>10, <1>11, <1>12, <1>13, <1>14, <1>15 DEF Hung
<1> QED
  BY <1>16 DEF ms, Q

(* Another length of a name, or of a string.                                   *)
LEMMA AlikeAt ==
    ASSUME NEW ns \in Seq(Record), NEW k \in 1..Len(ns), NEW c \in Nat
    PROVE  /\ Alike(ns, [ns EXCEPT ![k].names = c])
           /\ ns[k].type \notin Containers => Alike(ns, [ns EXCEPT ![k].count = c])
<1> DEFINE x == [ns[k] EXCEPT !.names = c]
           y == [ns[k] EXCEPT !.count = c]
<1>1. ns[k] \in Record /\ Len(ns) \in Nat
  OBVIOUS
<1>2. /\ x \in Record /\ x.parent = ns[k].parent /\ x.kids = ns[k].kids /\ x.own = ns[k].own
      /\ x.freed = ns[k].freed /\ x.ownfreed = ns[k].ownfreed /\ x.type = ns[k].type
      /\ x.count = ns[k].count
  BY <1>1 DEF Record
<1>3. /\ y \in Record /\ y.parent = ns[k].parent /\ y.kids = ns[k].kids /\ y.own = ns[k].own
      /\ y.freed = ns[k].freed /\ y.ownfreed = ns[k].ownfreed /\ y.type = ns[k].type
  BY <1>1 DEF Record
<1> HIDE DEF x, y
<1>4. \A z \in Record : /\ [ns EXCEPT ![k] = z] \in Seq(Record) /\ Len([ns EXCEPT ![k] = z]) = Len(ns)
                        /\ [ns EXCEPT ![k] = z][k] = z
                        /\ \A i \in 1..Len(ns) : i # k => [ns EXCEPT ![k] = z][i] = ns[i]
  OBVIOUS
<1>5. Alike(ns, [ns EXCEPT ![k] = x])
  <2> DEFINE ms == [ns EXCEPT ![k] = x]
  <2>1. /\ ms \in Seq(Record) /\ Len(ms) = Len(ns) /\ ms[k] = x
        /\ \A i \in 1..Len(ns) : i # k => ms[i] = ns[i]
    BY <1>2, <1>4
  <2> HIDE DEF ms
  <2>2. Alike(ns, ms)
    BY <1>2, <2>1 DEF Alike
  <2> QED
    BY <2>2 DEF ms
<1>6. ns[k].type \notin Containers => Alike(ns, [ns EXCEPT ![k] = y])
  <2> DEFINE ms == [ns EXCEPT ![k] = y]
  <2>1. /\ ms \in Seq(Record) /\ Len(ms) = Len(ns) /\ ms[k] = y
        /\ \A i \in 1..Len(ns) : i # k => ms[i] = ns[i]
    BY <1>3, <1>4
  <2> HIDE DEF ms
  <2>2. ns[k].type \notin Containers => Alike(ns, ms)
    BY <1>3, <2>1 DEF Alike
  <2> QED
    BY <2>2 DEF ms
<1> QED
  BY <1>5, <1>6 DEF x, y

\* The open values lead to the one on top.
Tree(P) == Hung(nodes, Seen, P) /\ (top # 0 => top \in P) /\ \A k \in P : k <= top

(* The value on top, or one just begun, is complete.                           *)
LEMMA TreeEnds ==
    ASSUME pass = "second", NEW ns, NEW n, NEW P, Hung(ns, n, P), NEW k \in P,
           \A p \in P : p <= k, NEW rest, Completed(ns, k, rest), Seen' = n
    PROVE  \E Q : Tree(Q)'
<1>1. nodes' = Linked(ns, k) /\ top' = IF ns[k].parent = 0 THEN k ELSE ns[k].parent
  BY DEF Completed
<1>2. Ordered(ns) /\ Chained(ns, P) /\ P \subseteq 1..n /\ k \in 1..Len(ns) /\ Len(ns) \in Nat /\ n \in Nat
  BY DEF Hung, Ordered
<1>3. CASE ns[k].parent = 0
  <2>1. nodes' = ns /\ top' = k
    BY <1>1, <1>3 DEF Linked
  <2>2. Hung(nodes', Seen', P)
    BY <2>1
  <2>3. Tree(P)'
    BY <2>1, <2>2 DEF Tree
  <2> QED
    BY <2>3
<1>4. CASE ns[k].parent # 0
  <2> DEFINE Q == P \ {k}
  <2>1. Hung(Linked(ns, k), n, Q)
    BY <1>4, HungLinked
  <2>2. Hung(nodes', Seen', Q)
    BY <1>1, <2>1
  <2>3. top' \in Q
    BY <1>1, <1>2, <1>4, Around DEF Chained
  <2>4. \A q \in Q : q <= top'
    <3> TAKE q \in Q
    <3>1. q \in P /\ q <= k /\ q # k /\ q \in Nat /\ k \in Nat
      BY <1>2
    <3>2. q < k
      BY <3>1
    <3> QED
      BY <1>1, <1>2, <1>4, <3>1, <3>2 DEF Chained
  <2> HIDE DEF Q
  <2>5. Tree(Q)'
    BY <2>2, <2>3, <2>4 DEF Tree
  <2> QED
    BY <2>5
<1> QED
  BY <1>3, <1>4

(* The next value is on top.                                                   *)
LEMMA TreeMore ==
    ASSUME NEW tr, Second(tr), NEW P, Tree(P), NEW b \in Opening, Begins(b)
    PROVE  /\ Hung([nodes EXCEPT ![alloc] = Renewed(@)], alloc, P \cup {alloc})
           /\ \A p \in P \cup {alloc} : p <= alloc
           /\ alloc \in 1..Len(nodes) /\ Kind(nodes[alloc].type) = Value(b)
<1>1. pass = "second" /\ Reading
  BY DEF Second
<1>2. alloc \in 1..Len(nodes) /\ nodes[alloc].parent = top /\ Kind(nodes[alloc].type) = Value(b)
  BY <1>1, FitsAgain DEF Fits
<1>3. Seen + 1 = alloc /\ Len(nodes) \in Nat /\ Seen \in Nat
  BY <1>1 DEF Reading, Seen
<1>4. Hung(nodes, Seen, P) /\ (top # 0 => top \in P) /\ \A k \in P : k <= top
  BY DEF Tree
<1>5. nodes[Seen + 1].parent \in P \cup {0} /\ \A k \in P : k <= nodes[Seen + 1].parent
  BY <1>2, <1>3, <1>4
<1>6. Seen + 1 <= Len(nodes)
  BY <1>2, <1>3
<1>7. Hung([nodes EXCEPT ![Seen + 1] = Renewed(@)], Seen + 1, P \cup {Seen + 1})
  BY <1>4, <1>5, <1>6, HungMore
<1>8. P \subseteq 1..Seen
  BY <1>4 DEF Hung
<1>9. \A p \in P \cup {alloc} : p <= alloc
  BY <1>3, <1>8
<1> QED
  BY <1>2, <1>3, <1>7, <1>9

(* A step of the second pass, of what hangs.                                   *)
LEMMA TreeStep ==
    ASSUME NEW tr, Second(tr), NEW P, Tree(P), JsonNext, pass' = "second"
    PROVE  \E Q : Tree(Q)'
<1>1. pass = "second" /\ Reading
  BY DEF Second
<1>2. /\ nodes \in Seq(Record) /\ Len(nodes) \in Nat /\ Seen = alloc - 1 /\ alloc \in Nat
      /\ Seen \in Nat /\ Seen <= Len(nodes) /\ Sound(View)
  BY <1>1 DEF Reading, Seen
<1>3. /\ View.top = top /\ length \in Nat /\ top \in Nat /\ top <= Seen
      /\ \A f \in Modes : f \in View.flags <=> f \in flags
      /\ \A k \in 1..Seen : View.bare[k].type = Kind(nodes[k].type)
  BY <1>1, Seeing
<1>4. Hung(nodes, Seen, P) /\ (top # 0 => top \in P) /\ \A k \in P : k <= top
  BY DEF Tree
<1>5. ~Refuse
  BY <1>1 DEF Refuse
<1>6. ~Number
  BY <1>1, NoNumber
<1>7. \A ms : Alike(nodes, ms) => Hung(ms, Seen, P)
  BY <1>4, HungAlike
<1>8. CASE UNCHANGED <<nodes, top, alloc, pass>>
  <2>1. Seen' = Seen
    BY <1>8 DEF Seen
  <2>2. Tree(P)'
    BY <1>4, <1>8, <2>1 DEF Tree
  <2> QED
    BY <2>2
<1>9. ASSUME alloc' = alloc, top # 0, NEW ns, Alike(nodes, ns), NEW rest, Completed(ns, top, rest)
      PROVE  \E Q : Tree(Q)'
  <2>1. Seen' = Seen
    BY <1>1, <1>9 DEF Seen
  <2>2. Hung(ns, Seen, P) /\ top \in P
    BY <1>4, <1>7, <1>9
  <2> QED
    BY <1>1, <1>4, <1>9, <2>1, <2>2, TreeEnds
<1>10. Alike(nodes, nodes)
  BY <1>2 DEF Alike
<1>11. CASE StringEnd
  <2>1. "string" \in View.flags /\ pass' = pass /\ alloc' = alloc
    BY <1>3, <1>11 DEF StringEnd, Modes
  <2>2. top # 0 /\ top \in 1..Len(nodes) /\ top \in 1..Seen
    BY <1>2, <1>3, <2>1 DEF Sound
  <2>3. CASE nodes[top].type = "string"
    <3>1. nodes[top].type \notin Containers
      BY <2>3 DEF Containers
    <3>2. Alike(nodes, [nodes EXCEPT ![top].count = length])
      BY <1>2, <1>3, <2>2, <3>1, AlikeAt
    <3>3. \E rest : Completed([nodes EXCEPT ![top].count = length], top, rest)
      BY <1>11, <2>3 DEF StringEnd
    <3> QED
      BY <1>9, <2>1, <2>2, <3>2, <3>3
  <2>4. CASE nodes[top].type # "string"
    <3> DEFINE m == nodes[top].names + length + 1
    <3>1. nodes' = [nodes EXCEPT ![top].names = m] /\ top' = top
      BY <1>11, <2>4 DEF StringEnd
    <3>2. m \in Nat
      <4>1. nodes[top] \in Record
        BY <1>2, <2>2
      <4> QED
        BY <1>3, <4>1 DEF Record
    <3> HIDE DEF m
    <3>3. Alike(nodes, nodes')
      BY <1>2, <2>2, <3>1, <3>2, AlikeAt
    <3>4. Seen' = Seen
      BY <1>1, <2>1 DEF Seen
    <3>5. Hung(nodes', Seen', P)
      BY <1>7, <3>3, <3>4
    <3>6. Tree(P)'
      BY <1>4, <3>1, <3>5 DEF Tree
    <3> QED
      BY <3>6
  <2> QED
    BY <2>3, <2>4
<1>12. CASE SeekBracket
  <2>1. top # 0 /\ alloc' = alloc /\ Completed(nodes, top, flags)
    BY <1>5, <1>12 DEF SeekBracket
  <2> QED
    BY <1>9, <1>10, <2>1
<1>13. CASE ObjectEnd
  <2>1. alloc' = alloc /\ Completed(nodes, top, flags) /\ flags \cap {"string", "done", "seek_value"} = {}
    BY <1>13 DEF ObjectEnd, Inside
  <2>2. top # 0
    <3>1. "string" \notin View.flags /\ "done" \notin View.flags /\ "seek_value" \notin View.flags
      BY <1>3, <2>1 DEF Modes
    <3> QED
      BY <1>2, <1>3, <3>1 DEF Sound
  <2> QED
    BY <1>9, <1>10, <2>1, <2>2
<1> DEFINE ms == [nodes EXCEPT ![alloc] = Renewed(@)]
           Q == P \cup {alloc}
<1>14. ASSUME NEW b \in Opening, Begins(b), alloc' = alloc + 1, NEW rest, Completed(ms, alloc, rest)
       PROVE  \E R : Tree(R)'
  <2>1. Hung(ms, alloc, Q) /\ \A p \in Q : p <= alloc
    BY <1>14, TreeMore
  <2>2. Seen' = alloc
    BY <1>2, <1>14 DEF Seen
  <2>3. alloc \in Q
    OBVIOUS
  <2> HIDE DEF ms, Q
  <2> QED
    BY <1>1, <1>14, <2>1, <2>2, <2>3, TreeEnds
<1>15. CASE SeekWord
  <2>1. Begins("word") /\ Completed(ms, alloc, flags) /\ alloc' = alloc + 1
    BY <1>1, <1>15 DEF SeekWord, WithNode, Node, Next_alloc
  <2>2. "word" \in Opening
    BY DEF Opening
  <2> HIDE DEF ms
  <2> QED
    BY <1>14, <2>1, <2>2
<1>16. ASSUME NEW b, SeekNumber(b)
       PROVE  \E R : Tree(R)'
  <2>1. Begins(b) /\ b \in Opening /\ Completed(nodes, alloc, flags) /\ alloc' = alloc + 1
    BY <1>1, <1>16 DEF SeekNumber, Next_alloc, Opening
  <2>2. b \in {"-"} \cup Digit
    BY <1>16 DEF SeekNumber
  <2>3. Value(b) = "number"
    BY <2>2 DEF Value, Entrances, Digit
  <2>4. alloc \in 1..Len(nodes) /\ Kind(nodes[alloc].type) = "number"
    BY <2>1, <2>3, TreeMore
  <2>5. Renewed(nodes[alloc]) = nodes[alloc]
    BY <2>4 DEF Kind, Renewed, Owning
  <2>6. ms = nodes
    BY <1>2, <2>4, <2>5
  <2> HIDE DEF ms
  <2> QED
    BY <1>14, <2>1, <2>6
<1>17. ASSUME NEW b \in Opening, NEW type, SeekContainer(b, type)
       PROVE  \E R : Tree(R)'
  <2>1. Begins(b) /\ nodes' = ms /\ top' = alloc /\ alloc' = alloc + 1
    BY <1>1, <1>17 DEF SeekContainer, WithNode, Node, Next_alloc
  <2>2. Hung(ms, alloc, Q) /\ \A p \in Q : p <= alloc
    BY <2>1, TreeMore
  <2>3. Seen' = alloc
    BY <1>2, <2>1 DEF Seen
  <2>4. PICK R : R = Q
    OBVIOUS
  <2> HIDE DEF ms, Q
  <2>5. Hung(nodes', Seen', R) /\ top' \in R /\ \A p \in R : p <= top'
    <3>1. alloc \in Q
      BY DEF Q
    <3> QED
      BY <2>1, <2>2, <2>3, <2>4, <3>1
  <2>6. Tree(R)'
    BY <2>5 DEF Tree
  <2> QED
    BY <2>6
<1>18. {"{", "[", "quote"} \subseteq Opening
  BY DEF Opening
<1>19. ASSUME DoneSpace \/ \E b : StringAdd(b) \/ SeekOn(b) \/ ObjectOn(b)
       PROVE  UNCHANGED <<nodes, top, alloc, pass>>
  BY <1>19 DEF DoneSpace, StringAdd, SeekOn, ObjectOn
<1>20. ~NumberSign /\ ~NumberPoint /\ \A b : ~NumberDigit(b) /\ ~NumberOver(b)
  BY <1>6 DEF NumberSign, NumberPoint, NumberDigit, NumberOver
<1>21. ~DoneEOF /\ ~Release /\ ~FreeDown /\ ~FreeUp
  BY <1>1 DEF DoneEOF, Release, FreeDown, FreeUp
<1>22. \A b : ~NewValueFails(b) /\ ~StringRefuse(b) /\ ~DoneGarbage(b) /\ ~SeekRefuse(b) /\ ~ObjectRefuse(b)
  BY <1>1, <1>5 DEF NewValueFails, StringRefuse, DoneGarbage, SeekRefuse, ObjectRefuse
<1> QED
  BY <1>8, <1>11, <1>12, <1>13, <1>15, <1>16, <1>17, <1>18, <1>19, <1>20, <1>21, <1>22 DEF JsonNext

-----------------------------------------------------------------------------
(* The walk that frees.                                                       *)

\* An entry of k that the walk has still to go down into.
Pending(ns, k, j, c) ==
    /\ ns[k].own /\ ns[k].type \in Containers /\ j \in 1..ns[k].count
    /\ Entry(ns, k, j, c)

\* Freed, with all that was its own, and none of its entries left.
Gone(n) == n.freed = 1 /\ (n.own => n.ownfreed = 1) /\ (n.type \in Containers => n.count = 0)

\* What is on the way up or still to come is not freed; nothing is freed twice;
\* and of a parsed text everything else is.
Walk(P) ==
    /\ Ordered(nodes) /\ Chained(nodes, P) /\ top \in P /\ \A k \in P : k <= top
    /\ \A k \in 1..Len(nodes) : /\ nodes[k].freed <= 1 /\ nodes[k].ownfreed <= 1
                                /\ nodes[k].freed = 0 => nodes[k].ownfreed = 0
    /\ \A k \in P : nodes[k].freed = 0
    /\ \A k \in 1..Len(nodes) :
          nodes[k].own /\ nodes[k].type \in Containers => nodes[k].count <= Len(nodes[k].kids)
    /\ \A k \in 1..Len(nodes) : \A j, c : Pending(nodes, k, j, c) =>
          /\ c \in (1..Len(nodes)) \ P /\ nodes[c].parent = k /\ nodes[c].freed = 0
    /\ \A k \in 1..Len(nodes) : \A i, j, c :
          Pending(nodes, k, i, c) /\ Pending(nodes, k, j, c) => i = j
    /\ ending = "parsed" => \A c \in 1..Len(nodes) :
          \/ Gone(nodes[c])
          \/ c \in P
          \/ nodes[c].parent # 0 /\ \E j : Pending(nodes, nodes[c].parent, j, c)

(* No value is freed twice on the walk.                                        *)
LEMMA FreedSoFar ==
    ASSUME NEW P, Walk(P)
    PROVE  /\ \A k \in 1..Len(nodes) : /\ nodes[k].freed <= 1 /\ nodes[k].ownfreed <= 1
                                       /\ nodes[k].freed = 0 => nodes[k].ownfreed = 0
           /\ \A k \in P : nodes[k].freed = 0
  BY Zenon DEF Walk

(* The first of some values.                                                   *)
LEMMA LeastNumber ==
    ASSUME NEW T, T \subseteq Nat, T # {}
    PROVE  \E x \in T : \A y \in T : x <= y
<1> DEFINE R == OpToRel(<, Nat)
<1>1. IsWellFoundedOn(R, Nat)
  BY NatLessThanWellFounded
<1>2. \A x, y \in Nat : <<y, x>> \in R <=> y < x
  BY Z3 DEF OpToRel
<1> HIDE DEF R
<1>3. PICK x \in T : \A y \in T : ~ (<<y, x>> \in R)
  BY <1>1, WFMin
<1>4. ASSUME NEW y \in T PROVE x <= y
  <2>1. x \in Nat /\ y \in Nat /\ ~(<<y, x>> \in R)
    BY <1>3
  <2>2. ~(y < x)
    BY <1>2, <2>1
  <2> QED
    BY <2>1, <2>2
<1> QED
  BY <1>4

(* Down into an entry.                                                         *)
LEMMA WalkDown ==
    ASSUME NEW P, Walk(P), FreeDown, nodes[top].own, pass' = "free"
    PROVE  \E Q : Walk(Q)'
<1> DEFINE ns == nodes
           t == top
           c == nodes[top].kids[nodes[top].count]
           m == nodes[top].count - 1
           x == [nodes[top] EXCEPT !.count = m]
<1>1. /\ Ordered(ns) /\ Chained(ns, P) /\ t \in P /\ \A k \in P : k <= t
      /\ P \subseteq 1..Len(ns) /\ Len(ns) \in Nat /\ ns \in Seq(Record) /\ t \in 1..Len(ns)
  BY DEF Walk, Chained, Ordered
<1>2. /\ ns[t].type \in Containers /\ ns[t].count > 0 /\ ns[t].own
      /\ top' = c /\ nodes' = [ns EXCEPT ![t] = x] /\ UNCHANGED <<pass, ending>>
  BY DEF FreeDown, Counting, Containers
<1>3. ns[t] \in Record /\ ns[t].count \in Nat /\ ns[t].kids \in Seq(Nat) /\ Len(ns[t].kids) \in Nat
  <2>1. ns[t] \in Record
    BY <1>1
  <2>2. ns[t].count \in Nat /\ ns[t].kids \in Seq(Nat)
    BY <2>1 DEF Record
  <2> QED
    BY <2>1, <2>2
<1>4. ns[t].count <= Len(ns[t].kids)
  BY <1>1, <1>2 DEF Walk
<1>5. Pending(ns, t, ns[t].count, c)
  BY <1>2, <1>3, <1>4 DEF Pending, Entry
<1>6. c \in (1..Len(ns)) \ P /\ ns[c].parent = t /\ ns[c].freed = 0
  BY <1>1, <1>5 DEF Walk
<1>7. m \in Nat /\ m < ns[t].count
  BY <1>2, <1>3
<1> HIDE DEF m
<1>8. /\ x \in Record /\ x.parent = ns[t].parent /\ x.kids = ns[t].kids /\ x.own = ns[t].own
      /\ x.freed = ns[t].freed /\ x.ownfreed = ns[t].ownfreed /\ x.type = ns[t].type /\ x.count = m
  BY <1>3, <1>7 DEF Record
<1> HIDE DEF x, c, t
<1>9. /\ nodes' \in Seq(Record) /\ Len(nodes') = Len(ns) /\ nodes'[t] = x
      /\ \A k \in 1..Len(ns) : k # t => nodes'[k] = ns[k]
  BY <1>1, <1>2, <1>8
<1> HIDE DEF ns
<1>10. \A k \in 1..Len(ns) :
          /\ nodes'[k].parent = ns[k].parent /\ nodes'[k].kids = ns[k].kids /\ nodes'[k].own = ns[k].own
          /\ nodes'[k].freed = ns[k].freed /\ nodes'[k].ownfreed = ns[k].ownfreed
          /\ nodes'[k].type = ns[k].type
  BY <1>8, <1>9
<1>11. \A k \in 1..Len(ns) : \A j, d :
          Pending(nodes', k, j, d) <=> Pending(ns, k, j, d) /\ ~(k = t /\ j = ns[t].count)
  <2> TAKE k \in 1..Len(ns)
  <2> TAKE j, d
  <2>1. Entry(nodes', k, j, d) <=> Entry(ns, k, j, d)
    BY <1>10 DEF Entry
  <2>2. CASE k = t
    <3>1. j \in 1..m <=> j \in 1..ns[t].count /\ j # ns[t].count
      BY <1>3, <1>7 DEF m, ns, t
    <3> QED
      BY <1>8, <1>9, <1>10, <2>1, <2>2, <3>1 DEF Pending
  <2>3. CASE k # t
    BY <1>9, <2>1, <2>3 DEF Pending
  <2> QED
    BY <2>2, <2>3
<1>12. PICK Q : Q = P \cup {c}
  OBVIOUS
<1>13. Ordered(nodes')
  BY <1>1, <1>9, <1>10 DEF Ordered
<1>14. Chained(nodes', Q)
  <2>1. Q \subseteq 1..Len(nodes')
    BY <1>1, <1>6, <1>9, <1>12
  <2>2. \A k \in Q : nodes'[k].parent \in Q \cup {0}
    BY <1>1, <1>6, <1>10, <1>12 DEF Chained
  <2>3. \A j, k \in Q : j < k => j <= nodes'[k].parent
    <3> TAKE j, k \in Q
    <3> HAVE j < k
    <3>1. k \in 1..Len(ns) /\ nodes'[k].parent = ns[k].parent
      BY <1>1, <1>6, <1>10, <1>12
    <3>2. ns[c].parent < c /\ c \in Nat /\ t \in Nat /\ t < c
      BY <1>1, <1>6, Around
    <3>3. CASE k = c
      <4>1. j \in P
        BY <1>12, <3>2, <3>3
      <4> QED
        BY <1>1, <1>6, <3>1, <3>3, <4>1
    <3>4. CASE k # c
      <4>1. k \in P
        BY <1>12, <3>4
      <4>2. k <= t /\ j # c
        <5>1. k <= t /\ k \in Nat /\ j \in Nat
          BY <1>1, <1>6, <1>12, <4>1
        <5> QED
          BY <3>2, <5>1
      <4>3. j \in P
        BY <1>12, <4>2
      <4> QED
        BY <1>1, <3>1, <4>1, <4>3 DEF Chained
    <3> QED
      BY <3>3, <3>4
  <2> QED
    BY <2>1, <2>2, <2>3 DEF Chained
<1>15. top' \in Q /\ \A k \in Q : k <= top'
  <2>1. c \in Nat /\ t \in Nat /\ t < c
    BY <1>1, <1>6, Around
  <2>2. \A k \in P : k <= c
    <3> TAKE k \in P
    <3>1. k <= t /\ k \in Nat
      BY <1>1
    <3> QED
      BY <2>1, <3>1
  <2> QED
    BY <1>2, <1>12, <2>1, <2>2 DEF c
<1>16. \A k \in 1..Len(nodes') : /\ nodes'[k].freed <= 1 /\ nodes'[k].ownfreed <= 1
                                 /\ nodes'[k].freed = 0 => nodes'[k].ownfreed = 0
  <2>1. \A k \in 1..Len(ns) : /\ ns[k].freed <= 1 /\ ns[k].ownfreed <= 1
                              /\ ns[k].freed = 0 => ns[k].ownfreed = 0
    BY FreedSoFar, Zenon DEF ns
  <2> QED
    BY <1>9, <1>10, <2>1
<1>17. \A k \in Q : nodes'[k].freed = 0
  BY <1>1, <1>6, <1>10, <1>12 DEF Walk, ns
<1>18. \A k \in 1..Len(nodes') :
          nodes'[k].own /\ nodes'[k].type \in Containers => nodes'[k].count <= Len(nodes'[k].kids)
  <2> TAKE k \in 1..Len(nodes')
  <2>1. k \in 1..Len(ns) /\ (ns[k].own /\ ns[k].type \in Containers => ns[k].count <= Len(ns[k].kids))
    BY <1>9 DEF Walk, ns
  <2>2. CASE k = t
    <3>1. m <= Len(ns[t].kids)
      BY <1>3, <1>4, <1>7 DEF ns, t, m
    <3> QED
      BY <1>8, <1>9, <2>2, <3>1
  <2>3. CASE k # t
    BY <1>9, <2>1, <2>3
  <2> QED
    BY <2>2, <2>3
<1>19. \A k \in 1..Len(nodes') : \A j, d : Pending(nodes', k, j, d) =>
          d \in (1..Len(nodes')) \ Q /\ nodes'[d].parent = k /\ nodes'[d].freed = 0
  <2> TAKE k \in 1..Len(nodes')
  <2> TAKE j, d
  <2> HAVE Pending(nodes', k, j, d)
  <2>1. k \in 1..Len(ns) /\ Pending(ns, k, j, d) /\ ~(k = t /\ j = ns[t].count)
    BY <1>9, <1>11
  <2>2. d \in (1..Len(ns)) \ P /\ ns[d].parent = k /\ ns[d].freed = 0
    BY <2>1 DEF Walk, ns
  <2>3. d # c
    <3>1. ASSUME d = c
          PROVE  FALSE
      <4>1. k = t
        BY <1>6, <2>2, <3>1
      <4>2. j = ns[t].count
        BY <1>1, <1>5, <2>1, <3>1, <4>1 DEF Walk, ns
      <4> QED
        BY <2>1, <4>1, <4>2
    <3> QED
      BY <3>1
  <2> QED
    BY <1>9, <1>10, <1>12, <2>2, <2>3
<1>20. \A k \in 1..Len(nodes') : \A i, j, d :
          Pending(nodes', k, i, d) /\ Pending(nodes', k, j, d) => i = j
  <2> TAKE k \in 1..Len(nodes')
  <2> TAKE i, j, d
  <2> HAVE Pending(nodes', k, i, d) /\ Pending(nodes', k, j, d)
  <2>1. k \in 1..Len(ns) /\ Pending(ns, k, i, d) /\ Pending(ns, k, j, d)
    BY <1>9, <1>11
  <2> QED
    BY <2>1 DEF Walk, ns
<1>21. ASSUME ending' = "parsed", NEW d \in 1..Len(nodes')
       PROVE  \/ Gone(nodes'[d])
              \/ d \in Q
              \/ nodes'[d].parent # 0 /\ \E j : Pending(nodes', nodes'[d].parent, j, d)
  <2>1. /\ d \in 1..Len(ns)
        /\ \/ Gone(ns[d]) \/ d \in P
           \/ ns[d].parent # 0 /\ \E j : Pending(ns, ns[d].parent, j, d)
    BY <1>2, <1>9, <1>21 DEF Walk, ns
  <2>2. CASE Gone(ns[d])
    <3>1. d # t
      <4>1. ns[t].freed = 0
        BY <1>1 DEF Walk, ns
      <4> QED
        BY <2>2, <4>1 DEF Gone
    <3> QED
      BY <1>9, <2>1, <2>2, <3>1
  <2>3. CASE d \in P
    BY <1>12, <2>3
  <2>4. CASE ns[d].parent # 0 /\ \E j : Pending(ns, ns[d].parent, j, d)
    <3>1. PICK j : Pending(ns, ns[d].parent, j, d)
      BY <2>4
    <3>2. ns[d].parent \in 1..Len(ns)
      BY <1>1, <2>1, <2>4, Around
    <3>3. CASE ns[d].parent = t /\ j = ns[t].count
      <4>1. d = c
        BY <1>5, <3>1, <3>3 DEF Pending, Entry
      <4> QED
        BY <1>12, <4>1
    <3>4. CASE ~(ns[d].parent = t /\ j = ns[t].count)
      BY <1>10, <1>11, <2>1, <2>4, <3>1, <3>2, <3>4
    <3> QED
      BY <3>3, <3>4
  <2> QED
    BY <2>1, <2>2, <2>3, <2>4
<1>22. Walk(Q)'
  BY <1>13, <1>14, <1>15, <1>16, <1>17, <1>18, <1>19, <1>20, <1>21 DEF Walk
<1> QED
  BY <1>22

(* Up from a value that has no entries left.                                   *)
LEMMA WalkUp ==
    ASSUME NEW P, Walk(P), FreeUp, ending # "refused"
    PROVE  \/ pass' = "free" /\ \E Q : Walk(Q)'
           \/ pass' = "over" /\ FreedOnce'
<1> DEFINE ns == nodes
           t == top
           x == FreedWhole(nodes[top])
<1>1. /\ Ordered(ns) /\ Chained(ns, P) /\ t \in P /\ \A k \in P : k <= t
      /\ P \subseteq 1..Len(ns) /\ Len(ns) \in Nat /\ ns \in Seq(Record) /\ t \in 1..Len(ns)
  BY DEF Walk, Chained, Ordered
<1>2. /\ pass = "free" /\ ~Counting(t) /\ nodes' = [ns EXCEPT ![t] = x] /\ top' = ns[t].parent
      /\ pass' = IF ns[t].parent = 0 THEN "over" ELSE "free"
      /\ ending' = ending
  <2>1. nodes' = [ns EXCEPT ![t] = x]
    BY DEF FreeUp
  <2> HIDE DEF x
  <2> QED
    BY <2>1 DEF FreeUp
<1>3. ns[t] \in Record /\ ns[t].count \in Nat /\ ns[t].own \in BOOLEAN
  <2>1. ns[t] \in Record
    BY <1>1
  <2> QED
    BY <2>1 DEF Record
<1>4. ns[t].freed = 0 /\ ns[t].ownfreed = 0
  <2>1. t \in P /\ t \in 1..Len(ns)
    BY <1>1
  <2>2. ns[t].freed = 0
    BY <2>1, FreedSoFar, Zenon DEF ns
  <2>3. ns[t].freed = 0 => ns[t].ownfreed = 0
    BY <2>1, FreedSoFar, Zenon DEF ns
  <2> QED
    BY <2>2, <2>3
<1>5. ns[t].type \in Containers => ns[t].count = 0
  BY <1>2, <1>3 DEF Counting, Containers
<1>6. /\ x \in Record /\ x.parent = ns[t].parent /\ x.kids = ns[t].kids /\ x.own = ns[t].own
      /\ x.freed = 1 /\ x.ownfreed = (IF ns[t].own THEN 1 ELSE 0) /\ x.type = ns[t].type
      /\ x.count = ns[t].count
  <2> DEFINE f == Twice(ns[t].freed)
             o == IF ns[t].own THEN Twice(ns[t].ownfreed) ELSE ns[t].ownfreed
  <2>1. f = 1 /\ o = IF ns[t].own THEN 1 ELSE 0
    BY <1>4 DEF Twice
  <2>2. x = [ns[t] EXCEPT !.freed = f, !.ownfreed = o]
    BY DEF FreedWhole
  <2> HIDE DEF x, f, o, ns, t
  <2>3. f \in Nat /\ o \in Nat
    BY <2>1
  <2>4. x \in Record /\ x.freed = f /\ x.ownfreed = o
    BY <1>3, <2>2, <2>3 DEF Record
  <2> QED
    BY <1>3, <2>1, <2>2, <2>4 DEF Record
<1> HIDE DEF x, t, ns
<1>7. /\ nodes' \in Seq(Record) /\ Len(nodes') = Len(ns) /\ nodes'[t] = x
      /\ \A k \in 1..Len(ns) : k # t => nodes'[k] = ns[k]
  BY <1>1, <1>2, <1>6
<1>8. \A k \in 1..Len(ns) :
          /\ nodes'[k].parent = ns[k].parent /\ nodes'[k].kids = ns[k].kids /\ nodes'[k].own = ns[k].own
          /\ nodes'[k].type = ns[k].type /\ nodes'[k].count = ns[k].count
  BY <1>6, <1>7
<1>9. \A k \in 1..Len(ns) : \A j, d : Pending(nodes', k, j, d) <=> Pending(ns, k, j, d)
  BY <1>8 DEF Pending, Entry
<1>10. PICK Q : Q = P \ {t}
  OBVIOUS
<1>11. Ordered(nodes')
  BY <1>1, <1>7, <1>8 DEF Ordered
<1>12. \A q \in Q : q \in P /\ q \in 1..Len(ns) /\ q # t /\ q < t
  <2> TAKE q \in Q
  <2>1. q \in P /\ q # t /\ q <= t /\ q \in Nat /\ t \in Nat
    BY <1>1, <1>10
  <2> QED
    BY <1>1, <2>1
<1>13. Chained(nodes', Q)
  <2>1. Q \subseteq 1..Len(nodes')
    BY <1>7, <1>12
  <2>2. \A q \in Q : nodes'[q].parent \in Q \cup {0}
    <3> TAKE q \in Q
    <3>1. ns[q].parent \in P \cup {0} /\ ns[q].parent < q /\ ns[q].parent \in Nat
      BY <1>1, <1>12, Around DEF Chained
    <3>2. ns[q].parent # t
      <4>1. q < t /\ q \in Nat /\ t \in Nat
        BY <1>1, <1>12
      <4> QED
        BY <3>1, <4>1
    <3> QED
      BY <1>8, <1>10, <1>12, <3>1, <3>2
  <2>3. \A j, q \in Q : j < q => j <= nodes'[q].parent
    BY <1>1, <1>8, <1>12 DEF Chained
  <2> QED
    BY <2>1, <2>2, <2>3 DEF Chained
<1>14. \A k \in 1..Len(nodes') : /\ nodes'[k].freed <= 1 /\ nodes'[k].ownfreed <= 1
                                 /\ nodes'[k].freed = 0 => nodes'[k].ownfreed = 0
  <2> TAKE k \in 1..Len(nodes')
  <2>1. k \in 1..Len(ns)
    BY <1>7
  <2>2. /\ ns[k].freed <= 1 /\ ns[k].ownfreed <= 1
        /\ ns[k].freed = 0 => ns[k].ownfreed = 0
    BY <2>1, FreedSoFar, Zenon DEF ns
  <2>3. CASE k = t
    BY <1>6, <1>7, <2>3
  <2>4. CASE k # t
    BY <1>7, <2>1, <2>2, <2>4
  <2> QED
    BY <2>3, <2>4
<1>15. \A q \in Q : nodes'[q].freed = 0
  BY <1>7, <1>12 DEF Walk, ns
<1>16. \A k \in 1..Len(nodes') :
          nodes'[k].own /\ nodes'[k].type \in Containers => nodes'[k].count <= Len(nodes'[k].kids)
  BY <1>7, <1>8 DEF Walk, ns
<1>17. \A k \in 1..Len(nodes') : \A j, d : Pending(nodes', k, j, d) =>
          d \in (1..Len(nodes')) \ Q /\ nodes'[d].parent = k /\ nodes'[d].freed = 0
  <2> TAKE k \in 1..Len(nodes')
  <2> TAKE j, d
  <2> HAVE Pending(nodes', k, j, d)
  <2>1. k \in 1..Len(ns) /\ Pending(ns, k, j, d)
    BY <1>7, <1>9
  <2>2. d \in (1..Len(ns)) \ P /\ ns[d].parent = k /\ ns[d].freed = 0
    BY <2>1 DEF Walk, ns
  <2>3. d # t
    BY <1>1, <2>2
  <2> QED
    BY <1>7, <1>8, <1>10, <2>2, <2>3
<1>18. \A k \in 1..Len(nodes') : \A i, j, d :
          Pending(nodes', k, i, d) /\ Pending(nodes', k, j, d) => i = j
  <2> TAKE k \in 1..Len(nodes')
  <2> TAKE i, j, d
  <2> HAVE Pending(nodes', k, i, d) /\ Pending(nodes', k, j, d)
  <2>1. k \in 1..Len(ns) /\ Pending(ns, k, i, d) /\ Pending(ns, k, j, d)
    BY <1>7, <1>9
  <2> QED
    BY <2>1 DEF Walk, ns
<1>19. ASSUME ending' = "parsed", NEW d \in 1..Len(nodes')
       PROVE  \/ Gone(nodes'[d])
              \/ d \in Q
              \/ nodes'[d].parent # 0 /\ \E j : Pending(nodes', nodes'[d].parent, j, d)
  <2>1. /\ d \in 1..Len(ns)
        /\ \/ Gone(ns[d]) \/ d \in P
           \/ ns[d].parent # 0 /\ \E j : Pending(ns, ns[d].parent, j, d)
    BY <1>2, <1>7, <1>19 DEF Walk, ns
  <2>2. CASE d = t
    BY <1>5, <1>6, <1>7, <2>2 DEF Gone
  <2>3. CASE d # t /\ Gone(ns[d])
    BY <1>7, <2>1, <2>3
  <2>4. CASE d # t /\ d \in P
    BY <1>10, <2>4
  <2>5. CASE ns[d].parent # 0 /\ \E j : Pending(ns, ns[d].parent, j, d)
    <3>1. ns[d].parent \in 1..Len(ns)
      BY <1>1, <2>1, <2>5, Around
    <3> QED
      BY <1>8, <1>9, <2>1, <2>5, <3>1
  <2> QED
    BY <2>1, <2>2, <2>3, <2>4, <2>5
<1>20. CASE ns[t].parent # 0
  <2>1. top' \in Q
    <3>1. ns[t].parent \in P /\ ns[t].parent # t
      BY <1>1, <1>20, Around DEF Chained
    <3> QED
      BY <1>2, <1>10, <3>1
  <2>2. \A q \in Q : q <= top'
    BY <1>1, <1>2, <1>12 DEF Chained
  <2>3. Walk(Q)'
    BY <1>11, <1>13, <1>14, <1>15, <1>16, <1>17, <1>18, <1>19, <2>1, <2>2 DEF Walk
  <2> QED
    BY <1>2, <1>20, <2>3
<1>21. CASE ns[t].parent = 0
  <2>1. t = 1 /\ Q = {}
    <3>1. t = 1
      BY <1>1, <1>21 DEF Ordered
    <3>2. \A q \in Q : FALSE
      BY <1>12, <3>1
    <3> QED
      BY <3>1, <3>2
  <2>2. DOMAIN nodes' = 1..Len(ns) /\ DOMAIN nodes' = 1..Len(nodes')
    BY <1>7
  <2>3. ASSUME ending' = "parsed", NEW d \in 1..Len(nodes')
        PROVE  Gone(nodes'[d])
    <3> DEFINE Left == {k \in 1..Len(nodes') : ~Gone(nodes'[k])}
    <3>1. ASSUME Left # {}
          PROVE  FALSE
      <4>1. Left \subseteq Nat
        OBVIOUS
      <4>2. PICK k \in Left : \A l \in Left : k <= l
        BY <3>1, <4>1, LeastNumber
      <4>3. k \in 1..Len(nodes') /\ ~Gone(nodes'[k]) /\ k \in 1..Len(ns)
        BY <1>7, <4>2
      <4>4. PICK j : Pending(nodes', nodes'[k].parent, j, k) /\ nodes'[k].parent # 0
        BY <1>19, <2>1, <2>3, <4>3
      <4> DEFINE p == nodes'[k].parent
      <4>5. p \in 1..Len(nodes') /\ p < k /\ k \in Nat /\ p \in Nat
        BY <1>11, <4>3, <4>4, Around
      <4>6. Gone(nodes'[p])
        BY <4>2, <4>5
      <4> HIDE DEF p
      <4>7. nodes'[p].count = 0 /\ j \in 1..nodes'[p].count
        BY <4>4, <4>6 DEF Pending, Gone, p
      <4> QED
        BY <4>7
    <3> QED
      BY <3>1
  <2>4. pass' = "over" /\ ending' # "refused"
    BY <1>2, <1>21
  <2>5. \A k \in DOMAIN nodes' : nodes'[k].freed <= 1 /\ nodes'[k].ownfreed <= 1
    BY <1>14, <2>2
  <2>6. ending' = "parsed" => \A k \in DOMAIN nodes' :
           nodes'[k].freed = 1 /\ (nodes'[k].own => nodes'[k].ownfreed = 1)
    BY <2>2, <2>3 DEF Gone
  <2>7. FreedOnce'
    BY <2>4, <2>5, <2>6 DEF FreedOnce
  <2> QED
    BY <2>4, <2>7
<1> QED
  BY <1>20, <1>21

(* A first pass that ends badly has freed all its nodes, or crashed.           *)
LEMMA FirstFrees ==
    ASSUME pass = "first", nodes \in Seq(Record), Blanks(nodes), JsonNext, pass' = "over"
    PROVE  FreedOnce'
<1>1. \A k \in DOMAIN nodes : nodes[k] \in Record /\ Blank(nodes[k])
  BY DEF Blanks
<1>2. ASSUME nodes' = Chain(1)
      PROVE  FreedOnce'
  <2>1. DOMAIN nodes' = DOMAIN nodes /\ \A k \in DOMAIN nodes : k >= 1 /\ k \in Nat
    BY <1>2 DEF Chain
  <2>2. ASSUME NEW k \in DOMAIN nodes
        PROVE  nodes'[k].freed = 1 /\ nodes'[k].ownfreed = 0 /\ ~nodes'[k].own
    <3> DEFINE f == Twice(nodes[k].freed)
    <3>1. nodes'[k] = [nodes[k] EXCEPT !.freed = f]
      BY <1>2, <2>1 DEF Chain, Freed
    <3>2. f = 1
      BY <1>1 DEF Blank, Twice
    <3> HIDE DEF f
    <3> QED
      BY <1>1, <3>1, <3>2 DEF Record, Blank
  <2>3. \A k \in DOMAIN nodes' : nodes'[k].freed <= 1 /\ nodes'[k].ownfreed <= 1
    BY <2>1, <2>2
  <2>4. \A k \in DOMAIN nodes' : nodes'[k].freed = 1 /\ (nodes'[k].own => nodes'[k].ownfreed = 1)
    BY <2>1, <2>2
  <2> QED
    BY <2>3, <2>4 DEF FreedOnce
<1>3. ASSUME nodes' = nodes, ending' = "crash"
      PROVE  FreedOnce'
  <2>1. \A k \in DOMAIN nodes' : nodes'[k].freed <= 1 /\ nodes'[k].ownfreed <= 1
    BY <1>1, <1>3 DEF Blank
  <2> QED
    BY <1>3, <2>1 DEF FreedOnce
<1>4. Refuse => FreedOnce'
  BY <1>2 DEF Refuse
<1>5. CASE SeekBracket
  BY <1>3, <1>4, <1>5 DEF SeekBracket
<1>6. ASSUME NEW b, \/ NewValueFails(b) \/ StringRefuse(b) \/ DoneGarbage(b) \/ SeekRefuse(b)
                   \/ ObjectRefuse(b) \/ NumberDigit(b) \/ NumberOver(b)
      PROVE  FreedOnce'
  BY <1>2, <1>4, <1>6 DEF NewValueFails, StringRefuse, DoneGarbage, SeekRefuse, ObjectRefuse,
      NumberDigit, NumberOver
<1>7. CASE NumberPoint
  BY <1>4, <1>7 DEF NumberPoint
<1>8. ~StringEnd /\ ~DoneSpace /\ ~DoneEOF /\ ~SeekWord /\ ~ObjectEnd /\ ~NumberSign
      /\ ~Release /\ ~FreeDown /\ ~FreeUp
  BY DEF StringEnd, DoneSpace, DoneEOF, SeekWord, ObjectEnd, NumberSign, Release, FreeDown, FreeUp
<1>9. \A b, type : ~StringAdd(b) /\ ~SeekOn(b) /\ ~SeekNumber(b) /\ ~ObjectOn(b) /\ ~SeekContainer(b, type)
  BY DEF StringAdd, SeekOn, SeekNumber, ObjectOn, SeekContainer
<1> QED
  BY <1>5, <1>6, <1>7, <1>8, <1>9 DEF JsonNext

(* Before the second pass nothing hangs on anything.                           *)
LEMMA TreeStarts ==
    ASSUME pass = "first", DoneEOF, NEW tr, Plain(tr), Blanks(nodes)
    PROVE  Tree({})'
<1>1. pass' = "second" /\ top' = 0 /\ alloc' = 1 /\ nodes' = nodes
  BY DEF DoneEOF
<1>2. Reading
  BY DEF Plain
<1>3. Seen = Len(nodes) /\ Seen' = 0
  BY <1>1 DEF Seen
<1>4. /\ nodes \in Seq(Record) /\ Len(nodes) \in Nat /\ DOMAIN nodes = 1..Len(nodes)
      /\ Family(View.bare) /\ Len(View.bare) = Len(nodes)
      /\ \A k \in 1..Len(nodes) : View.bare[k].parent = nodes[k].parent
  BY <1>2, <1>3, Seeing DEF Reading
<1>5. Ordered(nodes)
  BY <1>4 DEF Family, Ordered
<1>6. \A k \in 1..Len(nodes) : Blank(nodes[k])
  BY <1>4 DEF Blanks
<1>7. \A k \in 1..Len(nodes) : \A j, c : ~Entry(nodes, k, j, c)
  BY <1>6 DEF Blank, Entry
<1>8. Hung(nodes, 0, {})
  <2>1. Chained(nodes, {})
    BY DEF Chained
  <2>2. 0 \in Nat /\ 0 <= Len(nodes) /\ 1..0 = {}
    BY <1>4
  <2> QED
    BY <1>4, <1>5, <1>6, <1>7, <2>1, <2>2 DEF Hung, Blank
<1> QED
  BY <1>1, <1>3, <1>8 DEF Tree

(* How the second pass ends.                                                   *)
LEMMA SecondEnds ==
    ASSUME pass = "second", JsonNext, pass' \in {"read", "free"}, ending' # "refused"
    PROVE  DoneEOF \/ \E b : NewValueFails(b)
<1>1. ~Refuse
  BY DEF Refuse
<1>2. \A b : ~StringRefuse(b) /\ ~DoneGarbage(b) /\ ~SeekRefuse(b) /\ ~ObjectRefuse(b)
  BY <1>1 DEF StringRefuse, DoneGarbage, SeekRefuse, ObjectRefuse
<1>3. \A b, type : ~StringAdd(b) /\ ~SeekOn(b) /\ ~SeekNumber(b) /\ ~ObjectOn(b) /\ ~SeekContainer(b, type)
  BY DEF StringAdd, SeekOn, SeekNumber, ObjectOn, SeekContainer
<1>4. \A b : ~NumberDigit(b) /\ ~NumberOver(b)
  BY <1>1 DEF NumberDigit, NumberOver
<1>5. ~NumberPoint /\ ~SeekBracket
  BY <1>1 DEF NumberPoint, SeekBracket
<1>6. /\ ~StringEnd /\ ~DoneSpace /\ ~SeekWord /\ ~ObjectEnd /\ ~NumberSign
      /\ ~Release /\ ~FreeDown /\ ~FreeUp
  BY DEF StringEnd, DoneSpace, SeekWord, ObjectEnd, NumberSign, Release, FreeDown, FreeUp
<1> QED
  BY <1>2, <1>3, <1>4, <1>5, <1>6 DEF JsonNext

(* A parse that succeeds: everything hangs on the root.                        *)
LEMMA WalkParsed ==
    ASSUME NEW tr, Second(tr), NEW P, Tree(P), DoneEOF
    PROVE  Walk(P)'
<1> DEFINE n == Len(nodes)
<1>1. pass = "second" /\ Reading /\ "done" \in flags /\ top' = 1 /\ nodes' = nodes
  BY DEF Second, DoneEOF
<1>2. alloc = n + 1 /\ n \in Nat
  BY <1>1, RoomForAll DEF SecondPassFits, Reading
<1>3. Seen = n
  BY <1>1, <1>2 DEF Seen
<1>4. Sound(View) /\ View.top = top /\ "done" \in View.flags
  <2>1. "done" \in View.flags <=> "done" \in flags
    BY <1>1, Seeing DEF Modes
  <2> QED
    BY <1>1, <2>1, Seeing DEF Reading
<1>5. top = 1
  BY <1>4 DEF Sound
<1>6. Hung(nodes, n, P) /\ 1 \in P /\ \A k \in P : k <= 1
  BY <1>3, <1>5 DEF Tree
<1>7. /\ Ordered(nodes) /\ Chained(nodes, P) /\ P \subseteq 1..n
      /\ \A k \in 1..n : nodes[k].freed = 0 /\ nodes[k].ownfreed = 0
      /\ \A k \in 1..n : nodes[k].type \in Containers => Len(nodes[k].kids) = nodes[k].count
      /\ \A k \in 1..n : \A j, c : Entry(nodes, k, j, c) => c \in (1..n) \ P /\ nodes[c].parent = k
      /\ \A k \in 1..n : \A i, j, c : Entry(nodes, k, i, c) /\ Entry(nodes, k, j, c) => i = j
      /\ \A c \in 1..n : c \notin P => nodes[c].parent # 0 /\ \E j : Entry(nodes, nodes[c].parent, j, c)
  BY <1>6 DEF Hung
<1>8. \A k \in 1..n : nodes[k].own /\ nodes[k].type \in Containers => nodes[k].count <= Len(nodes[k].kids)
  <2> TAKE k \in 1..n
  <2>1. nodes[k] \in Record
    BY <1>7, Around
  <2>2. nodes[k].count \in Nat
    BY <2>1 DEF Record
  <2> QED
    BY <1>7, <2>2
<1>9. ASSUME NEW c \in 1..n, c \notin P
      PROVE  nodes[c].parent # 0 /\ \E j : Pending(nodes, nodes[c].parent, j, c)
  <2> DEFINE p == nodes[c].parent
  <2>1. p # 0 /\ p \in 1..n
    BY <1>7, <1>9, Around
  <2>2. PICK j : Entry(nodes, p, j, c)
    BY <1>7, <1>9
  <2>3. View.bare[c].parent = p /\ View.bare[p].type = Kind(nodes[p].type) /\ Family(View.bare)
        /\ Len(View.bare) = n
    BY <1>1, <1>3, <2>1, Seeing
  <2>4. View.bare[p].type \in Containers
    BY <2>1, <2>3 DEF Family
  <2>5. nodes[p].type \in Containers
    BY <2>3, <2>4 DEF Kind, Containers
  <2>6. nodes[p].own
    <3>1. Roomy(nodes[p], tr[Len(text)].bare[p])
      BY <1>3, <2>1 DEF Second
    <3> QED
      BY <2>5, <3>1 DEF Roomy, Containers, Owning
  <2>7. j \in 1..nodes[p].count
    BY <1>7, <2>1, <2>2, <2>5 DEF Entry
  <2>8. Pending(nodes, p, j, c)
    BY <2>2, <2>5, <2>6, <2>7 DEF Pending
  <2> QED
    BY <2>1, <2>8
<1>10. \A k \in 1..n : /\ nodes[k].freed <= 1 /\ nodes[k].ownfreed <= 1
                       /\ nodes[k].freed = 0 => nodes[k].ownfreed = 0
  BY <1>7
<1>11. \A k \in P : nodes[k].freed = 0
  BY <1>7
<1>12. \A k \in 1..n : \A j, c : Pending(nodes, k, j, c) =>
           c \in (1..n) \ P /\ nodes[c].parent = k /\ nodes[c].freed = 0
  BY <1>7 DEF Pending
<1>13. \A k \in 1..n : \A i, j, c : Pending(nodes, k, i, c) /\ Pending(nodes, k, j, c) => i = j
  BY <1>7 DEF Pending
<1> QED
  BY <1>1, <1>6, <1>7, <1>8, <1>9, <1>10, <1>11, <1>12, <1>13 DEF Walk

(* Memory runs out: the nodes not reached yet are freed, and the walk begins   *)
(* at the root, whose complete entries hang on it.                             *)
LEMMA WalkFailed ==
    ASSUME NEW tr, Second(tr), NEW P, Tree(P), NEW b, NewValueFails(b)
    PROVE  Walk({1})'
<1> DEFINE n == Seen
<1>1. pass = "second" /\ Reading
  BY DEF Second
<1>2. /\ top' = 1 /\ nodes' = Chain(alloc + 1) /\ ending' = "memory" /\ b \in Opening /\ Begins(b)
  BY <1>1 DEF NewValueFails, Opening, Begins, Seeking
<1>3. alloc \in 1..Len(nodes) /\ n + 1 = alloc /\ n \in Nat /\ Len(nodes) \in Nat
      /\ nodes \in Seq(Record) /\ DOMAIN nodes = 1..Len(nodes) /\ 1 \in 1..Len(nodes)
  <2>1. alloc \in 1..Len(nodes)
    BY <1>1, <1>2, FitsAgain DEF Fits
  <2> QED
    BY <1>1, <2>1 DEF Reading, Seen
<1>4. /\ Ordered(nodes) /\ n <= Len(nodes)
      /\ \A k \in 1..Len(nodes) : nodes[k].freed = 0 /\ nodes[k].ownfreed = 0
      /\ \A k \in 1..n : nodes[k].type \in Containers => Len(nodes[k].kids) = nodes[k].count
      /\ \A k \in n + 1 .. Len(nodes) : nodes[k].kids = <<>> /\ ~nodes[k].own
      /\ \A k \in 1..Len(nodes) : \A j, c : Entry(nodes, k, j, c) => c \in (1..n) \ P /\ nodes[c].parent = k
      /\ \A k \in 1..Len(nodes) : \A i, j, c : Entry(nodes, k, i, c) /\ Entry(nodes, k, j, c) => i = j
  BY DEF Tree, Hung
<1> HIDE DEF n
<1>5. \A k \in 1..Len(nodes) : nodes[k] \in Record /\ Freed(nodes[k]) \in Record
  <2> TAKE k \in 1..Len(nodes)
  <2> DEFINE f == Twice(nodes[k].freed)
  <2>1. nodes[k] \in Record
    BY <1>3
  <2>2. f = 1 /\ Freed(nodes[k]) = [nodes[k] EXCEPT !.freed = f]
    BY <1>4 DEF Twice, Freed
  <2> HIDE DEF f
  <2>3. \A x \in Record : [x EXCEPT !.freed = 1] \in Record
    BY DEF Record
  <2> QED
    BY <2>1, <2>2, <2>3
<1>6. nodes' \in Seq(Record) /\ Len(nodes') = Len(nodes)
      /\ \A k \in 1..Len(nodes) : nodes'[k] = IF k >= alloc + 1 THEN Freed(nodes[k]) ELSE nodes[k]
  <2> DEFINE F(k) == IF k >= alloc + 1 THEN Freed(nodes[k]) ELSE nodes[k]
  <2>1. nodes' = [k \in 1..Len(nodes) |-> F(k)]
    BY <1>2, <1>3 DEF Chain
  <2>2. \A k \in 1..Len(nodes) : F(k) \in Record
    BY <1>5
  <2> HIDE DEF F
  <2>3. nodes' \in Seq(Record) /\ Len(nodes') = Len(nodes) /\ \A k \in 1..Len(nodes) : nodes'[k] = F(k)
    BY <1>3, <2>1, <2>2
  <2> QED
    BY <2>3 DEF F
<1>7. \A k \in 1..Len(nodes) :
         /\ nodes'[k].parent = nodes[k].parent /\ nodes'[k].kids = nodes[k].kids
         /\ nodes'[k].own = nodes[k].own /\ nodes'[k].type = nodes[k].type
         /\ nodes'[k].count = nodes[k].count /\ nodes'[k].ownfreed = 0
         /\ nodes'[k].freed = IF k >= alloc + 1 THEN 1 ELSE 0
  <2> TAKE k \in 1..Len(nodes)
  <2>1. CASE k >= alloc + 1
    <3> DEFINE f == Twice(nodes[k].freed)
    <3>1. f = 1 /\ nodes'[k] = [nodes[k] EXCEPT !.freed = f]
      BY <1>4, <1>6, <2>1 DEF Twice, Freed
    <3> HIDE DEF f
    <3>2. nodes[k] \in Record /\ nodes[k].ownfreed = 0
      BY <1>4, <1>5
    <3> QED
      BY <2>1, <3>1, <3>2 DEF Record
  <2>2. CASE ~(k >= alloc + 1)
    BY <1>4, <1>6, <2>2
  <2> QED
    BY <2>1, <2>2
<1>8. \A k \in 1..Len(nodes) : nodes'[k].own => k \in 1..n
  <2> TAKE k \in 1..Len(nodes)
  <2>1. k \in 1..n \/ k \in n + 1 .. Len(nodes)
    BY <1>3
  <2> QED
    BY <1>4, <1>7, <2>1
<1>9. \A k \in 1..Len(nodes) : \A j, c : Pending(nodes', k, j, c) => Entry(nodes, k, j, c)
  BY <1>7 DEF Pending, Entry
<1>10. Ordered(nodes')
  BY <1>4, <1>6, <1>7 DEF Ordered
<1>11. Chained(nodes', {1})
  <2>1. nodes'[1].parent = 0
    BY <1>3, <1>6, <1>10 DEF Ordered
  <2> QED
    BY <1>3, <1>6, <2>1 DEF Chained
<1>12. \A k \in 1..Len(nodes') : /\ nodes'[k].freed <= 1 /\ nodes'[k].ownfreed <= 1
                                 /\ nodes'[k].freed = 0 => nodes'[k].ownfreed = 0
  BY <1>6, <1>7
<1>13. \A k \in {1} : nodes'[k].freed = 0
  BY <1>3, <1>7
<1>14. \A k \in 1..Len(nodes') :
          nodes'[k].own /\ nodes'[k].type \in Containers => nodes'[k].count <= Len(nodes'[k].kids)
  <2> TAKE k \in 1..Len(nodes')
  <2> HAVE nodes'[k].own /\ nodes'[k].type \in Containers
  <2>1. k \in 1..Len(nodes) /\ k \in 1..n
    BY <1>6, <1>8
  <2>2. nodes[k].count \in Nat
    BY <1>5, <2>1 DEF Record
  <2> QED
    BY <1>4, <1>7, <2>1, <2>2
<1>15. \A k \in 1..Len(nodes') : \A j, c : Pending(nodes', k, j, c) =>
          c \in (1..Len(nodes')) \ {1} /\ nodes'[c].parent = k /\ nodes'[c].freed = 0
  <2> TAKE k \in 1..Len(nodes')
  <2> TAKE j, c
  <2> HAVE Pending(nodes', k, j, c)
  <2>1. k \in 1..Len(nodes) /\ Entry(nodes, k, j, c)
    BY <1>6, <1>9
  <2>2. c \in 1..n /\ nodes[c].parent = k
    BY <1>4, <2>1
  <2>3. c \in 1..Len(nodes) /\ ~(c >= alloc + 1)
    BY <1>3, <1>4, <2>2
  <2>4. c # 1
    BY <1>4, <2>1, <2>2, <2>3 DEF Ordered
  <2> QED
    BY <1>6, <1>7, <2>2, <2>3, <2>4
<1>16. \A k \in 1..Len(nodes') : \A i, j, c :
          Pending(nodes', k, i, c) /\ Pending(nodes', k, j, c) => i = j
  BY <1>4, <1>6, <1>9
<1>17. top' \in {1} /\ \A k \in {1} : k <= top'
  BY <1>2
<1>18. ending' # "parsed"
  BY <1>2
<1> QED
  BY <1>10, <1>11, <1>12, <1>13, <1>14, <1>15, <1>16, <1>17, <1>18 DEF Walk

\* What the parser is in the middle of, and what has come of its nodes.
Tending ==
    /\ Midway
    /\ pass = "second" => \E tr, P : Second(tr) /\ Tree(P)
    /\ pass \in {"read", "free"} => \E P : Walk(P)
    /\ pass = "over" => FreedOnce

(* Nothing is freed before its time.                                           *)
LEMMA TendingFrees ==
    ASSUME Tending
    PROVE  FreedOnce
<1>1. pass \in {"first", "second", "read", "free", "over"}
  BY DEF Tending, Midway
<1>2. CASE pass = "first"
  <2>1. \A k \in DOMAIN nodes : nodes[k].freed = 0 /\ nodes[k].ownfreed = 0
    BY <1>2 DEF Tending, Midway, Blanks, Blank
  <2> QED
    BY <1>2, <2>1 DEF FreedOnce
<1>3. CASE pass = "second"
  <2>1. PICK tr, P : Second(tr) /\ Tree(P)
    BY <1>3 DEF Tending
  <2>2. nodes \in Seq(Record) /\ DOMAIN nodes = 1..Len(nodes)
    BY <2>1 DEF Second, Reading
  <2>3. \A k \in 1..Len(nodes) : nodes[k].freed = 0 /\ nodes[k].ownfreed = 0
    BY <2>1 DEF Tree, Hung
  <2> QED
    BY <1>3, <2>2, <2>3 DEF FreedOnce
<1>4. CASE pass \in {"read", "free"}
  <2>1. PICK P : Walk(P)
    BY <1>4 DEF Tending
  <2>2. DOMAIN nodes = 1..Len(nodes)
    BY <2>1 DEF Walk, Ordered
  <2>3. \A k \in 1..Len(nodes) : nodes[k].freed <= 1 /\ nodes[k].ownfreed <= 1
    BY <2>1, FreedSoFar, Zenon
  <2> QED
    BY <1>4, <2>2, <2>3 DEF FreedOnce
<1>5. CASE pass = "over"
  BY <1>5 DEF Tending
<1> QED
  BY <1>1, <1>2, <1>3, <1>4, <1>5

(* Every step tends to the nodes.                                              *)
LEMMA TendingStep ==
    ASSUME Tending, [JsonNext]_jsonVars
    PROVE  Tending'
<1>1. Midway /\ Midway'
  BY MidwayStep DEF Tending
<1>2. CASE UNCHANGED jsonVars
  <2>1. UNCHANGED <<nodes, pass, ending, alloc, top>>
    BY <1>2 DEF jsonVars
  <2>2. pass = "second" => \E tr, P : Second(tr)' /\ Tree(P)'
    <3>1. ASSUME pass = "second"
          PROVE  \E tr, P : Second(tr)' /\ Tree(P)'
      <4>1. PICK tr, P : Second(tr) /\ Tree(P)
        BY <3>1 DEF Tending
      <4>2. Second(tr)'
        BY <1>2, <4>1 DEF jsonVars, Second, Reading, View, Seen
      <4>3. Tree(P)'
        BY <2>1, <4>1 DEF Tree, Seen
      <4> QED
        BY <4>2, <4>3
    <3> QED
      BY <3>1
  <2>3. \A P : Walk(P) => Walk(P)'
    BY <2>1 DEF Walk
  <2>4. FreedOnce => FreedOnce'
    BY <2>1 DEF FreedOnce
  <2> QED
    BY <1>1, <2>1, <2>2, <2>3, <2>4 DEF Tending
<1>3. CASE JsonNext /\ pass = "first"
  <2>1. FirstPass /\ Blanks(nodes)
    BY <1>1, <1>3 DEF Midway
  <2>2. nodes \in Seq(Record)
    <3>1. ASSUME NEW tr, Plain(tr) \/ \E p : InNumber(tr, p)
          PROVE  nodes \in Seq(Record)
      BY <3>1 DEF Plain, Reading, InNumber
    <3> QED
      BY <2>1, <3>1 DEF FirstPass
  <2>3. CASE pass' = "first"
    BY <1>1, <2>3 DEF Tending
  <2>4. CASE pass' = "over"
    BY <1>1, <1>3, <2>1, <2>2, <2>4, FirstFrees DEF Tending
  <2>5. CASE DoneEOF /\ TextRead /\ \E tr : Plain(tr)
    <3>1. PICK tr : Plain(tr)
      BY <2>5
    <3>2. Second(tr)' /\ Tree({})'
      BY <1>3, <2>1, <2>5, <3>1, SecondStarts, TreeStarts
    <3>3. pass' = "second" /\ \E ts, P : Second(ts)' /\ Tree(P)'
      BY <3>2 DEF Second
    <3> QED
      BY <1>1, <3>3 DEF Tending
  <2> QED
    BY <1>3, <2>1, <2>3, <2>4, <2>5, FirstStep
<1>4. CASE JsonNext /\ pass = "second"
  <2>1. PICK tr, P : Second(tr) /\ Tree(P)
    BY <1>4 DEF Tending
  <2>2. CASE Second(tr)'
    <3>1. pass' = "second"
      BY <2>2 DEF Second
    <3>2. \E Q : Tree(Q)'
      BY <1>4, <2>1, <3>1, TreeStep
    <3> QED
      BY <1>1, <2>2, <3>1, <3>2 DEF Tending
  <2>3. CASE (pass' = "read" /\ ending' = "parsed") \/ (pass' = "free" /\ ending' = "memory")
    <3>1. DoneEOF \/ \E b : NewValueFails(b)
      BY <1>4, <2>1, <2>3, SecondEnds
    <3>2. \E Q : Walk(Q)'
      BY <2>1, <3>1, WalkParsed, WalkFailed
    <3>3. pass' \in {"read", "free"}
      BY <2>3
    <3> QED
      BY <1>1, <3>2, <3>3 DEF Tending
  <2> QED
    BY <1>4, <2>1, <2>2, <2>3, SecondStep
<1>5. CASE JsonNext /\ pass \notin {"first", "second"}
  <2>1. (Release \/ FreeDown \/ FreeUp) /\ pass \in {"read", "free"}
    BY <1>1, <1>5, LaterSteps DEF Midway, Release, FreeDown, FreeUp
  <2>2. PICK P : Walk(P)
    BY <2>1 DEF Tending
  <2>3. CASE Release
    <3>1. UNCHANGED <<nodes, top, ending>> /\ pass' = "free"
      BY <2>3 DEF Release
    <3>2. Walk(P)'
      BY <2>2, <3>1 DEF Walk
    <3> QED
      BY <1>1, <3>1, <3>2 DEF Tending
  <2>4. CASE FreeDown /\ nodes[top].own
    <3>1. pass' = "free"
      BY <2>4 DEF FreeDown
    <3>2. \E Q : Walk(Q)'
      BY <2>2, <2>4, <3>1, WalkDown
    <3> QED
      BY <1>1, <3>1, <3>2 DEF Tending
  <2>5. CASE FreeDown /\ ~nodes[top].own
    <3>1. nodes' = nodes /\ ending' = "crash" /\ pass' = "over"
      BY <2>5 DEF FreeDown
    <3>2. DOMAIN nodes = 1..Len(nodes)
      BY <2>2 DEF Walk, Ordered
    <3>3. \A k \in 1..Len(nodes) : nodes[k].freed <= 1 /\ nodes[k].ownfreed <= 1
      BY <2>2, FreedSoFar, Zenon
    <3>4. FreedOnce'
      BY <3>1, <3>2, <3>3 DEF FreedOnce
    <3> QED
      BY <1>1, <3>1, <3>4 DEF Tending
  <2>6. CASE FreeUp
    <3>1. ending # "refused"
      BY <1>1, <2>6 DEF Midway, FreeUp
    <3>2. CASE pass' = "free" /\ \E Q : Walk(Q)'
      BY <1>1, <3>2 DEF Tending
    <3>3. CASE pass' = "over" /\ FreedOnce'
      BY <1>1, <3>3 DEF Tending
    <3> QED
      BY <2>2, <2>6, <3>1, <3>2, <3>3, WalkUp
  <2> QED
    BY <2>1, <2>3, <2>4, <2>5, <2>6
<1> QED
  BY <1>2, <1>3, <1>4, <1>5

(* However the parse ends, and wherever memory runs out, no node, array, name  *)
(* or string is freed twice; and after a text that is refused or read nothing  *)
(* is left (e_failed, e_alloc_failure, json_value_free_ex).                    *)
THEOREM EverythingFreedOnce == JsonSpec => []FreedOnce
<1>1. JsonInit => Tending
  BY FirstStarts DEF Tending, Midway
<1>2. Tending /\ [JsonNext]_jsonVars => Tending'
  BY TendingStep
<1>3. Tending => FreedOnce
  BY TendingFrees
<1> QED
  BY <1>1, <1>2, <1>3, PTL DEF JsonSpec

=============================================================================
