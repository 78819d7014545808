-------------------------------- MODULE Json ---------------------------------
(* The JSON parser of the silo processor (processors/silo/json.c) over texts  *)
(* of symbols. The text is read twice: the first pass makes a node for each   *)
(* value and counts the entries, the characters and the bytes of names; the   *)
(* second walks the nodes in the order they were made, allocates what was     *)
(* counted and links the values. Both run the same loop: one iteration, one   *)
(* character, is one step here. The text is chosen while the first pass reads *)
(* it. A character is a symbol of a class; "word" is one of true, false, null; *)
(* "u1", "u2", "u3" are a u and four hexadecimal digits that make so many     *)
(* bytes after a backslash; "u" one without; "x" any other character, a broken word included.  *)
(* The values of numbers and comments, which nothing enables, are left out.   *)
EXTENDS Integers, Sequences, FiniteSets

CONSTANTS
    Symbols,        \* the classes of characters texts are made of
    InScope(_),     \* bound: the texts that are tried
    EOF

VARIABLES
    text,       \* what has been read in the first pass, EOF included
    at,         \* i, counted from 1
    pass,       \* "first" and "second", then "read", "free" and "over"
    flags,
    nodes,      \* the values in the order they were made, linked by next_alloc
    top, alloc, \* indices into nodes, 0 for NULL; root is node 1
    length,     \* string_length
    digits,     \* num_digits, up to 2
    ending      \* how the parse ended: "parsed", "refused", "memory", or "crash"

jsonVars == <<text, at, pass, flags, nodes, top, alloc, length, digits, ending>>

Structure == {"{", "}", "[", "]", ":", ",", "quote", "\\", "space"}
Numeric == {"0", "1", "-", ".", "e"}
Unicode == {"u1", "u2", "u3"}

ASSUME JsonAssumption ==
    /\ Symbols \subseteq Structure \cup Numeric \cup Unicode \cup {"word", "u", "x"}
    /\ \A b \in Symbols : InScope(<<b>>) \in BOOLEAN
    /\ EOF \notin Structure \cup Numeric \cup Unicode \cup {"word", "u", "x"}

Digit == {"0", "1"}

\* The bytes a character adds to a string, plain or after a backslash.
PlainBytes(b) == CASE b = "word" -> 4 [] b \in Unicode -> 5 [] OTHER -> 1
EscapedBytesFewer(b) ==             \* mutant: the first pass takes them for two
    CASE b = "word" -> 4
      [] b = "u1" -> 1
      [] b = "u2" \/ (b = "u3" /\ pass = "first") -> 2
      [] b = "u3" -> 3
      [] OTHER -> 1
EscapedBytes(b) == CASE b = "word" -> 4
                     [] b = "u1" -> 1 [] b = "u2" -> 2 [] b = "u3" -> 3
                     [] OTHER -> 1

\* A node: its length field (entries or characters), which the second pass
\* starts again from zero up to room; the names' bytes, likewise; the entries
\* linked so far; whether its own array, names or string and the node itself
\* are allocated.
NewNode(type, parent) ==
    [type |-> type, parent |-> parent, count |-> 0, room |-> 0,
     names |-> 0, nameroom |-> 0, kids |-> <<>>,
     own |-> FALSE, freed |-> 0, ownfreed |-> 0]

Owning == {"array", "object", "string"}

\* The character under i: from the text, or the next one of the text to be.
At(b) ==
    IF at <= Len(text) THEN b = text[at] /\ UNCHANGED text
    ELSE /\ b \in Symbols => InScope(Append(text, b))
         /\ text' = Append(text, b)

JsonInit ==
    /\ text = <<>> /\ at = 1 /\ pass = "first"
    /\ flags = {"seek_value"}
    /\ nodes = <<>> /\ top = 0 /\ alloc = 0
    /\ length = 0 /\ digits = 0
    /\ ending = ""

Parsing == pass \in {"first", "second"} /\ ending = ""

Twice(n) == IF n = 2 THEN 2 ELSE n + 1
Freed(n) == [n EXCEPT !.freed = Twice(@)]
FreedWhole(n) ==
    [n EXCEPT !.freed = Twice(@), !.ownfreed = IF n.own THEN Twice(@) ELSE @]

\* e_failed: in the first pass all nodes are freed; in the second those not
\* reached yet, and then what hangs on the root.
ChainAfter(from) ==                 \* mutant: the first is left out
    [k \in DOMAIN nodes |-> IF k > from THEN Freed(nodes[k]) ELSE nodes[k]]
Chain(from) ==
    [k \in DOMAIN nodes |-> IF k >= from THEN Freed(nodes[k]) ELSE nodes[k]]
Refuse ==
    /\ ending' = "refused"
    /\ nodes' = Chain(IF pass = "first" THEN 1 ELSE alloc)
    /\ pass' = IF pass = "first" THEN "over" ELSE "free"
    /\ top' = IF pass = "first" THEN 0 ELSE 1
    /\ UNCHANGED <<at, flags, alloc, length, digits>>

-----------------------------------------------------------------------------

\* flag_next: a value is complete; its parent takes it in and is on top again.
Linked(ns, k) ==
    LET up == ns[k].parent IN
    IF up = 0 THEN ns
    ELSE [ns EXCEPT ![up].count = @ + 1,
                    ![up].kids = IF pass = "second" THEN Append(@, k) ELSE @]
Completed(ns, k, rest) ==
    /\ nodes' = Linked(ns, k)
    /\ top' = IF ns[k].parent = 0 THEN k ELSE ns[k].parent
    /\ flags' = (rest \ {"seek_value"}) \cup {"need_comma"}
                  \cup (IF ns[k].parent = 0 THEN {"done"}
                        ELSE IF ns[ns[k].parent].type = "array" THEN {"seek_value"}
                        ELSE {})

\* new_value: in the first pass a node is appended and goes on top, in the second
\* the next node does, with room for what was counted.
Node == IF pass = "first" THEN Len(nodes) + 1 ELSE alloc
Renewed(n) ==
    IF n.type \in Owning
    THEN [n EXCEPT !.room = n.count, !.count = 0, !.own = TRUE,
                   !.nameroom = n.names, !.names = 0]
    ELSE n
WithNode(type) ==
    IF pass = "first" THEN Append(nodes, NewNode(type, top))
    ELSE [nodes EXCEPT ![alloc] = Renewed(@)]
Next_alloc == IF pass = "first" THEN Len(nodes) + 1 ELSE alloc + 1

\* json_alloc fails: e_alloc_failure. The node of a second-pass failure keeps the
\* length it counted, without an array to go with it.
NewValueFails(b) ==
    /\ Parsing /\ "seek_value" \in flags /\ At(b)
    /\ flags \cap {"string", "done", "need_comma", "need_colon"} = {}
    /\ b \in {"{", "[", "quote", "word", "-"} \cup Digit
    /\ pass = "second" => nodes[alloc].type \in Owning
    /\ ending' = "memory"
    /\ nodes' = Chain(IF pass = "first" THEN 1 ELSE alloc + 1)
    /\ pass' = IF pass = "first" THEN "over" ELSE "free"
    /\ top' = IF pass = "first" THEN 0 ELSE 1
    /\ UNCHANGED <<at, flags, alloc, length, digits>>

-----------------------------------------------------------------------------
(* Inside a string.                                                         *)

\* The end of the text, or an escape without its four digits.
StringRefuse(b) ==
    /\ Parsing /\ "string" \in flags /\ At(b)
    /\ b = EOF \/ (b = "u" /\ "escaped" \in flags)
    /\ Refuse

StringAdd(b) ==
    /\ Parsing /\ "string" \in flags /\ At(b)
    /\ b # EOF
    /\ \/ /\ "escaped" \in flags /\ b # "u"
          /\ flags' = flags \ {"escaped"}
          /\ length' = length + EscapedBytes(b)
       \/ /\ "escaped" \notin flags
          /\ b = "\\"
          /\ flags' = flags \cup {"escaped"}
          /\ UNCHANGED length
       \/ /\ "escaped" \notin flags
          /\ b \notin {"\\", "quote"}
          /\ length' = length + PlainBytes(b)
          /\ UNCHANGED flags
    /\ at' = at + 1
    /\ UNCHANGED <<pass, nodes, top, alloc, digits, ending>>

\* The quote that ends a string value, or a name: its bytes are counted, or
\* taken from what was counted.
StringEnd ==
    /\ Parsing /\ "string" \in flags /\ "escaped" \notin flags
    /\ At("quote")
    /\ IF nodes[top].type = "string"
       THEN Completed([nodes EXCEPT ![top].count = length], top, flags \ {"string"})
       ELSE /\ nodes' = [nodes EXCEPT ![top].names = @ + length + 1]
            /\ flags' = (flags \ {"string"}) \cup {"seek_value", "need_colon"}
            /\ UNCHANGED top
    /\ at' = at + 1
    /\ UNCHANGED <<pass, alloc, length, digits, ending>>

-----------------------------------------------------------------------------
(* After the root value, and where a value is wanted.                       *)

DoneSpace ==
    /\ Parsing /\ "done" \in flags /\ At("space")
    /\ at' = at + 1
    /\ UNCHANGED <<pass, flags, nodes, top, alloc, length, digits, ending>>

DoneGarbage(b) ==
    /\ Parsing /\ "done" \in flags /\ At(b)
    /\ b \notin {"space", EOF}
    /\ Refuse

\* The end of a pass.
DoneEOF ==
    /\ Parsing /\ "done" \in flags /\ At(EOF)
    /\ IF pass = "first"
       THEN /\ pass' = "second" /\ at' = 1 /\ flags' = {"seek_value"}
            /\ top' = 0 /\ alloc' = 1 /\ length' = 0
            /\ UNCHANGED ending
       ELSE /\ pass' = "read" /\ ending' = "parsed" /\ top' = 1
            /\ UNCHANGED <<at, flags, alloc, length>>
    /\ UNCHANGED <<nodes, digits>>

Seeking == Parsing /\ "seek_value" \in flags /\ flags \cap {"string", "done"} = {}

\* Spaces, the comma and the colon that is due.
SeekOn(b) ==
    /\ Seeking /\ At(b)
    /\ \/ b = "space" /\ UNCHANGED flags
       \/ b = "," /\ "need_comma" \in flags /\ flags' = flags \ {"need_comma"}
       \/ /\ b = ":" /\ "need_colon" \in flags /\ "need_comma" \notin flags
          /\ flags' = flags \ {"need_colon"}
    /\ at' = at + 1
    /\ UNCHANGED <<pass, nodes, top, alloc, length, digits, ending>>

\* A bracket, after a comma or not; without any value before it top is NULL.
SeekBracket ==
    /\ Seeking /\ At("]")
    /\ \/ /\ top = 0
          /\ ending' = "crash" /\ pass' = "over"
          /\ UNCHANGED <<at, flags, nodes, top, alloc, length, digits>>
       \/ /\ top # 0 /\ nodes[top].type # "array"
          /\ Refuse
       \/ /\ top # 0 /\ nodes[top].type = "array"
          /\ Completed(nodes, top, flags)
          /\ at' = at + 1
          /\ UNCHANGED <<pass, alloc, length, digits, ending>>

SeekRefuse(b) ==
    /\ Seeking /\ At(b)
    /\ b \notin {"space", "]"}
    /\ \/ "need_comma" \in flags /\ b # ","
       \/ "need_comma" \notin flags /\ "need_colon" \in flags /\ b # ":"
       \/ /\ flags \cap {"need_comma", "need_colon"} = {}
          /\ b \notin {"{", "[", "quote", "word", "-"} \cup Digit
    /\ Refuse

\* A value begins, and where it is a single symbol ends.
Begins(b) == Seeking /\ flags \cap {"need_comma", "need_colon"} = {} /\ At(b)

SeekContainer(b, type) ==
    /\ Begins(b)
    /\ nodes' = WithNode(type)
    /\ top' = Node
    /\ alloc' = Next_alloc
    /\ flags' = IF type = "array" THEN flags
                ELSE IF type = "object" THEN flags \ {"seek_value"}
                ELSE (flags \ {"seek_value"}) \cup {"string"}
    /\ length' = IF type = "string" THEN 0 ELSE length
    /\ at' = at + 1
    /\ UNCHANGED <<pass, digits, ending>>

SeekWord ==
    /\ Begins("word")
    /\ Completed(WithNode("word"), Node, flags)
    /\ alloc' = Next_alloc
    /\ at' = at + 1
    /\ UNCHANGED <<pass, length, digits, ending>>

\* A number: the first pass reads it character by character, a digit again; the
\* second passes over all characters numbers are made of.
NumberFlagsOld == {"num_negative", "num_e", "num_e_got_sign"}    \* mutant: a zero before
NumberFlags == {"num_negative", "num_e", "num_e_got_sign", "num_zero"}
Past(i) == CHOOSE j \in i .. Len(text) :
              text[j] \notin Numeric /\ \A k \in i .. j - 1 : text[k] \in Numeric

SeekNumber(b) ==
    /\ Begins(b)
    /\ b \in {"-"} \cup Digit
    /\ alloc' = Next_alloc
    /\ IF pass = "first"
       THEN /\ nodes' = WithNode("integer")
            /\ top' = Node
            /\ flags' = (flags \ ({"seek_value"} \cup NumberFlags))
                           \cup (IF b = "-" THEN {"num_negative"} ELSE {})
            /\ digits' = 0
            /\ at' = IF b = "-" THEN at + 1 ELSE at
       ELSE /\ Completed(nodes, alloc, flags)
            /\ at' = Past(at)
            /\ UNCHANGED digits
    /\ UNCHANGED <<pass, length, ending>>

-----------------------------------------------------------------------------
(* Inside an object, between its names, and inside a number.                *)

Inside(types) ==
    /\ Parsing /\ flags \cap {"string", "done", "seek_value"} = {}
    /\ nodes[top].type \in types

ObjectOn(b) ==
    /\ Inside({"object"}) /\ At(b)
    /\ \/ b = "space" /\ UNCHANGED <<flags, length>>
       \/ /\ b = "," /\ "need_comma" \in flags
          /\ flags' = flags \ {"need_comma"}
          /\ UNCHANGED length
       \/ /\ b = "quote" /\ "need_comma" \notin flags
          /\ flags' = flags \cup {"string"}
          /\ length' = 0
    /\ at' = at + 1
    /\ UNCHANGED <<pass, nodes, top, alloc, digits, ending>>

ObjectEnd ==
    /\ Inside({"object"}) /\ At("}")
    /\ Completed(nodes, top, flags)
    /\ at' = at + 1
    /\ UNCHANGED <<pass, alloc, length, digits, ending>>

ObjectRefuse(b) ==
    /\ Inside({"object"}) /\ At(b)
    /\ b \notin {"space", "}"}
    /\ b = "," => "need_comma" \notin flags
    /\ b = "quote" => "need_comma" \in flags
    /\ Refuse

Number == Inside({"integer", "double"})

NumberDigit(b) ==
    /\ Number /\ At(b)
    /\ b \in Digit
    /\ IF nodes[top].type = "integer" /\ flags \cap {"num_e", "num_zero"} = {"num_zero"}
       THEN Refuse
       ELSE /\ digits' = IF digits = 2 THEN 2 ELSE digits + 1
            /\ flags' = flags \cup
                 (IF "num_e" \in flags THEN {"num_e_got_sign"}
                  ELSE IF nodes[top].type = "integer" /\ digits = 0 /\ b = "0" THEN {"num_zero"}
                  ELSE {})
            /\ at' = at + 1
            /\ UNCHANGED <<pass, nodes, top, alloc, length, ending>>

NumberSign ==
    /\ Number /\ At("-")
    /\ "num_e" \in flags /\ "num_e_got_sign" \notin flags
    /\ flags' = flags \cup {"num_e_got_sign"}
    /\ at' = at + 1
    /\ UNCHANGED <<pass, nodes, top, alloc, length, digits, ending>>

NumberPoint ==
    /\ Number /\ At(".")
    /\ nodes[top].type = "integer"
    /\ IF digits = 0 THEN Refuse
       ELSE /\ nodes' = [nodes EXCEPT ![top].type = "double"]
            /\ digits' = 0
            /\ at' = at + 1
            /\ UNCHANGED <<pass, flags, top, alloc, length, ending>>

\* Everything else: a number without the digits it needs is refused; else an
\* exponent begins, or the number is over and the character is read again.
NumberOver(b) ==
    /\ Number /\ At(b)
    /\ b \notin Digit
    /\ ~(b = "-" /\ "num_e" \in flags /\ "num_e_got_sign" \notin flags)
    /\ ~(b = "." /\ nodes[top].type = "integer")
    /\ \/ /\ digits = 0 /\ ("num_e" \in flags \/ nodes[top].type = "double")
          /\ Refuse
       \/ /\ digits > 0 \/ ("num_e" \notin flags /\ nodes[top].type = "integer")
          /\ b = "e" /\ "num_e" \notin flags
          /\ nodes' = [nodes EXCEPT ![top].type = "double"]
          /\ digits' = 0
          /\ flags' = (flags \cup {"num_e"}) \ {"num_zero"}
          /\ at' = at + 1
          /\ UNCHANGED <<pass, top, alloc, length, ending>>
       \/ /\ digits > 0 \/ ("num_e" \notin flags /\ nodes[top].type = "integer")
          /\ ~(b = "e" /\ "num_e" \notin flags)
          /\ Completed(nodes, top, flags)
          /\ UNCHANGED <<at, pass, alloc, length, digits, ending>>

-----------------------------------------------------------------------------
(* json_value_free_ex: down into the last entry that is left, and from a value *)
(* that has none up to the one around it.                                    *)

Counting(k) == nodes[k].type \in {"array", "object"} /\ nodes[k].count > 0

\* The caller has read what it was given, and frees it.
Release ==
    /\ pass = "read"
    /\ pass' = "free"
    /\ UNCHANGED <<text, at, flags, nodes, top, alloc, length, digits, ending>>

FreeDownStays ==                    \* mutant: the length is not decremented
    /\ pass = "free"
    /\ Counting(top)
    /\ IF nodes[top].own
       THEN top' = nodes[top].kids[nodes[top].count] /\ UNCHANGED <<pass, ending>>
       ELSE ending' = "crash" /\ pass' = "over" /\ UNCHANGED top
    /\ UNCHANGED <<text, at, flags, nodes, alloc, length, digits>>
FreeDown ==
    /\ pass = "free"
    /\ Counting(top)
    /\ \/ /\ nodes[top].own
          /\ top' = nodes[top].kids[nodes[top].count]
          /\ nodes' = [nodes EXCEPT ![top].count = @ - 1]
          /\ UNCHANGED <<pass, ending>>
       \/ /\ ~nodes[top].own
          /\ ending' = "crash" /\ pass' = "over"
          /\ UNCHANGED <<top, nodes>>
    /\ UNCHANGED <<text, at, flags, alloc, length, digits>>

FreeUp ==
    /\ pass = "free"
    /\ ~Counting(top)
    /\ nodes' = [nodes EXCEPT ![top] = FreedWhole(@)]
    /\ top' = nodes[top].parent
    /\ pass' = IF nodes[top].parent = 0 THEN "over" ELSE "free"
    /\ UNCHANGED <<text, at, flags, alloc, length, digits, ending>>

JsonNext ==
    \/ StringEnd \/ DoneSpace \/ DoneEOF \/ SeekBracket \/ SeekWord
    \/ ObjectEnd \/ NumberSign \/ NumberPoint \/ Release \/ FreeDown \/ FreeUp
    \/ SeekContainer("{", "object") \/ SeekContainer("[", "array")
    \/ SeekContainer("quote", "string")
    \/ \E b \in Symbols \cup {EOF} :
          \/ NewValueFails(b) \/ StringRefuse(b) \/ StringAdd(b) \/ DoneGarbage(b) \/ SeekOn(b)
          \/ SeekRefuse(b) \/ SeekNumber(b) \/ ObjectOn(b) \/ ObjectRefuse(b)
          \/ NumberDigit(b) \/ NumberOver(b)

JsonSpec == JsonInit /\ [][JsonNext]_jsonVars /\ WF_jsonVars(JsonNext)

-----------------------------------------------------------------------------
\* The second pass finds what the first has counted: a node for each value, of
\* the value's type, room for every entry, character and name, and no reason to
\* refuse what the first pass accepted (only the second leaves anything to free).
SecondPassFits ==
    /\ pass = "second" =>
         /\ top \in DOMAIN nodes \cup {0}
         /\ \A k \in DOMAIN nodes :
               k < alloc /\ nodes[k].own =>
                 /\ nodes[k].count <= nodes[k].room
                 /\ nodes[k].names <= nodes[k].nameroom
         /\ "string" \in flags =>
               IF nodes[top].type = "string" THEN length <= nodes[top].room
               ELSE nodes[top].names + length < nodes[top].nameroom
         /\ "done" \in flags => alloc = Len(nodes) + 1
    /\ pass = "free" => ending # "refused"

\* Whatever the end, nothing is freed twice; and when memory did not run out
\* nothing is left: every node, array, name and string is freed.
FreedOnce ==
    /\ \A k \in DOMAIN nodes : nodes[k].freed <= 1 /\ nodes[k].ownfreed <= 1
    /\ pass = "over" /\ ending \in {"parsed", "refused"} =>
          \A k \in DOMAIN nodes :
             nodes[k].freed = 1 /\ (nodes[k].own => nodes[k].ownfreed = 1)

=============================================================================
