---------------------------- MODULE JsonLanguage -----------------------------
(* The language: what texts mean, by recursion on their grammar. It is JSON   *)
(* with three liberties: a comma may end an array or an object, a minus alone *)
(* is an integer, and one may come right before an exponent. Each operator    *)
(* gives the ways to read its phrase from position i of t on, as pairs of a   *)
(* tree and the position after it.                                            *)

EXTENDS Json

RECURSIVE Skip(_, _), ValueAt(_, _), EntriesAt(_, _, _), DigitsAt(_, _)

Sym(t, i) == IF i <= Len(t) THEN t[i] ELSE EOF
Skip(t, i) == IF Sym(t, i) = "space" THEN Skip(t, i + 1) ELSE i
DigitsAt(t, i) == IF Sym(t, i) \in Digit THEN DigitsAt(t, i + 1) ELSE i

\* The end of the exponent, fraction and integer that begin at i, 0 for none.
ExponentAt(t, i) ==
    LET first == IF Sym(t, i + 1) = "-" THEN i + 2 ELSE i + 1
        last == DigitsAt(t, first) IN
    IF Sym(t, i) # "e" THEN i ELSE IF last = first THEN 0 ELSE last
FractionAt(t, i) ==
    LET last == DigitsAt(t, i + 1) IN
    IF Sym(t, i) # "." THEN i ELSE IF last = i + 1 THEN 0 ELSE last
IntegerAt(t, i) ==
    LET last == DigitsAt(t, i) IN
    IF Sym(t, i) = "0" /\ last > i + 1 THEN 0 ELSE last

NumberAt(t, i) ==
    LET first == IF Sym(t, i) = "-" THEN i + 1 ELSE i
        whole == IntegerAt(t, first)
        point == IF whole = 0 \/ (whole = first /\ Sym(t, whole) = ".") THEN 0
                 ELSE FractionAt(t, whole)
        end == IF point = 0 THEN 0 ELSE ExponentAt(t, point)
    IN  IF Sym(t, i) \notin {"-"} \cup Digit \/ end = 0 \/ Sym(t, end) \in Numeric THEN {}
        ELSE {<<[type |-> IF end = whole THEN "integer" ELSE "double",
                 size |-> 0, kids |-> <<>>], end>>}

\* The characters of a string from i on, up to its closing quote.
RECURSIVE StringAt(_, _)
Longer(bytes, rest) == {<<bytes + r[1], r[2]>> : r \in rest}
StringAt(t, i) ==
    CASE Sym(t, i) = EOF -> {}
      [] Sym(t, i) = "quote" -> {<<0, i + 1>>}
      [] Sym(t, i) = "\\" ->
            IF Sym(t, i + 1) \in {EOF, "u"} THEN {}
            ELSE Longer(EscapedBytes(t[i + 1]), StringAt(t, i + 2))
      [] OTHER -> Longer(PlainBytes(t[i]), StringAt(t, i + 1))

Leaf(type, size) == [type |-> type, size |-> size, kids |-> <<>>]
Tree(type, kids) == [type |-> type, size |-> Len(kids), kids |-> kids]

\* A value from position i on, spaces first; then the entries of an array, or
\* the members of an object, up to the bracket.
ValueAt(t, i0) ==
    LET i == Skip(t, i0) IN
    CASE Sym(t, i) = "{" -> EntriesAt(t, i + 1, "object")
      [] Sym(t, i) = "[" -> EntriesAt(t, i + 1, "array")
      [] Sym(t, i) = "quote" -> {<<Leaf("string", r[1]), r[2]>> : r \in StringAt(t, i + 1)}
      [] Sym(t, i) = "word" -> {<<Leaf("word", 0), i + 1>>}
      [] OTHER -> NumberAt(t, i)

NameAt(t, i) ==
    IF Sym(t, i) # "quote" THEN {}
    ELSE {Skip(t, r[2]) + 1 : r \in {q \in StringAt(t, i + 1) : Sym(t, Skip(t, q[2])) = ":"}}

EntryAt(t, i, type) ==
    IF type = "array" THEN ValueAt(t, i)
    ELSE UNION {ValueAt(t, j) : j \in NameAt(t, i)}

EntriesAt(t, i0, type) ==
    LET i == Skip(t, i0)
        bracket == IF type = "array" THEN "]" ELSE "}"
        Rest(e) ==
            LET j == Skip(t, e[2]) IN
            CASE Sym(t, j) = bracket -> {<<Tree(type, <<e[1]>>), j + 1>>}
              [] Sym(t, j) = "," ->
                    {<<Tree(type, <<e[1]>> \o r[1].kids), r[2]>> : r \in EntriesAt(t, j + 1, type)}
              [] OTHER -> {}
    IN  IF Sym(t, i) = bracket THEN {<<Tree(type, <<>>), i + 1>>}
        ELSE UNION {Rest(e) : e \in EntryAt(t, i, type)}

Meaning(t) == {r[1] : r \in {q \in ValueAt(t, 1) : Skip(t, q[2]) > Len(t)}}

-----------------------------------------------------------------------------

RECURSIVE Made(_)
Made(k) ==
    [type |-> nodes[k].type,
     size |-> nodes[k].count,
     kids |-> [j \in DOMAIN nodes[k].kids |-> Made(nodes[k].kids[j])]]

Characters == SelectSeq(text, LAMBDA b : b # EOF)

\* What json_parse returns is what the text means: the values of every array and
\* object in their order and none missing, every string with the length of its
\* characters; and a text it refuses means nothing, nor does what it has read of
\* it with one more character.
ReadsTheLanguage ==
    /\ pass = "read" => Made(1) \in Meaning(Characters)
    /\ ending = "refused" =>
          /\ Meaning(Characters) = {}
          /\ \A b \in Symbols :
                Len(Characters) = Len(text) => Meaning(Append(Characters, b)) = {}

=============================================================================
