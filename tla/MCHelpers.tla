------------------------------ MODULE MCHelpers ------------------------------
(* What stands beside the interposers of stdio and POSIX: the HDF5 interposer; *)
(* the parser of descriptions and what is taken from them; programs started   *)
(* beside the one that runs; change notification; debug channels. One of them *)
(* takes all the steps.                                                      *)
EXTENDS H5Situ, JsonLanguage, Metadata, Launch, Watch, Debug

CONSTANTS cube, slab

VARIABLE part

Parts == {"h5", "parser", "accessors", "launch", "watch", "debug"}

MCDims == {cube, slab}
MCTypes == {"F64", "I32"}

\* Any short text; longer ones of objects, of arrays, of numbers, of strings;
\* and objects of two members.
MCSymbols == Structure \cup Numeric \cup {"u", "u3", "word"}
Made_of(t, symbols) == \A i \in DOMAIN t : t[i] \in symbols
MCMember == <<"{", "quote", "quote", ":", "0", ",">>
MCInScope(t) ==
    \/ Len(t) <= 3
    \/ Len(t) <= 4 /\ Made_of(t, MCSymbols \ {"0", "word"})
    \/ Len(t) <= 7 /\ Made_of(t, {"{", "}", "quote", ":", ",", "0"})
    \/ Len(t) <= 11 /\ Made_of(t, {"{", "}", "quote", ":", ",", "0"})
                    /\ \A i \in DOMAIN t : i <= 6 => t[i] = MCMember[i]
    \/ Len(t) <= 6 /\ \/ Made_of(t, {"[", "]", ",", "0", "{", "}"})
                      \/ Made_of(t, {"0", "1", "-", ".", "e"})
                      \/ Made_of(t, {"quote", "\\", "u3", "0"})

\* Documents of two dimensions: the fields in any of these orders, well made or
\* with a count, a type or a field that is not as it should be.
Whole(n) == [type |-> "integer", number |-> n]
Real(n) == [type |-> "double", number |-> n]
Str(s) == [type |-> "string", string |-> s]
Arr(s) == [type |-> "array", items |-> s]
Obj(names, values) == [type |-> "object", names |-> names, values |-> values]
One(v) == Obj(<<"i">>, <<v>>)

DimValues == {Arr(<<One(Whole(m)), One(Whole(n))>>) : m, n \in {-1, 0, 1, 2}} \cup
             {Arr(<<One(Whole(1))>>), Arr(<<Whole(1), One(Whole(1))>>),
              Arr(<<One(Real(1)), One(Whole(1))>>), Whole(2)}
Axes == {Arr(<<>>), Arr(<<One(Real(5))>>), Arr(<<One(Real(5)), One(Real(7))>>),
         Arr(<<One(Whole(5))>>), Real(5)}
CoordValues == {Arr(<<One(x), One(y)>>) : x, y \in Axes} \cup
               {Arr(<<One(Arr(<<>>))>>), Arr(<<Arr(<<>>), One(Arr(<<>>))>>), Str("byte")}
TypeValues == {Str("float32"), Str("char"), Str("int"), Whole(1)}

MCDocs ==
    {Obj(<<"type", "dims", "coords">>, <<t, d, c>>) :
        t \in TypeValues, d \in DimValues, c \in CoordValues} \cup
    {Obj(<<"Coords", "DIMS", "dims", "Type">>, <<c, d, Whole(0), Str("byte")>>) :
        d \in DimValues, c \in CoordValues} \cup
    {Obj(<<"dims", "type">>, <<d, Str("float64")>>) : d \in DimValues} \cup
    {Obj(<<"dims">>, <<d>>) : d \in DimValues} \cup {Arr(<<>>), Obj(<<>>, <<>>), NONE}

MCLower == [n \in {"type", "dims", "coords", "Type", "DIMS", "Coords"} |->
               CASE n = "Type" -> "type" [] n = "DIMS" -> "dims"
                 [] n = "Coords" -> "coords" [] OTHER -> n]
MCSameName(m, n) == MCLower[m] = n

MCBefore == [datatype |-> "BYTE", dims |-> <<1, 2>>, coords |-> <<<<5>>, <<5, 7>>>>]

MCCommands == UNION {[1 .. n -> {"c", " ", "tab"}] : n \in 1 .. 3}

Opt(sign, class) == [sign |-> sign, class |-> class]
MCOptions == {Opt(s, c) : s \in {"+", "-"}, c \in {"err", "trace", "other"}} \cup {Opt("", "trace")}
MCLists == {<<o>> : o \in MCOptions} \cup {<<o, p>> : o, p \in MCOptions}
MCShort == {<<Opt("+", "trace")>>, <<Opt("-", "err")>>}
Channel(n, q, l) == [name |-> n, equals |-> q, list |-> l]
MCSettings ==
    {<<Channel(m, TRUE, x), Channel(n, q, y)>> :
        m, n \in {"exact", "more", "other"}, q \in BOOLEAN, x \in MCLists, y \in MCShort}
    \cup {<<>>}

HelpersInit ==
    /\ part \in Parts
    /\ Init /\ JsonInit
    /\ IF part = "accessors" THEN MetadataInit
       ELSE js = NONE /\ md = Before /\ coords = NONE /\ stage = "type"
    /\ IF part = "debug" THEN DebugInit
       ELSE setting = <<>> /\ chan = 1 /\ olist = 1 /\ chflags = DEFAULT_CHFLAGS
    /\ IF part = "launch" THEN kind \in Kinds /\ sync \in BOOLEAN ELSE kind = "vis" /\ sync = TRUE
    /\ IF part = "watch" THEN inotify \in {-1, 3, 4} ELSE inotify = -1
    /\ LaunchInit /\ WatchInit

HelpersNext ==
    /\ UNCHANGED part
    /\ \/ /\ part = "h5" /\ Next
          /\ UNCHANGED <<jsonVars, metadataVars, launchVars, watchVars, debugVars>>
       \/ /\ part = "parser" /\ JsonNext
          /\ UNCHANGED <<vars, metadataVars, launchVars, watchVars, debugVars>>
       \/ /\ part = "accessors" /\ MetadataNext
          /\ UNCHANGED <<vars, jsonVars, launchVars, watchVars, debugVars>>
       \/ /\ part = "launch" /\ LaunchNext
          /\ UNCHANGED <<vars, jsonVars, metadataVars, watchVars, debugVars>>
       \/ /\ part = "watch" /\ WatchNext
          /\ UNCHANGED <<vars, jsonVars, metadataVars, launchVars, debugVars>>
       \/ /\ part = "debug" /\ DebugNext
          /\ UNCHANGED <<vars, jsonVars, metadataVars, launchVars, watchVars>>

helpersVars ==
    <<part, vars, jsonVars, metadataVars, launchVars, watchVars, debugVars>>

\* The thread that reads a description goes on with it.
HelpersSpec ==
    /\ HelpersInit /\ [][HelpersNext]_helpersVars
    /\ WF_helpersVars(part \in {"parser", "accessors"} /\ HelpersNext)

\* Reading a description ends, and so does freeing what it made.
ReadingEnds ==
    part \in {"parser", "accessors"} ~>
        pass = "over" \/ stage \in {"done", "aborted", "crashed"}

=============================================================================
