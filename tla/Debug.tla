-------------------------------- MODULE Debug --------------------------------
(* Debug channels (debug.c): symb_parse_options reads LIBSITU_DEBUG for one    *)
(* channel, "name=+class,-class;name2=..."; an option is a step. A name of a   *)
(* channel or a class is written in full, is longer than it need be ("more"),  *)
(* or is another. No list is empty or ends with a comma: the class would be    *)
(* read past the end of the string (debug.c:106).                            *)
EXTENDS Integers, Sequences, FiniteSets

CONSTANTS
    Settings        \* bound: the values of LIBSITU_DEBUG, as lists of channels

Classes == {"err", "warn", "trace", "fixme"}
Option == [sign : {"+", "-", ""}, class : Classes \cup {"other"}]

ASSUME DebugAssumption ==
    \A s \in Settings :
        /\ s \in Seq([name : {"exact", "more", "other"}, equals : BOOLEAN, list : Seq(Option)])
        /\ \A k \in DOMAIN s : s[k].equals => s[k].list # <<>>

VARIABLES
    setting,
    chan,       \* the channel's place in setting, beyond its end at last
    olist,      \* the option's place in the channel's list
    chflags       \* the classes that are enabled: bits 0 to 3

debugVars == <<setting, chan, olist, chflags>>

DEFAULT_CHFLAGS == {"err", "warn", "fixme"}

DebugInit ==
    /\ setting \in Settings
    /\ chan = 1 /\ olist = 1
    /\ chflags = DEFAULT_CHFLAGS

\* The bits 1U << name_class may set. For a name that is no class it shifts by
\* 64, which is undefined: no bit, or bit 0 where the machine takes 64 modulo 32.
name_class(class) == IF class \in Classes THEN {{class}} ELSE {{}, {"err"}}

Here == chan <= Len(setting)

\* strncmp over the length of the channel's name: a longer name matches too.
\* Without an equals sign there are no options.
Named == setting[chan].name \in {"exact", "more"} /\ setting[chan].equals
Left == olist <= Len(setting[chan].list)

SetOptionToggles ==                 \* mutant: += and -= would carry
    /\ Here /\ Named /\ Left
    /\ LET o == setting[chan].list[olist] IN
       \E bits \in name_class(o.class) :
          chflags' = CASE o.sign = "+" -> (chflags \ bits) \cup (bits \ chflags)
                     [] o.sign = "-" -> chflags \ bits
                     [] OTHER -> chflags
    /\ olist' = olist + 1
    /\ UNCHANGED <<setting, chan>>

SetOption ==
    /\ Here /\ Named /\ Left
    /\ LET o == setting[chan].list[olist] IN
       \E bits \in name_class(o.class) :
          chflags' = CASE o.sign = "+" -> chflags \cup bits
                     [] o.sign = "-" -> chflags \ bits
                     [] OTHER -> chflags
    /\ olist' = olist + 1
    /\ UNCHANGED <<setting, chan>>

NextChannel ==
    /\ Here /\ ~(Named /\ Left)
    /\ chan' = chan + 1
    /\ olist' = 1
    /\ UNCHANGED <<setting, chflags>>

DebugNext == SetOption \/ NextChannel

DebugSpec == DebugInit /\ [][DebugNext]_debugVars

-----------------------------------------------------------------------------

\* The options, as <<channel, option>>; the signed ones given for class.
Options == UNION {{<<k, o>> : o \in DOMAIN setting[k].list} : k \in DOMAIN setting}
Given(class) ==
    {x \in Options :
        /\ setting[x[1]].name # "other" /\ setting[x[1]].equals
        /\ setting[x[1]].list[x[2]].class = class
        /\ setting[x[1]].list[x[2]].sign # ""}
Later(x, y) == x[1] > y[1] \/ (x[1] = y[1] /\ x[2] >= y[2])

\* debug.h:8-11: the last option that names a class decides it, over all lists
\* given for the channel, and a class nobody names is as it was. Names that
\* are no class may disturb errors, and nothing else.
LastWordDecides ==
    ~Here =>
      \A class \in Classes :
         (class = "err" => Given("other") = {}) =>
            (class \in chflags <=>
               IF Given(class) = {} THEN class \in DEFAULT_CHFLAGS
               ELSE \E x \in Given(class) :
                       /\ \A y \in Given(class) : Later(x, y)
                       /\ setting[x[1]].list[x[2]].sign = "+")

=============================================================================
