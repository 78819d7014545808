--------------------------------- MODULE Tee ---------------------------------
(* What an interposer promises the processors about the streams it tees to    *)
(* them, however their own I/O nests in it. A stream is announced once its    *)
(* name is of interest to a processor; it is streamed under that name, between *)
(* the announcement and finish; it is finished once, by which nothing else is  *)
(* in progress about it; and until it exits the program's processors stay the  *)
(* same ones. SimpleSitu and PosixSitu implement this specification.          *)
EXTENDS Naturals, Sequences

CONSTANTS Names, Handles, Processors, NULL

VARIABLES
    stage,      \* whether processors are being installed, called or taken down
    listens,    \* the processors each hook is called in, per name
    on,         \* the streams announced and not finished, with their names
    calls       \* the dispatches in progress, innermost last

teeVars == <<stage, listens, on, calls>>

Hooks == {"file", "exec", "finish"}
Audience == [Hooks -> [Names -> SUBSET Processors]]
Nobody == [h \in Hooks |-> [n \in Names |-> {}]]

TeeInit == stage = "starting" /\ listens = Nobody /\ on = {} /\ calls = <<>>

Innermost == calls[Len(calls)]

\* Nothing of these hooks is in progress about the stream.
Quiet(stream, hooks) ==
    \A k \in 1 .. Len(calls) : calls[k].handle = stream => calls[k].hook \notin hooks

Dispatch(hook, stream, name) ==
    /\ stage # "starting"
    /\ calls' = Append(calls, [hook |-> hook, handle |-> stream, name |-> name,
                               todo |-> listens[hook][name]])
    /\ UNCHANGED <<stage, listens>>

-----------------------------------------------------------------------------

\* The processors are installed before the program opens a file.
Install ==
    /\ stage = "starting" /\ calls = <<>>
    /\ stage' \in {"starting", "running"}
    /\ listens' \in Audience
    /\ \A h \in Hooks, n \in Names : listens[h][n] \subseteq listens'[h][n]
    /\ UNCHANGED <<on, calls>>

Announce(stream, name) ==
    /\ listens["exec"][name] # {}
    /\ \A n \in Names : <<stream, n>> \notin on
    /\ on' = on \cup {<<stream, name>>}
    /\ Dispatch("file", stream, name)

\* An open that failed is announced all the same.
AnnounceFailed(name) ==
    /\ listens["exec"][name] # {}
    /\ Dispatch("file", NULL, name)
    /\ UNCHANGED on

Stream(stream, name) ==
    /\ <<stream, name>> \in on
    /\ Quiet(stream, {"file", "finish"})
    /\ Dispatch("exec", stream, name)
    /\ UNCHANGED on

Finish(stream, name) ==
    /\ <<stream, name>> \in on
    /\ Quiet(stream, Hooks)
    /\ Dispatch("finish", stream, name)
    /\ UNCHANGED on

\* The next processor has been called and has returned.
Heard(p) ==
    /\ calls # <<>> /\ p \in Innermost.todo /\ \A q \in Innermost.todo : p <= q
    /\ calls' = [calls EXCEPT ![Len(calls)].todo = @ \ {p}]
    /\ UNCHANGED <<stage, listens, on>>

Return ==
    /\ calls # <<>> /\ Innermost.todo = {}
    /\ calls' = SubSeq(calls, 1, Len(calls) - 1)
    /\ on' = IF Innermost.hook = "finish"
             THEN on \ {<<Innermost.handle, Innermost.name>>} ELSE on
    /\ UNCHANGED <<stage, listens>>

\* exit(), perhaps out of a processor: the dispatches in progress are abandoned.
Exit ==
    /\ stage = "running"
    /\ stage' = "ending" /\ calls' = <<>>
    /\ UNCHANGED <<listens, on>>

\* From then on nobody is called: no processor without those that came with it.
TakeDown ==
    /\ stage = "ending" /\ calls = <<>>
    /\ listens' = Nobody
    /\ UNCHANGED <<stage, on, calls>>

TeeNext ==
    \/ Install \/ Return \/ Exit \/ TakeDown
    \/ \E p \in Processors : Heard(p)
    \/ \E name \in Names :
          \/ AnnounceFailed(name)
          \/ \E stream \in Handles :
                Announce(stream, name) \/ Stream(stream, name) \/ Finish(stream, name)

TeeSpec == TeeInit /\ [][TeeNext]_teeVars

-----------------------------------------------------------------------------
(* What follows for the processors. *)

TeeTypeOK ==
    /\ listens \in Audience
    /\ on \subseteq Handles \X Names
    /\ calls \in Seq([hook : Hooks, handle : Handles \cup {NULL}, name : Names,
                     todo : SUBSET Processors])

(* A stream goes by one name until it is finished.                            *)
OneName ==
    \A stream \in Handles, n, m \in Names : {<<stream, n>>, <<stream, m>>} \subseteq on => n = m

(* Whoever is called is called about a stream that is on, by the name it was  *)
(* announced by; and only streaming it nests in streaming it: between the     *)
(* first and the last that is said of a stream there is nothing but its bytes. *)
InOrder ==
    \A k \in 1 .. Len(calls) : calls[k].handle # NULL =>
        /\ <<calls[k].handle, calls[k].name>> \in on
        /\ \A j \in 1 .. (k - 1) : calls[j].handle = calls[k].handle =>
               calls[j].hook = "exec" /\ calls[k].hook = "exec"

=============================================================================
