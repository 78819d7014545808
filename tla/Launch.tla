------------------------------- MODULE Launch --------------------------------
(* Programs started beside the one that runs: launch of the practice processor *)
(* (processors/nositu/launcher.c), launch_vis (vis.c) and launch of evfork.c. *)
(* The three share their text but for what a child does when exec fails. The  *)
(* program is one process; what it starts are its children. Of the kernel:    *)
(* fork, exec, exit, and waitpid, with SA_NOCLDWAIT set or not.               *)
EXTENDS Integers, Sequences, FiniteSets

CONSTANTS
    Pids,           \* the children there may be
    Commands,       \* the command lines, as sequences of "c", " " and "tab"
    NIL

ASSUME LaunchAssumption ==
    /\ NIL \notin Pids
    /\ Commands \subseteq Seq({"c", " ", "tab"})

VARIABLES
    kind,           \* "launcher", "vis" or "evfork"
    sync,           \* LIBSITU_SYNC is set
    nocldwait,     \* SA_NOCLDWAIT is set for SIGCLD
    host,           \* the program: "computing", "reaping", "ended"
    child,          \* what each child is
    code,           \* what it exited with
    waitfor,        \* the child rye is called with
    argv, room      \* tokens of the last command line, and the pointers in it

launchVars == <<kind, sync, nocldwait, host, child, code, waitfor, argv, room>>

Kinds == {"launcher", "vis", "evfork"}
Codes == {"0", "1", "signal"}
Living == {"forked", "consumer", "copy"}

-----------------------------------------------------------------------------
(* tokenize and the array it fills.                                         *)

\* The words of s between spaces, and the pointer that ends them.
WordBegins(s, k) == s[k] # " " /\ (k = 1 \/ s[k - 1] = " ")
WordAt(s, k) ==
    SubSeq(s, k, CHOOSE j \in k .. Len(s) :
                    /\ \A l \in k .. j : s[l] # " "
                    /\ j = Len(s) \/ s[j + 1] = " ")
tokenize(s) ==
    LET words[k \in 0 .. Len(s)] ==
            IF k = 0 THEN <<>>
            ELSE IF WordBegins(s, k) THEN Append(words[k - 1], WordAt(s, k))
            ELSE words[k - 1]
    IN  Append(words[Len(s)], NIL)

isspace(c) == c \in {" ", "tab"}
RoomShort(s) == Cardinality({k \in DOMAIN s : isspace(s[k])})   \* mutant: no + 1
Room(s) == Cardinality({k \in DOMAIN s : isspace(s[k])}) + 1

-----------------------------------------------------------------------------

LaunchInit ==
    /\ kind \in Kinds
    /\ sync \in BOOLEAN
    /\ nocldwait = FALSE
    /\ host = "computing"
    /\ child = [p \in Pids |-> "none"]
    /\ code = [p \in Pids |-> "0"]
    /\ waitfor = NIL
    /\ argv = <<>> /\ room = 0

LaunchLeavesZombies(cmd) ==         \* mutant: ignore_children is not called
    /\ host = "computing"
    /\ \E p \in Pids :
          /\ child[p] = "none"
          /\ child' = [child EXCEPT ![p] = "forked"]
          /\ host' = "reaping" /\ waitfor' = p
    /\ UNCHANGED <<kind, sync, nocldwait, code, argv, room>>

\* Up to the fork. Without a child evfork's program aborts, the others return.
launch(cmd) ==
    /\ host = "computing"
    /\ nocldwait' = (nocldwait \/ ~sync)
    /\ IF kind = "launcher" THEN argv' = tokenize(cmd) /\ room' = Room(cmd)
       ELSE UNCHANGED <<argv, room>>
    /\ \/ \E p \in Pids :
             /\ child[p] = "none"
             /\ child' = [child EXCEPT ![p] = "forked"]
             /\ host' = "reaping" /\ waitfor' = p
       \/ /\ host' = IF kind = "evfork" THEN "ended" ELSE "computing"
          /\ UNCHANGED <<child, waitfor>>
    /\ UNCHANGED <<kind, sync, code>>

\* A child that cannot exec aborts, or returns from launch: it is the program
\* a second time from there on.
ChildExec(p) ==
    /\ child[p] = "forked"
    /\ \/ child' = [child EXCEPT ![p] = "consumer"] /\ UNCHANGED code
       \/ /\ kind # "evfork"
          /\ child' = [child EXCEPT ![p] = "copy"]
          /\ UNCHANGED code
       \/ /\ kind = "evfork"
          /\ child' = [child EXCEPT ![p] = IF nocldwait THEN "gone" ELSE "zombie"]
          /\ code' = [code EXCEPT ![p] = "signal"]
    /\ UNCHANGED <<kind, sync, nocldwait, host, waitfor, argv, room>>

ChildExit(p, c) ==
    /\ child[p] \in {"consumer", "copy"}
    /\ child' = [child EXCEPT ![p] = IF nocldwait THEN "gone" ELSE "zombie"]
    /\ code' = [code EXCEPT ![p] = c]
    /\ UNCHANGED <<kind, sync, nocldwait, host, waitfor, argv, room>>

\* waitpid_err: a child that exited with a code other than 0 ends the program.
waitpid_err(c) == host' = IF c = "1" THEN "ended" ELSE "computing"

Reaped(p) == child' = [child EXCEPT ![p] = "gone"] /\ waitpid_err(code[p])

reap_syncForgives ==                \* mutant: WEXITSTATUS is not looked at
    /\ host = "reaping" /\ sync
    /\ child[waitfor] = "zombie"
    /\ child' = [child EXCEPT ![waitfor] = "gone"]
    /\ host' = "computing"
    /\ UNCHANGED <<kind, sync, nocldwait, code, waitfor, argv, room>>

reap_sync ==
    /\ host = "reaping" /\ sync
    /\ child[waitfor] = "zombie"
    /\ Reaped(waitfor)
    /\ UNCHANGED <<kind, sync, nocldwait, code, waitfor, argv, room>>

\* Any child, if one has ended. When none has, waitpid leaves status as it was,
\* uninitialized, and any exit code may be read from it.
reap ==
    /\ host = "reaping" /\ ~sync
    /\ \/ \E p \in Pids : child[p] = "zombie" /\ Reaped(p)
       \/ /\ \A p \in Pids : child[p] # "zombie"
          /\ \/ (\E p \in Pids : child[p] \in Living) /\ \E c \in Codes : waitpid_err(c)
             \/ (\A p \in Pids : child[p] \notin Living) /\ waitpid_err("0")
          /\ UNCHANGED child
    /\ UNCHANGED <<kind, sync, nocldwait, code, waitfor, argv, room>>

LaunchNext ==
    \/ \E cmd \in Commands : launch(cmd)
    \/ \E p \in Pids : ChildExec(p) \/ \E c \in Codes : ChildExit(p, c)
    \/ reap_sync \/ reap

LaunchSpec == LaunchInit /\ [][LaunchNext]_launchVars

-----------------------------------------------------------------------------

\* practice.c:6-7, "if set, then consuming is synchronous with production": the
\* program does not compute while anything it has started is alive, be it a
\* consumer or, after a failed exec, a copy of itself.
ConsumesInStep ==
    sync /\ host = "computing" => \A p \in Pids : child[p] \notin Living

\* "ignore children, to prevent zombies": back in the program, none of its
\* children is a zombie, whether it waits for them or ignores them.
NoZombies == host = "computing" => \A p \in Pids : child[p] # "zombie"

\* A program back from launch leaves behind neither a consumer it was to wait for
\* nor a zombie (launch and rye of launcher.c, vis.c and evfork.c).
ChildrenTended == ConsumesInStep /\ NoZombies

\* "bailing due to child failure": a program that waits for its consumers does
\* not go on after one that failed, and never starts another.
StopsAtFailure ==
    sync /\ host # "ended" =>
       \A p \in Pids : child[p] = "gone" => code[p] # "1"

\* launcher.c:117, argv "is big enough to hold all of the given tokens": it is,
\* but not always for the NULL after them, the one pointer written beyond.
TokensFit == argv # <<>> => Len(argv) - 1 <= room

=============================================================================
