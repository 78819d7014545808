----------------------------- MODULE SimpleSitu -----------------------------
(***************************************************************************)
(* The stdio interposer (simplesitu.c) over the processor table of Fproc.   *)
(*                                                                         *)
(* fopen, fwrite and fclose are one thread's calls, but they nest: the       *)
(* hooks they call belong to processing libraries, which are free to use    *)
(* stdio themselves and then run through the same interposer and the same   *)
(* table of open files.  The stack holds the interposed calls in progress;  *)
(* a call is two steps, one up to its dispatch loop and one after it, and    *)
(* whatever the hooks do happens in between.                                *)
(***************************************************************************)
EXTENDS Fproc, Integers

CONSTANTS
    MAX_FILES,   \* the size of the table of open files
    FPs,         \* the FILE* addresses libc hands out
    Tmp,         \* the names that begin with "/tmp"
    Reentrant,   \* the hooks whose code may use stdio, or exit
    OpensFail,   \* whether libc's fopen may fail on a name of interest
    MaxDepth     \* bound on nested interposed calls

Slot == 1..MAX_FILES

App == 0
Caller == {App} \cup Entry

Dispatched == {"file", "exec", "finish"}

ASSUME SimpleSituAssumption ==
    /\ MAX_FILES \in Nat \ {0}
    /\ NULL \notin FPs /\ NULL \notin Caller
    /\ Tmp \subseteq Name
    /\ Reentrant \subseteq Dispatched
    /\ OpensFail \in BOOLEAN
    /\ MaxDepth \in Nat \ {0}

VARIABLES
    files,  \* the table: the name and the FILE* of each slot
    open,   \* libc: the file each live FILE* writes, NULL for a free address
    owner,  \* who was given the FILE* and has not closed it
    stack,  \* the interposed calls in progress, innermost last
    live    \* per name, the file() dispatches less the finish() dispatches

situVars == <<files, open, owner, stack, live>>
vars == <<fprocVars, situVars>>

NoFile == [name |-> NULL, fp |-> NULL]

(***************************************************************************)
(* An interposed call inside its dispatch loop: the hook it calls, its own   *)
(* table slot, the name it passes on, the FILE* it is about, who called it   *)
(* and the entries whose hook has yet to return.                            *)
(***************************************************************************)
Frame ==
    [hook : Dispatched, slot : Slot, name : Name, fp : FPs \cup {NULL},
     who : Caller, todo : SUBSET Entry]

SituTypeOK ==
    /\ FprocTypeOK
    /\ files \in [Slot -> [name : Name \cup {NULL}, fp : FPs \cup {NULL}]]
    /\ open \in [FPs -> Name \cup {NULL}]
    /\ owner \in [FPs -> Caller \cup {NULL}]
    /\ stack \in Seq(Frame)
    /\ live \in [Name -> Int]

SituInit ==
    /\ files = [s \in Slot |-> NoFile]
    /\ open = [fp \in FPs |-> NULL]
    /\ owner = [fp \in FPs |-> NULL]
    /\ stack = <<>>
    /\ live = [n \in Name |-> 0]

Init == FprocInit /\ SituInit

-----------------------------------------------------------------------------
(* Who may call. *)

Top == stack[Len(stack)]

(* e is the entry whose hook the loop of frame f is in. *)
InHook(f, e) == e \in f.todo /\ \A d \in f.todo : e <= d

(***************************************************************************)
(* Between interposed calls the program runs, or, while the symbiont is     *)
(* being unloaded, the destructor of the library dlclose is closing.        *)
(* Inside one, the hook runs.                                               *)
(***************************************************************************)
Active(c) ==
    \/ stack = <<>> /\ c = App /\ phase \in {"running", "done"}
    \/ stack = <<>> /\ c = i /\ phase = "closing"
    \/ stack # <<>> /\ Top.hook \in Reentrant /\ InHook(Top, c)

Push(f) == Len(stack) < MaxDepth /\ stack' = Append(stack, f)
Pop == stack' = SubSeq(stack, 1, Len(stack) - 1)

(***************************************************************************)
(* No caller closes a FILE* that an fwrite further out is still writing.    *)
(***************************************************************************)
Busy(fp) == \E k \in 1..Len(stack) : stack[k].hook = "exec" /\ stack[k].fp = fp

-----------------------------------------------------------------------------
(* of_find with fp_of: the first slot that holds fp, NULL for an empty one. *)

FindsFirstSlot(s, fp) ==    \* mutant of Finds: an empty slot is not looked for
    IF fp = NULL THEN s = 1
    ELSE files[s].fp = fp /\ \A t \in 1..(s - 1) : files[t].fp # fp

Finds(s, fp) == files[s].fp = fp /\ \A t \in 1..(s - 1) : files[t].fp # fp

NotFound(fp) == \A s \in Slot : files[s].fp # fp

-----------------------------------------------------------------------------
(* fopen *)

Ignored(name, mode) == mode = "r" \/ name \in Tmp \/ ~matches(name)

(* Passed to libc: by policy, or because the table is full. *)
FopenUntracked(c, name, mode) ==
    /\ Active(c)
    /\ Ignored(name, mode) \/ NotFound(NULL)
    /\ \E fp \in FPs :
        /\ open[fp] = NULL
        /\ open' = [open EXCEPT ![fp] = name]
        /\ owner' = [owner EXCEPT ![fp] = c]
    /\ UNCHANGED <<fprocVars, files, stack, live>>

(* The slot is filled from libc's answer, then the file() hooks are called.  *)
(* A failed open empties the slot again and calls them all the same.        *)
FopenTracked(c, name) ==
    /\ Active(c)
    /\ ~Ignored(name, "w")
    /\ \E s \in Slot, fp \in FPs \cup {NULL} :
        /\ Finds(s, NULL)
        /\ IF fp = NULL
           THEN /\ OpensFail
                /\ files' = [files EXCEPT ![s] = NoFile]
                /\ UNCHANGED <<open, live>>
           ELSE /\ open[fp] = NULL
                /\ files' = [files EXCEPT ![s] = [name |-> name, fp |-> fp]]
                /\ open' = [open EXCEPT ![fp] = name]
                /\ live' = [live EXCEPT ![name] = @ + 1]
        /\ Push([hook |-> "file", slot |-> s, name |-> name, fp |-> fp,
                 who |-> c, todo |-> Called("file", name)])
    /\ UNCHANGED <<fprocVars, owner>>

(* return of->fp: the slot is read again after the hooks. *)
FopenReturn ==
    /\ stack # <<>> /\ Top.hook = "file" /\ Top.todo = {}
    /\ owner' = [fp \in FPs |-> IF fp = files[Top.slot].fp THEN Top.who ELSE owner[fp]]
    /\ Pop
    /\ UNCHANGED <<fprocVars, files, open, live>>

-----------------------------------------------------------------------------
(* fwrite of a stream that is in the table; of any other stream it changes   *)
(* nothing here.                                                            *)

Fwrite(c, fp) ==
    /\ Active(c) /\ owner[fp] = c
    /\ \E s \in Slot :
        /\ Finds(s, fp)
        /\ Push([hook |-> "exec", slot |-> s, name |-> files[s].name, fp |-> fp,
                 who |-> c, todo |-> Called("exec", files[s].name)])
    /\ UNCHANGED <<fprocVars, files, open, owner, live>>

FwriteReturn ==
    /\ stack # <<>> /\ Top.hook = "exec" /\ Top.todo = {}
    /\ Pop
    /\ UNCHANGED <<fprocVars, files, open, owner, live>>

-----------------------------------------------------------------------------
(* fclose *)

(* libc's fclose: the address may be handed out again at once. *)
LibcClose(fp) ==
    /\ open' = [open EXCEPT ![fp] = NULL]
    /\ owner' = [owner EXCEPT ![fp] = NULL]

FcloseUntracked(c, fp) ==
    /\ Active(c) /\ owner[fp] = c /\ ~Busy(fp)
    /\ NotFound(fp)
    /\ LibcClose(fp)
    /\ UNCHANGED <<fprocVars, files, stack, live>>

Finishing(c, fp, s) ==
    /\ live' = [live EXCEPT ![files[s].name] = @ - 1]
    /\ Push([hook |-> "finish", slot |-> s, name |-> files[s].name, fp |-> fp,
             who |-> c, todo |-> Called("finish", files[s].name)])

(* The stream is closed, then the finish() hooks are called; the slot keeps  *)
(* the dead FILE* until they have returned.                                 *)
FcloseTracked(c, fp) ==
    /\ Active(c) /\ owner[fp] = c /\ ~Busy(fp)
    /\ \E s \in Slot : Finds(s, fp) /\ Finishing(c, fp, s)
    /\ LibcClose(fp)
    /\ UNCHANGED <<fprocVars, files>>

FcloseReturnKeepsSlot ==    \* mutant of FcloseReturn: of->fp is not reset
    /\ stack # <<>> /\ Top.hook = "finish" /\ Top.todo = {}
    /\ Pop
    /\ UNCHANGED <<fprocVars, files, open, owner, live>>

FcloseReturn ==
    /\ stack # <<>> /\ Top.hook = "finish" /\ Top.todo = {}
    /\ files' = [files EXCEPT ![Top.slot] = NoFile]
    /\ Pop
    /\ UNCHANGED <<fprocVars, open, owner, live>>

-----------------------------------------------------------------------------
(* The dispatch loops, and the end of the process. *)

HookReturn ==
    /\ stack # <<>>
    /\ \E e \in Entry :
        /\ InHook(Top, e)
        /\ stack' = [stack EXCEPT ![Len(stack)].todo = @ \ {e}]
    /\ UNCHANGED <<fprocVars, files, open, owner, live>>

(* exit() from the program: the destructors run. *)
Exit ==
    /\ stack = <<>>
    /\ UnloadBegin
    /\ UNCHANGED situVars

(* exit() from inside a hook: the calls in progress are abandoned. *)
ExitInHook ==
    /\ stack # <<>> /\ Top.hook \in Reentrant /\ Top.todo # {}
    /\ UnloadBegin
    /\ stack' = <<>>
    /\ UNCHANGED <<files, open, owner, live>>

(* The loader and the unloader run only between interposed calls. *)
Loader ==
    /\ stack = <<>>
    /\ Load \/ Unload
    /\ UNCHANGED situVars

Calls ==
    \E c \in Caller :
        \/ \E n \in Name, mode \in {"r", "w"} : FopenUntracked(c, n, mode)
        \/ \E n \in Name : FopenTracked(c, n)
        \/ \E fp \in FPs : Fwrite(c, fp) \/ FcloseUntracked(c, fp) \/ FcloseTracked(c, fp)

Returns == FopenReturn \/ FwriteReturn \/ FcloseReturn \/ HookReturn

Next == Calls \/ Returns \/ Exit \/ ExitInHook \/ Loader

Spec == Init /\ [][Next]_vars

-----------------------------------------------------------------------------
(* Properties. *)

IsFinishing(s) ==
    \E k \in 1..Len(stack) : stack[k].hook = "finish" /\ stack[k].slot = s

(***************************************************************************)
(* simplesitu.c:30-32, "This table maps FILE*s to filenames": no FILE* has   *)
(* two slots, and the slot of a stream names the file the stream writes,     *)
(* unless that slot is in the middle of its own fclose.                     *)
(***************************************************************************)
TableIsMap ==
    /\ \A s, t \in Slot : files[s].fp = files[t].fp /\ files[s].fp # NULL => s = t
    /\ \A s \in Slot :
        files[s].fp # NULL /\ ~IsFinishing(s) => open[files[s].fp] = files[s].name

(***************************************************************************)
(* fopen returns the stream of the very file it was asked for, NULL if libc  *)
(* could not open it, although it reads the slot again after hooks that may  *)
(* themselves have opened, closed and exited (simplesitu.c:116-132).         *)
(***************************************************************************)
ReturnRight ==
    \A k \in 1..Len(stack) :
        stack[k].hook = "file" =>
            /\ files[stack[k].slot].fp = stack[k].fp
            /\ stack[k].fp # NULL => open[stack[k].fp] = stack[k].name

(***************************************************************************)
(* The string passed to exec() and finish() hooks stays allocated for the    *)
(* whole loop: the slot that owns it keeps it (simplesitu.c:144, 166-169).   *)
(***************************************************************************)
NameAlive ==
    \A k \in 1..Len(stack) :
        stack[k].hook \in {"exec", "finish"} =>
            /\ files[stack[k].slot].name = stack[k].name
            /\ files[stack[k].slot].fp = stack[k].fp

(***************************************************************************)
(* The two together: a slot of the table and the file behind it stay one,    *)
(* for whoever looks the stream up and for the calls that hold the slot.     *)
(***************************************************************************)
FilesKept == TableIsMap /\ NameAlive

(***************************************************************************)
(* Every stream that file() announced is finished exactly once: the streams  *)
(* announced and not finished are those in the table, less those in the      *)
(* middle of their finish() loop.                                           *)
(***************************************************************************)
Balanced ==
    \A n \in Name :
        live[n] = Cardinality({s \in Slot : files[s].name = n /\ ~IsFinishing(s)})

(***************************************************************************)
(* No hook is called, at any depth of nesting and in any phase, whose        *)
(* library is no longer mapped.                                             *)
(***************************************************************************)
CalledMapped ==
    \A k \in 1..Len(stack) : \A e \in stack[k].todo : Mapped(tlibs[e].lib)

(***************************************************************************)
(* The two together: a call in progress, up to the exit that abandons it,    *)
(* has a name to pass to its hooks, and hooks to pass it to.                *)
(***************************************************************************)
CallsSafe == SituTypeOK /\ CalledMapped

(***************************************************************************)
(* freeprocessor.adoc:226-227: finish is "invoked when the instrumented      *)
(* program will no longer utilize a given stream", the place to 'delete' the *)
(* stream's object: it is not invoked for a stream that is already in it.    *)
(***************************************************************************)
FinishNotNested ==
    \A k, m \in 1..Len(stack) :
        /\ stack[k].hook = "finish" /\ stack[m].hook = "finish"
        /\ stack[k].slot = stack[m].slot
        => k = m

-----------------------------------------------------------------------------
(* The interposer as a Tee. *)

Streamed == {<<files[s].fp, files[s].name>> : s \in {t \in Slot : files[t].fp # NULL}}

Told(f) == [hook |-> f.hook, handle |-> f.fp, name |-> f.name, todo |-> f.todo]
InProgress == [k \in 1..Len(stack) |-> Told(stack[k])]

Stdio == INSTANCE Tee WITH
    Names <- Name, Handles <- FPs, Processors <- Entry,
    stage <- Stage, listens <- Listening, on <- Streamed, calls <- InProgress

(***************************************************************************)
(* freeprocessor.adoc's contract of file, exec and finish, kept by fopen,    *)
(* fwrite and fclose (simplesitu.c:104-171) under nesting: each stream is    *)
(* announced, streamed under its own name and finished once, in this order   *)
(* and to the same processors, although its FILE* may be handed out again.   *)
(***************************************************************************)
StreamsTeed == Stdio!TeeSpec

=============================================================================
