------------------------------ MODULE PosixSitu ------------------------------
(***************************************************************************)
(* The POSIX interposer (posix.c) over the processor table of Fproc.        *)
(*                                                                         *)
(* Like the stdio interposer it is one thread whose calls nest through the   *)
(* hooks; unlike it, it keeps its slot in step with the descriptor (filled   *)
(* before file(), emptied after finish() and before the descriptor is        *)
(* closed) and repeats partial writes itself.  A slot whose fd is 0 is       *)
(* empty, so descriptor 0 cannot be in the table.                           *)
(***************************************************************************)
EXTENDS Fproc, Integers

CONSTANTS
    MAX_FILES,   \* the size of the table of open files
    MaxFd,       \* bound on the descriptors
    Tty,         \* the name of what descriptor 0 is open on at the start
    Outside,     \* the names below /tmp and /dev
    Environments,  \* what the program may be run in, see Environment
    MaxDepth,    \* bound on nested interposed calls
    MaxBytes     \* bound on the bytes written to one descriptor

Slot == 1..MAX_FILES
FD == 0..MaxFd

(***************************************************************************)
(* fds: the kernel hands out descriptors up to this one; opens, sizes: the    *)
(* names that are opened and the sizes of writes; faults: what writes may    *)
(* meet; stdin: whether anybody writes to descriptor 0; bypass: whether a    *)
(* descriptor may be closed without close().                                *)
(***************************************************************************)
Environment ==
    [fds : FD, opens : SUBSET Name, sizes : SUBSET (Nat \ {0}),
     faults : SUBSET {"partial", "error"}, stdin : BOOLEAN, bypass : BOOLEAN]

App == 0
Caller == {App} \cup Entry

Dispatched == {"file", "exec", "finish"}

ASSUME PosixSituAssumption ==
    /\ MAX_FILES \in Nat \ {0} /\ MaxFd \in Nat
    /\ Tty \in Name /\ Outside \subseteq Name
    /\ Environments \subseteq Environment
    /\ MaxDepth \in Nat \ {0} /\ MaxBytes \in Nat
    /\ NULL \notin Caller

VARIABLES
    env,          \* the environment of this run of the program
    posix_files,  \* the table: the name and the descriptor of each slot
    kernel,       \* the file behind each descriptor, NULL for a free one
    owner,        \* who was given the descriptor and has not closed it
    stack,        \* the interposed calls in progress, innermost last
    bytes         \* per descriptor: streamed to exec, taken by the kernel,
                  \* reported to the program

posixVars == <<env, posix_files, kernel, owner, stack, bytes>>
vars == <<fprocVars, posixVars>>

NoFile == [name |-> NULL, fd |-> 0]
NoBytes == [streamed |-> 0, taken |-> 0, told |-> 0]

(* An interposed call in its dispatch loop or, in write, past it. *)
Frame ==
    [hook : Dispatched, slot : Slot, name : Name \cup {NULL}, fd : FD,
     todo : SUBSET Entry, sz : Nat, written : Nat]

PosixTypeOK ==
    /\ FprocTypeOK
    /\ env \in Environments
    /\ posix_files \in [Slot -> [name : Name \cup {NULL}, fd : FD]]
    /\ kernel \in [FD -> Name \cup {NULL}]
    /\ owner \in [FD -> Caller \cup {NULL}]
    /\ stack \in Seq(Frame)
    /\ bytes \in [FD -> [streamed : Nat, taken : Nat, told : Nat]]

Init ==
    /\ FprocInit
    /\ env \in Environments
    /\ posix_files = [s \in Slot |-> NoFile]
    /\ kernel = [fd \in FD |-> IF fd = 0 THEN Tty ELSE NULL]
    /\ owner = [fd \in FD |-> IF fd = 0 THEN App ELSE NULL]
    /\ stack = <<>>
    /\ bytes = [fd \in FD |-> NoBytes]

-----------------------------------------------------------------------------

Top == stack[Len(stack)]

(* e is the entry whose hook the loop of frame f is in. *)
InHook(f, e) == e \in f.todo /\ \A d \in f.todo : e <= d

(* The program, or the destructor of the library being closed, or a hook. *)
Active(c) ==
    \/ stack = <<>> /\ c = App /\ phase \in {"running", "done"}
    \/ stack = <<>> /\ c = i /\ phase = "closing"
    \/ stack # <<>> /\ InHook(Top, c)

Push(f) == Len(stack) < MaxDepth /\ stack' = Append(stack, f)
Pop == stack' = SubSeq(stack, 1, Len(stack) - 1)

Call(hook, s, name, fd, sz) ==
    [hook |-> hook, slot |-> s, name |-> name, fd |-> fd,
     todo |-> Called(hook, name), sz |-> sz, written |-> 0]

(* The descriptor is c's, and no write further out is in the middle of it. *)
Uses(c, fd) ==
    /\ owner[fd] = c
    /\ \A k \in 1..Len(stack) : stack[k].fd # fd

(* ofposix_find with fd_of: the first slot that holds fd, 0 for an empty one. *)
Finds(s, fd) == posix_files[s].fd = fd /\ \A t \in 1..(s - 1) : posix_files[t].fd # fd

NotFound(fd) == \A s \in Slot : posix_files[s].fd # fd

(* POSIX: open returns the lowest descriptor that is free. *)
Lowest(fd) ==
    fd <= env.fds /\ kernel[fd] = NULL /\ \A q \in 0..(fd - 1) : kernel[q] # NULL

(***************************************************************************)
(* open.  O_RDONLY is 0, so 'flags & O_RDONLY' ignores no open at all and    *)
(* the policy depends on the name alone.  A failing open changes nothing.    *)
(***************************************************************************)
Ignored(name) == ~matches(name) \/ name \in Outside

KernelOpen(c, fd, name) ==
    /\ Lowest(fd)
    /\ kernel' = [kernel EXCEPT ![fd] = name]
    /\ owner' = [owner EXCEPT ![fd] = c]
    /\ bytes' = [bytes EXCEPT ![fd] = NoBytes]

(* Ignored by policy, taken for a failure (descriptor 0), or no slot left. *)
OpenUntracked(c, name) ==
    /\ Active(c)
    /\ \E fd \in FD :
        /\ Ignored(name) \/ fd = 0 \/ NotFound(0)
        /\ KernelOpen(c, fd, name)
    /\ UNCHANGED <<fprocVars, env, posix_files, stack>>

OpenTracked(c, name) ==
    /\ Active(c) /\ ~Ignored(name)
    /\ \E fd \in FD \ {0}, s \in Slot :
        /\ Finds(s, 0)
        /\ KernelOpen(c, fd, name)
        /\ posix_files' = [posix_files EXCEPT ![s] = [name |-> name, fd |-> fd]]
        /\ Push(Call("file", s, name, fd, 0))
    /\ UNCHANGED <<fprocVars, env>>

OpenReturn ==
    /\ stack # <<>> /\ Top.hook = "file" /\ Top.todo = {}
    /\ Pop
    /\ UNCHANGED <<fprocVars, env, posix_files, kernel, owner, bytes>>

-----------------------------------------------------------------------------
(* write: exec() sees the whole buffer once, then the buffer is written.     *)
(* Writes to a descriptor that is not in the table change nothing here.      *)

Write(c, fd, sz) ==
    /\ Active(c) /\ Uses(c, fd)
    /\ fd = 0 => env.stdin
    /\ bytes[fd].streamed + sz <= MaxBytes
    /\ \E s \in Slot :
        /\ Finds(s, fd)
        /\ Push(Call("exec", s, posix_files[s].name, fd, sz))
    /\ bytes' = [bytes EXCEPT ![fd].streamed = @ + sz]
    /\ UNCHANGED <<fprocVars, env, posix_files, kernel, owner>>

InWrite == stack # <<>> /\ Top.hook = "exec" /\ Top.todo = {}

(* One writef that takes n bytes; after EINTR, which takes none, the loop    *)
(* goes on as if nothing had happened.                                      *)
WriteSome(n) ==
    /\ InWrite /\ Top.written < Top.sz
    /\ n <= Top.sz - Top.written
    /\ "partial" \in env.faults \/ n = Top.sz - Top.written
    /\ stack' = [stack EXCEPT ![Len(stack)].written = @ + n]
    /\ bytes' = [bytes EXCEPT ![Top.fd].taken = @ + n]
    /\ UNCHANGED <<fprocVars, env, posix_files, kernel, owner>>

(* The call returns what it has written, to the program as a byte count. *)
Report(n) ==
    /\ bytes' = [bytes EXCEPT ![Top.fd].told = @ + n]
    /\ Pop
    /\ UNCHANGED <<fprocVars, env, posix_files, kernel, owner>>

(* Mutants of WriteReturn: a short write is not repeated; the loop runs once  *)
(* too often and then waits for bytes that are not there.                   *)
ReturnsShort == InWrite /\ Top.written > 0 /\ Report(Top.sz)
ReturnsLate == InWrite /\ Top.written > Top.sz /\ Report(Top.written)

WriteReturn == InWrite /\ Top.written >= Top.sz /\ Report(Top.written)

(* A hard error: -1 if nothing has been written, else the short count. *)
WriteError ==
    /\ InWrite /\ Top.written < Top.sz
    /\ "error" \in env.faults
    /\ Report(Top.written)

-----------------------------------------------------------------------------
(* close *)

KernelClose(fd) ==
    /\ kernel' = [kernel EXCEPT ![fd] = NULL]
    /\ owner' = [owner EXCEPT ![fd] = NULL]

(* Not in the table, or, for descriptor 0, an empty slot without a name. *)
CloseUntracked(c, fd) ==
    /\ Active(c) /\ Uses(c, fd)
    /\ NotFound(fd) \/ \E s \in Slot : Finds(s, fd) /\ posix_files[s].name = NULL
    /\ KernelClose(fd)
    /\ UNCHANGED <<fprocVars, env, posix_files, stack, bytes>>

CloseFreesFirst(c, fd) ==    \* mutant of CloseTracked: the slot goes before the hooks
    /\ Active(c) /\ Uses(c, fd)
    /\ \E s \in Slot :
        /\ Finds(s, fd) /\ posix_files[s].name # NULL
        /\ Push(Call("finish", s, posix_files[s].name, fd, 0))
        /\ posix_files' = [posix_files EXCEPT ![s] = NoFile]
    /\ UNCHANGED <<fprocVars, env, kernel, owner, bytes>>

CloseTracked(c, fd) ==
    /\ Active(c) /\ Uses(c, fd)
    /\ \E s \in Slot :
        /\ Finds(s, fd) /\ posix_files[s].name # NULL
        /\ Push(Call("finish", s, posix_files[s].name, fd, 0))
    /\ UNCHANGED <<fprocVars, env, posix_files, kernel, owner, bytes>>

CloseKeepsFd ==     \* mutant of CloseReturn: of->fd is not reset
    /\ stack # <<>> /\ Top.hook = "finish" /\ Top.todo = {}
    /\ posix_files' = [posix_files EXCEPT ![Top.slot].name = NULL]
    /\ KernelClose(Top.fd)
    /\ Pop
    /\ UNCHANGED <<fprocVars, env, bytes>>

CloseReturn ==
    /\ stack # <<>> /\ Top.hook = "finish" /\ Top.todo = {}
    /\ posix_files' = [posix_files EXCEPT ![Top.slot] = NoFile]
    /\ KernelClose(Top.fd)
    /\ Pop
    /\ UNCHANGED <<fprocVars, env, bytes>>

(* A descriptor closed behind the interposer's back: dup2 over it, fclose of *)
(* a stream fdopen made of it, a close inside libc.                         *)
CloseBypass(fd) ==
    /\ env.bypass /\ stack = <<>> /\ phase = "running"
    /\ fd # 0 /\ owner[fd] = App
    /\ KernelClose(fd)
    /\ UNCHANGED <<fprocVars, env, posix_files, stack, bytes>>

-----------------------------------------------------------------------------

HookReturn ==
    /\ stack # <<>>
    /\ \E e \in Entry :
        /\ InHook(Top, e)
        /\ stack' = [stack EXCEPT ![Len(stack)].todo = @ \ {e}]
    /\ UNCHANGED <<fprocVars, env, posix_files, kernel, owner, bytes>>

(* exit(), from the program or from a hook, whose calls are abandoned. *)
Exit ==
    /\ stack # <<>> => Top.todo # {}
    /\ UnloadBegin
    /\ stack' = <<>>
    /\ UNCHANGED <<env, posix_files, kernel, owner, bytes>>

Loader ==
    /\ stack = <<>>
    /\ Load \/ Unload
    /\ UNCHANGED posixVars

Calls ==
    \/ \E c \in Caller, n \in env.opens : OpenUntracked(c, n) \/ OpenTracked(c, n)
    \/ \E c \in Caller, fd \in FD :
        \/ \E sz \in env.sizes : Write(c, fd, sz)
        \/ CloseUntracked(c, fd)
        \/ CloseTracked(c, fd)
    \/ \E fd \in FD : CloseBypass(fd)

Returns ==
    \/ OpenReturn \/ WriteReturn \/ WriteError \/ CloseReturn \/ HookReturn
    \/ \E n \in 1..MaxBytes : WriteSome(n)

Next == Calls \/ Returns \/ Exit \/ Loader

Spec == Init /\ [][Next]_vars

(***************************************************************************)
(* Hooks end: at each depth a hook that can return again and again does.     *)
(* The kernel ends every write: it does not answer EINTR for ever.           *)
(***************************************************************************)
Fairness ==
    /\ \A d \in 1..MaxDepth : SF_vars(Len(stack) = d /\ HookReturn)
    /\ WF_vars(OpenReturn \/ WriteReturn \/ CloseReturn \/ \E n \in 1..MaxBytes : WriteSome(n))

FairSpec == Spec /\ Fairness

-----------------------------------------------------------------------------
(* Properties. *)

(***************************************************************************)
(* posix.c:25-28, "This table maps FILE*s to filenames" (descriptors, here): *)
(* no descriptor has two slots, and a slot's descriptor is open on the file  *)
(* the slot names, at every step of every nested call.                      *)
(***************************************************************************)
FdTableIsMap ==
    \A s \in Slot : posix_files[s].fd # 0 =>
        /\ kernel[posix_files[s].fd] = posix_files[s].name
        /\ \A t \in Slot : posix_files[t].fd = posix_files[s].fd => t = s

(***************************************************************************)
(* README.md:52-54, exec's "first argument is the exact filename": every     *)
(* call in progress passes its hooks the name of the file that is behind     *)
(* its descriptor.                                                          *)
(***************************************************************************)
ExactFilename ==
    \A k \in 1..Len(stack) :
        stack[k].name # NULL /\ stack[k].name = kernel[stack[k].fd]

(***************************************************************************)
(* The string a hook was passed is not freed under it: its slot keeps it     *)
(* until the dispatch loop is over (posix.c:115, 148-154).                  *)
(***************************************************************************)
StringKept ==
    \A k \in 1..Len(stack) : posix_files[stack[k].slot].name = stack[k].name

AtRest(fd) == \A k \in 1..Len(stack) : stack[k].fd # fd

(***************************************************************************)
(* What write has reported to the program is what the kernel has taken,      *)
(* through partial writes, interruptions and errors, so a program that       *)
(* resubmits the rest of a short write neither loses nor repeats a byte      *)
(* (posix.c:119-130).                                                       *)
(***************************************************************************)
ToldIsTaken == \A fd \in FD : AtRest(fd) => bytes[fd].told = bytes[fd].taken

(***************************************************************************)
(* posix.c:116-118: short writes are repeated inside, so that exec() sees    *)
(* every byte of the file exactly once as long as no write fails and no hook *)
(* ends the program.                                                        *)
(***************************************************************************)
StreamedOnce ==
    "error" \notin env.faults /\ phase = "running" =>
        \A fd \in FD : AtRest(fd) => bytes[fd].streamed = bytes[fd].taken

-----------------------------------------------------------------------------
(***************************************************************************)
(* The properties, each where it is to hold: the table and the names are      *)
(* exact as long as nobody closes a descriptor behind the interposer's back  *)
(* or writes to descriptor 0.                                                *)
(***************************************************************************)
Undisturbed == ~env.bypass /\ ~env.stdin

(* FdTableIsMap: a slot's descriptor is open on the file the slot names.      *)
TablesRight == PosixTypeOK /\ (Undisturbed => FdTableIsMap)

(* StringKept and ExactFilename: hooks are passed the name of the file behind *)
(* the descriptor, in a string that is not freed under them.                 *)
NamesRight == StringKept /\ (Undisturbed => ExactFilename)

(* StreamedOnce and ToldIsTaken: exec sees every byte the kernel takes, once, *)
(* and the count write reports is what the kernel took.                      *)
BytesRight == StreamedOnce /\ ToldIsTaken

(* Every interposed call returns, whatever its hooks call in turn. *)
CallsReturn == stack # <<>> ~> stack = <<>>

-----------------------------------------------------------------------------
(* The interposer as a Tee, where it is undisturbed; otherwise it is a Tee    *)
(* without streams.                                                         *)

Streamed ==
    IF ~Undisturbed THEN {}
    ELSE {<<posix_files[s].fd, posix_files[s].name>> : s \in {t \in Slot : posix_files[t].fd # 0}}

Told(f) == [hook |-> f.hook, handle |-> f.fd, name |-> f.name, todo |-> f.todo]
InProgress == IF ~Undisturbed THEN <<>> ELSE [k \in 1..Len(stack) |-> Told(stack[k])]

Descriptors == INSTANCE Tee WITH
    Names <- Name, Handles <- FD, Processors <- Entry,
    stage <- Stage, listens <- Listening, on <- Streamed, calls <- InProgress

(***************************************************************************)
(* The same contract kept by open, write and close (posix.c:68-157): each     *)
(* descriptor in the table is announced, streamed under its own name and     *)
(* finished once, in this order and to the same processors, although its     *)
(* number is handed out again.                                              *)
(***************************************************************************)
DescriptorsTeed == Descriptors!TeeSpec

=============================================================================
