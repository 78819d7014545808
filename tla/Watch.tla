-------------------------------- MODULE Watch --------------------------------
(* Change notification (modified.c): one inotify queue for the process, and   *)
(* watches that put events into it. The kernel is seen through its table of   *)
(* descriptors and through inotify, which numbers watches from 1 and drops an  *)
(* event equal to the last one queued. What is watched are files: their events *)
(* have no name, and a read of one event's size gets one, neither part of it  *)
(* nor an error (modified.c:79-86), while the descriptor is inotify's.        *)
EXTENDS Integers, Sequences, FiniteSets

CONSTANTS
    Paths,          \* the files that may be watched
    FDs,            \* the descriptors there may be
    MaxWatches,     \* bound: the calls of Watch
    MaxEvents       \* bound: the events queued

ASSUME WatchAssumption ==
    /\ FDs \subseteq Nat /\ IsFiniteSet(Paths)
    /\ MaxWatches \in Nat /\ MaxEvents \in Nat

VARIABLES
    inotify,    \* the static: a descriptor, or -1
    fds,        \* what each descriptor is open on
    wd,         \* the kernel's watch of each file, 0 for none
    queue,      \* the watches of the events not read
    handles,    \* what Watch has returned, as the watch's number: wt->des
    queued,     \* events there have been
    told        \* times Modified was true

watchVars == <<inotify, fds, wd, queue, handles, queued, told>>

\* setup_inotify, in a program that has the standard descriptors open.
WatchInit ==
    /\ inotify \in (FDs \cup {-1}) \ {0, 1, 2}
    /\ fds = [f \in FDs |-> IF f = inotify THEN "inotify"
                             ELSE IF f \in {0, 1, 2} THEN "program" ELSE "free"]
    /\ wd = [p \in Paths |-> 0]
    /\ queue = <<>> /\ handles = <<>>
    /\ queued = 0 /\ told = 0

IsOpen(fd) == fd \in FDs /\ fds[fd] # "free"
Alive == inotify # -1 /\ fds[inotify] = "inotify"

\* A file watched twice has one watch. When it fails nothing is kept.
Watch(path) ==
    LET des == IF wd[path] # 0 THEN wd[path]
               ELSE 1 + Cardinality({p \in Paths : wd[p] # 0}) IN
    /\ Len(handles) < MaxWatches
    /\ IF Alive
       THEN /\ wd' = [wd EXCEPT ![path] = des]
            /\ handles' = Append(handles, des)
       ELSE UNCHANGED <<wd, handles>>
    /\ UNCHANGED <<inotify, fds, queue, queued, told>>

\* A process closes a file it has written.
Written(path) ==
    /\ Alive /\ wd[path] # 0 /\ queued < MaxEvents
    /\ IF queue # <<>> /\ queue[Len(queue)] = wd[path]
       THEN UNCHANGED <<queue, queued>>
       ELSE queue' = Append(queue, wd[path]) /\ queued' = queued + 1
    /\ UNCHANGED <<inotify, fds, wd, handles, told>>

ModifiedReadsAll(h) ==              \* mutant: a buffer for many events
    /\ h \in DOMAIN handles
    /\ handles[h] < inotify => IsOpen(handles[h])
    /\ Alive /\ queue # <<>>
    /\ queue' = <<>> /\ told' = told + 1
    /\ UNCHANGED <<inotify, fds, wd, handles, queued>>

\* select is given the watch's number as a descriptor too. It fails when that
\* or inotify is not open; else the first event is read, whichever watch it is
\* of. Where inotify's descriptor is another file's by now, that is read if it
\* can be, and whether the read succeeds, is short or fails the answer is true.
Modified(h) ==
    /\ h \in DOMAIN handles /\ told <= MaxEvents
    /\ \/ /\ handles[h] < inotify => IsOpen(handles[h])
          /\ IsOpen(inotify)
          /\ IF Alive /\ queue # <<>>
             THEN queue' = Tail(queue) /\ told' = told + 1
             ELSE /\ UNCHANGED queue
                  /\ told' \in IF Alive THEN {told} ELSE {told, told + 1}
       \/ /\ (handles[h] < inotify /\ ~IsOpen(handles[h])) \/ ~IsOpen(inotify)
          /\ UNCHANGED <<queue, told>>
    /\ UNCHANGED <<inotify, fds, wd, handles, queued>>

\* close() of the watch's number: the watch stays, and some descriptor goes.
Unwatch(h) ==
    /\ h \in DOMAIN handles
    /\ handles[h] \in FDs
    /\ fds' = [fds EXCEPT ![handles[h]] = "free"]
    /\ queue' = IF handles[h] = inotify THEN <<>> ELSE queue
    /\ handles' = SubSeq(handles, 1, h - 1) \o SubSeq(handles, h + 1, Len(handles))
    /\ UNCHANGED <<inotify, wd, queued, told>>

\* The program opens a file of its own: the least descriptor that is free.
ProgramOpens ==
    /\ \E fd \in FDs :
          /\ fds[fd] = "free"
          /\ \A f \in FDs : f < fd => fds[f] # "free"
          /\ fds' = [fds EXCEPT ![fd] = "program"]
    /\ UNCHANGED <<inotify, wd, queue, handles, queued, told>>

\* cleanup_inotify, when the process exits: no call of this module comes after.
Cleanup ==
    /\ inotify # -1
    /\ fds' = [fds EXCEPT ![inotify] = "free"]
    /\ inotify' = -1
    /\ handles' = <<>> /\ queue' = <<>>
    /\ UNCHANGED <<wd, queued, told>>

WatchNext ==
    \/ \E p \in Paths : Watch(p) \/ Written(p)
    \/ \E h \in DOMAIN handles : Modified(h) \/ Unwatch(h)
    \/ ProgramOpens \/ Cleanup

WatchSpec == WatchInit /\ [][WatchNext]_watchVars

-----------------------------------------------------------------------------

\* Every event makes one call of Modified true, whichever watch it is called
\* with: none is told twice, none is lost with another, in any order of calls
\* and closes of written files, as long as the queue's descriptor is open.
ToldOnce == Alive => told + Len(queue) = queued

=============================================================================
