# Freeprocessing in TLA+

Freeprocessing taps a simulation's I/O. A library that is preloaded into the
program (the *symbiont*, `libsitu.so`: `fproc.c`, `simplesitu.c`, `posix.c`,
`h5.c`, `debug.c`) interposes `fopen`/`fwrite`/`fclose`, `open`/`write`/`close`
and HDF5's calls, and hands what the program writes to *processors*: shared
libraries named in `situ.cfg` that export `exec` and optionally `file`,
`finish` and `metadata`. A processor is ordinary code in the same process; what
it opens and writes goes through the same interposers.

This directory holds the models of that system, the TLC instances that check
them and the TLAPS proofs about them.

    tlc -config MCSitu.cfg MCSitu     (any cfg below with its MC module)
    tlapm FprocProofs.tla        (SimpleSituProofs, PosixSituProofs,
                                  HelperProofs, NetzProofs, ProcessorProofs,
                                  MeshProofs, JsonProofs)

## Inventory

| component | state | operations | interacts with |
|---|---|---|---|
| processor table (`fproc.c`) | `transferlibs[128]`: pattern, dlopen handle, four entry points | `load_processors`, `unload_processors`; dispatch: `matches`, `file`, `stream`, `metadata`, `finish` | read by every interposer; calls processors; `dlclose` runs their destructors |
| stdio interposer (`simplesitu.c`) | `files[1024]`: name, `FILE*`; `mpifiles[1024]`; libc's functions | constructor, destructor, `fopen`, `fwrite`, `fclose`, `MPI_File_open` | loads the table through its own `fopen`; dispatch |
| POSIX interposer (`posix.c`) | `posix_files[1024]`: name, descriptor (0 = empty) | `open`, `write`, `close` | dispatch, kernel |
| HDF5 interposer (`h5.c`) | `spaces[1024]`: id, extents; `metah5[1024]`: data set, space, name, type | `H5Screate_simple`, `H5Sclose`, `H5Dcreate1/2`, `H5Dclose`, `H5Dwrite`, calls passed through | dispatch of `metadata` then `stream`; HDF5 |
| netz (`processors/netz`) | `hdr`, `flds`, `slices`, `offset`, `binfield`, `slicefield` per rank; files shared by ranks | `exec`, `finish`, `tjfstart`, `out3d`, readers of header and configuration | MPI broadcasts, the stdio interposer (it opens files), the file system |
| MPI helpers (`parallel.mpic`) | none | `rank`, `size`, broadcasts, all-gathers | netz, python |
| silo (`silo.c`) | `slf`, `smd`, one slab buffer `data` with `filled` | `file`, `exec` (recursive `streaming`), `finish` | Silo library; the metadata reader |
| silo's metadata (`json.c`, `jsdd.c`) | the parser's node list; the static descriptor | `json_parse`, `json_value_free`, `read_metadata`, accessors | `silo.c`'s `file` |
| isosurf (`isosurf.c`, `mcubes.c`, `MC.cpp`) | two slice buffers and `active`; `MarchingCubes`: edge tags, vertices, triangles of a layer | `exec` (recursive), `finish`; `march`, `marchlayer`, `MarchLayer` | writes two files |
| minmax, provenance | a pair of integers for all files; a list of unique names | `file`, `exec`, `finish`, a destructor | stdout, a log file |
| nek5k, Enzo, adios (`nek5k.mpi.c`, `enzo.mpi.c`, `adios.mpi.c`) | time step and field number; none but the directory; one descriptor | `exec`, `finish` | PNG writer; libc; ADIOS |
| python (`tonumpy.mpic`) | dimensions and type of the next write, timestep, interpreter | `metadata`, `exec`, `finish` | Python C API |
| launching (`evfork.c`, `launcher.c`, `vis.c`) | environment, child processes, SIGCLD's disposition | `launch`, `reap`, `reap_sync`, `tokenize` | fork, exec, wait |
| change notification (`modified.c`) | one inotify descriptor, watches | `Watch`, `Modified`, `Unwatch` | kernel |
| debug channels (`debug.c`) | flags per channel | `symb_parse_options`, `symb_dbg` | every component |
| call tracer (`override.c`), runners, image output, pvlaunch, test programs | none of interest | | |

What is hard about it, and what makes each component correct:

* **Nesting.** One thread, but calls nest: a hook's own I/O re-enters the
  interposer while the outer call is in its dispatch loop, and reads and writes
  the same tables. An interposer is correct if its table maps live handles to
  their files at every step of every nesting, the strings it lends to hooks are
  not freed under them, a handle goes back to the caller that asked for it, and
  each stream announced is finished once.
* **Exit.** `exit()` may come from a hook; then the destructor takes the table
  down one `dlclose` at a time, and a library's own destructors may do I/O that
  dispatches over the half-cleared table. No hook of an unmapped library may be
  reached, and references must be returned.
* **Handles are reused.** libc and the kernel hand the same `FILE*` and
  descriptor out again at once.
* **Partial success.** Short writes, interrupted writes, failing opens and
  creations, configuration lines that are half good.
* **Several processes.** netz's ranks share output files without locks or
  barriers; only MPI's broadcast orders them, one way.
* **Boundaries.** A stream is cut by writes at arbitrary places; fields, slices,
  scanlines and grids end at others.
* **Statics.** A processor's state is one for all files: two open at a time, or
  a file that ends in the middle of something, meet what the other left.
* **Two passes over one structure.** The JSON parser writes in its second pass
  into what its first has counted; marching cubes hands numbers of vertices
  from cell to cell and from layer to layer.

`PROJECT.json` lists each hazard at its line with the properties that would
catch it, or the reason why none does.

## Modules

### Fproc: the processor table

`cfg` is the file as a sequence of lines, each "whole", "cut" by the end of the
file before its brace, or "bad"; `tlibs` is the table, `i` the loop index of
loader and unloader, `phase` where the process is, and `refs` the lines whose
`dlopen` reference is outstanding. A library counts as mapped while any line
that named it holds a reference, as `dlopen` counts. `LoadEntry`, `LoadGiveUp`
and `LoadEnd` are the branches of one iteration of `load_processors` with the
whole of `load_processor`. `UnloadClose` and `UnloadFree` split an iteration of
`unload_processors` around `dlclose`, because a destructor may run in between.
`Visible` is the common head of the dispatch loops (stop at the first entry
without a pattern), `Called` the entries a loop calls.

An `exec` that is NULL never occurs in the table (`fproc.c:58`), `file` and
`finish` are optional. `TableRight` says what the code gives up on;
`ValidInstalled` is what the comment at `fproc.c:59` promises instead. Any set of lines of the three forms is a file a user can
write; TLC enumerates them over two patterns and four libraries.

### SimpleSitu: the stdio interposer

Extends Fproc. `files` is the table of open files, `open` libc's view (which
file a live `FILE*` writes), `owner` who may use a `FILE*`, and `stack` the
interposed calls in progress. A call is two actions, up to its dispatch loop
(`FopenTracked`, `Fwrite`, `FcloseTracked`) and after it (`FopenReturn`,
`FwriteReturn`, `FcloseReturn`); `HookReturn` ends one hook of the innermost
loop. Whoever is `Active` may call: the program, a hook of the innermost call,
or the destructor of the library being closed. The hooks a dispatch calls are
collected when it begins; the table does not change while the stack is not
empty, so the set is what the loop visits.

`Reentrant` says which hooks use stdio themselves, `OpensFail` whether libc may
refuse an open. Assumed of every caller: it uses streams it was given and has
not closed, and does not close a stream that an outer `fwrite` is writing; that
is libc's own rule.

`live` is a ghost: `file` dispatches of successful opens less `finish`
dispatches, per name.

### PosixSitu: the POSIX interposer

Extends Fproc, like SimpleSitu, over descriptors. `kernel` is the descriptor
table (lowest free first), `bytes` counts for each descriptor what was streamed
to `exec`, what the kernel took and what `write` reported. The retry loop of
`write` is `WriteSome` (one `writef`), `WriteReturn` and `WriteError`; EINTR
takes nothing and goes on, so it is a step that changes nothing. `O_RDONLY` is
0, so the test at `posix.c:78` ignores no open and the policy depends on the
name alone. `CloseBypass` is a descriptor closed in a way the interposer does
not see. Writes of size 0 return at once and are left out.

What surrounds the interposer is a record `env`, chosen once among
`Environments`: the descriptors the kernel hands out, the names and sizes the
program uses, the faults writes may meet, whether anybody writes to descriptor
0 and whether descriptors may be closed behind the interposer's back. Properties
that only hold without the last two say so themselves (`Undisturbed`).

### Tee: what both interposers promise

The abstract specification of an interposer, as a processor sees it: `on` are
the streams announced and not finished, with their names, `calls` the
dispatches in progress, `listens` which processors each hook is called in for
each name, and `stage` whether processors are being installed, called or taken
down. A stream is announced (`Announce`) when it is of interest to a processor
and not on already; bytes are streamed only under the name it was announced
by and not while its `file` or `finish` is in progress; it is finished while
nothing else is in progress about it, and off when that returns. Hooks are
called one after the other in the order of the table (`Heard`). Processors are
only added before the program runs, are the same ones until it exits, and
after that all are called or none (`TakeDown`).

SimpleSitu and PosixSitu implement it (`StreamsTeed`, `DescriptorsTeed`). The
mapping takes the slots in use for `on`, the stack for `calls`, less what only
the code knows of a call (slot, caller, byte counts), the dispatch loops'
`Called` for `listens` and the phase for `stage`. Lookups by `FILE*` or number,
two slots for one handle, a handle given out again while its slot is still
filled, a slot emptied too early or not at all are then steps that `Tee` does
not have. Two things it allows because the code does them: an open that failed
is announced by the stdio interposer (`AnnounceFailed`), and a `finish` that
`exit()` cut short may be repeated by a destructor. In the POSIX environments
in which descriptors are closed elsewhere or written to as number 0, streams
are masked and only the processors are compared.

### H5Situ: the HDF5 interposer

The two tables against HDF5's own objects (`extent`, `dset`, external). `said`
is what the last `H5Dwrite` announced. Spaces of rank 3 and more have extents
in `Dims`, the first three (of a space of rank 4 and more the code keeps no
others); those of lower rank are `Flat`. `Dwrite` is one step: `metadata` and
`exec` are taken not to call HDF5 themselves. Where the code reads one past its
table the model announces `NULL`, which is no one's extents. HDF5 counts
references, so a program may close a space that a data set still uses
(`CloseEarly`). `metah5`'s
initializer sets the type of its first slot only; the others hold 0, `FP_INT8`.
Data sets that were opened (`H5Dopen1/2`) or made by `H5Dcreate2` are never
entered.

### ByteIntersect and Netz: the netz processor on all ranks

ByteIntersect holds the arithmetic as operators: `byteintersect` with its four
cases and assertions, `byteintersect2d`, `to3d`, and the write lists of
`find_destination` and `wlist2d`. Netz is the state machine of an MPI job. Each
rank goes through `tjfstart` (`Start`, then one `Open` per shared slice file),
`exec` (`Exec`, then `SliceWrite` and `SliceNext` for each slice it concerns; or
`ExecAborts` when an assertion fails), `finish` and `out3d` (`Finish`, then
`MergeOpen`, `MergeWrite`, `MergeNext` for each field). `lio_listio` makes the
writes of its list in any order and nothing orders the ranks, so a step writes
one scanline (`todo` are those that are left), and another rank may open,
truncate or write a shared file between any two. `MergeOpen` also reads and
unlinks the rank's own brick, which no other rank looks at. A datum is named by
its rank and offset in that rank's stream, so a misplaced, repeated or missing
float is visible.

Three histories name what the code loses, so that the properties can say that
nothing else is lost: `unlisted`, the end of a write that begins inside a
scanline and reaches into one more than `nwrites` counts (`netz.mpic:414`);
`wiped`, the ranks of which an `O_TRUNC` took data out of a slice file
(`netz.mpic:309`); `stripped`, the same of a volume (`netz.mpic:482`). `Lower` and `Upper` are what `broadcastzu` leaves of a
field's offsets. One unit is one float: the simulation writes floats, so every
`sizeof(float)` divides out, except in the width `Uint`.

Assumed of the simulation: its header has been read, and each rank writes its
whole stream before it closes the file. Bricks that stack in y or z meet at the
same places of a slice, because `wlist2d` looks at a brick's column alone
(`Column`): of such jobs `SlicesRight` says that a float is some brick's of the
column, and of jobs with one row of bricks that it is the one that belongs there.

### Program, Slabs, Silo, Isosurf: the slab processors

`Program` is what a processor sees of the program through the interposers:
files that are opened, written to (`sent` counts the bytes) and closed, one at a
time or, when `overlap` is set, side by side; and opens that fail (`Refuses`),
which `file` hooks are called for as well and `finish` never is; `dead` is a failed assertion or a
bad access of the processor, which ends the program.

`Slabs` is the abstract specification of a processor that works on slabs of `S`
bytes: a file's bytes come out in slabs, in order, none left out, repeated or
another file's. A byte is named by its file and its offset. `Silo` and
`Isosurf` are `streaming`/`exec` with one step per level of their recursion,
and implement `Slabs` under the refinement mappings `Volumes` and `Slices`
(`GridsInOrder`, `SlicesInOrder`). The mappings make the promise to programs
that have one file open at a time, whatever opens fail in between; others are
explored, and nothing is said of their slabs. The promise is about what is
handed to Silo and in which order. It does not say which Silo file that is for:
one left by a failed open takes the next file's grids. `Silo`'s `File` includes
everything that can fail in `file`: the Silo file or a directory is not made,
`silo.cfg` does not describe three dimensions, there is no memory for the
buffer. `silo.cfg` describes one grid size for as long as the program runs.

### MeshTables and Mesh: marching cubes

`MeshTables` are the two tables of `MC.cpp`. `Mesh` marches a layer one cell a
step: `Tagged` are the three blocks of stores into `piEdges`, `Numbers` the
twelve tests that make or look up a vertex and leave the rest of `cellVerts` as
earlier cells left it. A vertex is named by the lattice edge it lies on, so
that a number that names the wrong vertex, a vertex made twice and a side
without its neighbour are visible. Where on the edge the vertex lies, and the
values of the voxels, are abstracted to which voxels are below the isovalue.
`LayerDone` writes the files: `FaceWords` is the `fwrite` of `MC.cpp:888`,
`Word` stands for 2^32. `seam` remembers the previous layer's sides.

The tables are data: what they say of a single cell is not proved but stated,
in two assumptions that TLC evaluates for each of the 256 sets of corners in
every run of `Mesh`. `TablesAssumption`: the edges the table has vertices on are
those whose ends lie on different sides of the surface. `TrianglesAssumption`:
no row has a side twice; a side inside a cell is met by another of its row, a
side on a face by one of the cell behind the face, whatever the corners of that
cell which are not on the face.

### Minmax, Provenance, Nek5k, Writers: statics shared by files

One module each (adios and Enzo share `Writers`) over `Program`. The state is
the code's statics; ghosts (`values`, `fields`, `broken`, `disturbed`) say what
belongs to a file. In `ProvenanceAppend` the count goes up first; then the list
does not grow, or the name is copied or not (the entry is NULL), and in either
case the line is logged or not. `unique` reads the entries of which the count
says that they are there (`Entry`, `Junk` where nothing was stored), and stops
the program at a NULL. adios' descriptor may stay invalid or become 0 when the
open fails (`Nowhere`). `EnzoSlot` is what exclusive creation lets through,
whatever earlier jobs left. A name of an output is its file's without the
directory; two files of one name share an output. nek5k's images are those of
one rank: the rank is not in their names, and ranks draw over each other.

### Json, JsonLanguage and Metadata: the description of the data

`Json` is `json_parse_ex` as a machine that reads a text of symbols twice. One
character is one step, with the flags of the code; the text is chosen while the
first pass reads it, and the second reads it again. A node holds the fields the
code reuses between the passes (`count` then `room`). `NewValueFails` is an
allocation that fails, `Chain` what is freed after an error, `FreeDown` and
`FreeUp` the walk of `json_value_free_ex`. `JsonLanguage` has the
language by recursion on its grammar (`Meaning`), the reference the parser is
compared with; it is a module of its own because its operators are RECURSIVE. `Metadata` is `read_metadata` a call a step over documents as
values, with the accessors as operators; `ABORT` is an assertion that fails.

### Launch, Watch, Debug

`Launch` is the three launchers at once (`kind`), whose text is the same but
for what a child does when exec fails; children are processes that run beside
the host, `nocldwait` is SIGCLD's disposition. The status `reap` reads when no
child has ended is uninitialized: any outcome. `Watch` is `modified.c` over the
kernel's descriptors and watch numbers: `Modified` hands a watch's number to
`select` as a descriptor, as the code does, and `Unwatch` closes it; a read of
the queue returns one whole event. `Debug` is `symb_parse_options`, an option a
step, of lists that are neither empty nor end in a comma.

## Runs

The properties of a run are the invariants and temporal properties of its cfg.
Passing runs explore their whole state space. Parts that share no state are
checked in one run, each in behaviours of its own (`part`, `loaded`, `env`);
while one moves the others keep their initial state, so the run is the union of
their state spaces and not a product.

| run | question | bounds |
|---|---|---|
| `situ` | are table, lent strings and answers right when hooks nest; is the interposer a `Tee`; what is installed, what can be reached while unloading, what is returned | depth 4 and opens that succeed, file and exec hooks nest; depth 3 and opens that fail, exec hooks nest; 2 slots, 3 `FILE*`, so the table overflows and addresses are reused; two processors, shared library or not; and without a program, every file of up to 3 lines and those of 4 that overfill the 3 entries |
| `posix` | table, names, lent strings, streamed bytes and reported counts; is the interposer a `Tee`; every call returns | 2 slots, two libraries, depth 2, two environments: `Partial`, descriptors 0..3, partial and interrupted writes; `Errors`, one descriptor beside 0, three bytes in writes of one and two, hard errors, bypassed closes, writes to descriptor 0, `/dev` |
| `helpers` | HDF5's tables; the parser against its grammar; metadata of one piece; children and their ends; the inotify queue; the last option decides | 2 slots and 4 identifiers; every text of 3 symbols and texts of up to 11 symbols of objects, arrays, numbers and strings; some 2800 documents; 2 children, every command of 3 characters; 2 files, 3 watches, 3 events, 5 descriptors; two lists for a channel |
| `netz_stream` | per-rank files are exact however the stream is cut; merged floats are in their place | 4 ranks in y and z, 2 fields of 8 floats, write sizes that begin and end inside, at and across fields |
| `netz_slices` | what a rank writes arrives in slices and volumes, in its place, all of it but what a list leaves out or a truncation takes | 2 ranks in x, 2 fields of 8 floats, one of them merged, a slice of each; writes of 2, 5 and 9 floats, which begin and end inside, at and across scanlines, slices and fields; every order of the ranks' opens and scanlines |
| `processors` | is the surface closed and are its numbers right across cells and layers; are slabs exact; do statics keep files apart | slabs of 3 by 3 voxels, so a cell has a left, a right, a front and a rear neighbour, every slab above one that repeats every two; 2 files, whose opens may fail; writes of nothing to twice a buffer; 3 names, 3 dumps, 2 steps |

The bounds are those at which the cases of the code all occur: two slots and
three handles give an empty, a full and an overflowing table and a reused
handle; depth 4 has a call of each kind inside one of each other kind; two
fields give a first, an inner and an outer boundary; two ranks give a race;
buffers of 5 and 6 bytes and writes of 2 to 10 give fillings that end inside,
at the end of and several times in a write; two layers give a seam.

Where several conditions answer one question they are conjuncts of one
property: `FilesKept`, `DispatchSafe`, `TableRight`, `CallsSafe`, `MetadataRight`, `ChildrenTended`,
`SurfaceClosed`, `ImagesRight`, `MergedRight`, `SlicesRight`, `BricksMerged`,
and in `PosixSitu` `TablesRight`, `NamesRight` and `BytesRight`, which also
say in which environments each conjunct is to hold. The text below uses the
names of the conjuncts.

Six runs show a disagreement with what a comment or document of the
repository says, found while modelling:

| run | what it shows |
|---|---|
| `situ_noexec` | a library without `exec`, "still valid", is turned down with every line after it |
| `situ_finish` | `finish` runs inside itself when its hook opens a file |
| `situ_return` | a failed `fopen` returns the hook's stream |
| `netz_aborts` | a write that ends at a field boundary fails an assertion |
| `netz_merge` | a late rank truncates the volume an early one has merged into |
| `mesh_faces` | the file of faces gets half of each triangle's numbers |

### Seen on the way

These follow from the same definitions in instances that are not among the
runs; where one names the change of an instance, the property named is
violated.

* `posix.c:110`: a write to descriptor 0 finds the first empty slot, whose `fd`
  is 0, and streams under a NULL name (`NamesRight` without the `~env.stdin`
  of `Undisturbed`).
* `posix.c:136`: a descriptor closed other than through `close` leaves its slot
  behind, and the number's next owner streams under the old name
  (`TablesRight` without the `~env.bypass` of `Undisturbed`).
* `h5.c:240`: after the space has been closed, `H5Dwrite` reads its extents one
  past the table; `DimsRight` has a disjunct for it.
* `h5.c:182`: a type the code does not know is announced as what the slot held
  before; `TypeRight` is about the known type only.
* `h5.c:112`: the first 3-D space takes every unused slot, so a second one is
  not recorded while the first is open (`Recorded`).
* `netz.mpic:414`: a write that starts inside a scanline is split into too few
  pieces and loses its tail, and its first piece reads behind the buffer
  (`SlicesRight` without `unlisted`); the comment at `netz.mpic:408` says that
  `s` "accounts for 'a' not starting at a brick boundary".
* `netz.mpic:425`: `wlist2d` ignores the row of the brick, so bricks side by
  side in y overwrite each other in slices (`SlicesRight` in `MCNetzSlices.cfg`
  with `Bricks` = <<1, 2, 1>> and without `OneRow`).
* `netz.mpic:309`: a rank that writes late truncates the slice files that
  others have written (`SlicesRight` without `wiped`); the comment at
  `netz.mpic:318` asks whether that can happen.
* `parallel.mpic:37`: field offsets beyond 2^32 bytes are truncated
  (`BrickExact` in `MCNetzStream.cfg` with `Uint = 8`).
* `fproc.c:93`: `situ.cfg` "supports an arbitrary number of mappings"
  (`doc/freeprocessor.adoc:129`), but lines beyond the table's 128 are left out
  (`Full`).
* `simplesitu.c:131`: the `file` hooks are called for a file that could not be
  opened as well (`FopenTracked`, `Refuses`); `posix.c:86` returns before that.
  So a failed open sets minmax's pair anew under the file that is being written
  (`RangeOfItsFile` without `disturbed`), and leaves a Silo file open that the
  next file's grids go into (`GridsInOrder` says nothing of their names).
* `silo.c:127`: "We can only handle one silo file at a time. Ignoring", but
  only `file` ignores it: the second file's bytes go into the first one's grids
  and its `finish` closes them (`NothingHeldBack` without `~overlap`).
* `trackdata.c:29`: without memory for a name the entry is NULL and the name is
  logged all the same; the next file's `unique` reads the NULL
  (`LoggedOnce` without its last disjunct; `ProvenanceFails`).
* `nek5k.mpi.c:75`: without memory for the drawing buffer `memset` gets a NULL
  (`NekNoBuffer`).
* `silo.c:58`, `json.c:477`: a description that is not JSON, coordinates that
  do not fit and a text that begins with `]` are each a NULL pointer that is
  read (`NoDocument`, `CopyCoords`, `SeekBracket`).
* `isosurf.c:75`: after an odd number of bytes the next ones overwrite one
  (`SlicesInOrder` with an odd number in `WriteSizes`); `isosurf.c:103`: the
  first `finish` writes to address zero (`IsosurfFinish`).
* `launcher.c:117`: `tokenize` "assumes argv is big enough to hold all of the
  given tokens"; the NULL after them is one pointer beyond it when there are as
  many spaces as words (`TokensFit` without the `- 1`).
* `launcher.c:165`: a child whose exec fails returns from `launch`, and runs the
  rest of the program a second time (`ChildExec`).
* `evfork.c:107`: the status read after `waitpid` has found nothing is
  uninitialized, and may end the program (`reap`).
* `modified.c:78`, `modified.c:96`: an event is told to whichever watch asks
  first; `Unwatch` closes a descriptor that may be anybody's (`Modified`,
  `Unwatch`).
* `debug.c:78`: an unknown class is to be "silently ignored", but `1U<<64` is
  undefined and on x86 sets or clears errors (`name_class`).
* `debug.c:106`: an empty list, or a comma at the end of one, makes the parser
  read past the string (left out by `DebugAssumption`).

Deadlock is not checked: the process ends (`phase = "done"`, all ranks "done",
`dead`), a failed assertion ends the job, and bounds on depth, identifiers,
texts and bytes stop the others.

### Fairness

Two runs use it. `posix`: strong fairness of `HookReturn` at each depth says
that a hook which gets to run returns at some time: it may call interposed
functions again and again, but not for ever. Weak fairness of the remaining
steps of a call says that the program keeps running and that the kernel does
not answer EINTR for ever. Nothing is assumed of the program's own calls.
`helpers`: weak fairness of the steps of the parser and of the metadata reader,
which are a single thread that computes; nothing is assumed of the other parts
(an exec'd consumer may run for ever).

## Proofs

The theorems hold for every value of the constants that satisfies the named
assumption of the module (sizes are naturals, the configuration's names are
not the models' `NULL`) and whatever hypothesis is named below. Each argument
is the same: an inductive invariant, checked by TLC first, one lemma per action
that preserves it, and a theorem that draws the property from it.

**FprocProofs.** All properties of Fproc, for every table size, set of
patterns and libraries and configuration. The inductive invariant
(`FprocInv`) says what each phase has established: while loading, exactly the
lines before `i` are installed, all of them good; while unloading, exactly the
entries before `i` are cleared, and each entry that has a pattern still has its
own reference. `VisibleMapped` alone is not inductive: that the scan stops
before an entry that is closed later needs the position of the index. For the
refinements of `Tee` it also has how the audience of a hook changes: it grows
while lines are loaded (`LoadInstalls`), stays while the program runs
(`ListeningStays`) and is whole or empty afterwards (`UnloadTakesDown`); and,
since a library without `exec` is turned down, that whoever matches a name is
streamed to (`AllStream`).

**SimpleSituProofs.** `SituTyped` and `HooksMapped`, together `CallsSafe`, hold in
every environment.
`FilesIsMap`, `FopenAnswersRight` and `NamesOutliveHooks` hold under
`SafeEnvelope`: finish hooks do not use stdio, and if file hooks do then opens
do not fail. The assumption is needed: `situ_finish` and `situ_return` are the
counterexamples outside it, one for each half. The inductive invariant ties
each call in progress to its slot (`FrameOK`: the slot holds the call's `FILE*`
and name, and its pending hooks are visible) and says that a stream being
closed is the top of the stack; table uniqueness then follows because a handle
libc hands out is in no slot. `StreamsBalanced` proves `Balanced` on top of it:
`Kept` are the slots the property counts, and each step leaves that set alone,
adds the one slot that was empty or takes the one that is closed, so that the
cardinality follows the counter `live`.
`SituImplementsTee` proves that the interposer implements `Tee`, inside
`SafeEnvelope`. Every step of the code maps to one of `Tee` or to a stutter: an
open, write or close that the table does not know is a stutter, one that it
knows is `Announce`, `Stream` or `Finish` (`FopenTees`, `FwriteTees`,
`FcloseTees`), `HookReturn` is `Heard`. The invariant is the one above with
`AllStream` and that calls begin after loading (`CallsAfterLoad`). The steps rest
on it: that a stream announced is not on yet because libc's handle is in no slot;
that the stack has nothing about a stream being finished; and that the return
of `finish` takes exactly one pair out of `on`, which needs that no
other slot has the handle.
`StreamsInOrder` draws from it what the writer of a processor wants to know
(`OneName`, `InOrder` of `Tee`): a `FILE*` goes by one name until it is finished,
every call in progress is about a stream that is on, under that name, and the
only calls about one stream that nest in each other are `exec`'s. Its proof is
about `Tee` alone and uses nothing of the code.

**PosixSituProofs.** `DescriptorTable`, `NamesLent` and `BytesAgree` prove
all three safety properties of `posix.c`, in every environment and to any depth
of nesting. Of the three the first two need, with their `Undisturbed` part, that
a slot is empty in both its fields or in neither (`SlotsWhole`) and that a
descriptor somebody owns is open; a call in progress keeps its slot and its
descriptor (`FrameOK`), and no two calls in progress are about one descriptor
(`FramesApart`), which is the invariant behind "emptied after finish and before
the descriptor is closed". The bytes need what a call is in the middle of:
`FrameBytes` relates the counts of its descriptor to how far its loop is, and
`RestBytes` says the counts of the others agree. It is not assumed that hooks
return.
`PosixImplementsTee` is the refinement of `Tee`, without a hypothesis: the same
argument over descriptors, where `FramesApart` gives that nothing is in progress
about a descriptor that is streamed or finished, and a slot whose number is open
keeps the kernel from giving it out (`SlotTold`). A `WriteSome` is a stutter.
Where the environment is disturbed the masked mapping makes every step but the
table's a stutter (`MaskedTees`).

**NetzProofs.** `IntersectionExact` and `IntersectionAborts` characterize
`byteintersect` over all naturals. `FilesExact` proves `BrickExact` for any
number of ranks, brick size, set of 3-D fields and cutting of the stream, as
long as the stream is shorter than `Uint`; with a smaller `Uint` TLC finds the
counterexample, so the assumption is needed. The invariant (`BrickInv`) extends
the property to the time a rank spends in its loop of opens.
`BricksLandRight` proves `MergedRight` for every arrangement and size of bricks
and every order in which the ranks stream, open, write single scanlines and
finish, under the same bound. The inductive invariant `MergeInv` says how far
each rank is in the loop of `out3d` (`Merging`): the bricks before the one it
merges are gone, that one is in `data` while its list is written, those after it
are still complete files. It needs `BrickInv` because a brick is complete only if
the stream went through the whole field. The arithmetic is a number written in
digits: `Parts` takes an address, a rank or an offset of `to3d` and
`find_destination` apart into three digits, `Whole` puts it together again,
`Inside` and `Below` keep it in its range. So `VoxelBelongs` has the float that a
scanline brings to a place, and `InOneBrick` that every place of a rank is on one
of its scanlines.
`BricksArriveWhole` proves `BricksMerged`: what a rank has put into a volume
(`Put`) stays there until another rank opens it, and `stripped` then has the
rank's name (`ArrivedInv`); the rank that opened the volume last is never
stripped (`OneSurvives`). That no rank is stripped is not true: `netz_merge`.
`WritesReachSlices` proves `SlicesRight` for every arrangement of bricks and
every way of cutting the stream. `SliceInv` says of every place of a slice which
the rank has gone past, the scanlines its running `lio_listio` has written
included, that the float is there (`Reached`, `Found`), and that what is left of
a list is part of the list its write gave (`Slicing`). `ListRight` has where
`wlist2d` takes each float from and brings it to, also for a write that begins
inside a scanline; `ListCovers` that a float which is not `Unlisted` is in a
piece of the list; `SliceCut` that `byteintersect2d` cuts a write at the slice.

**HelperProofs.** For the HDF5 interposer `AnnouncedRight` proves
`MetadataRight`. Since the first 3-D
space takes every unused slot and only one is cleared, the invariant says of
every slot that it holds the extents of the space whose identifier it has, even
after that was closed (`SpacesTrue`); `SpaceKept`, that the space of an entry
stays in the table as long as it is open, is what makes the read beyond the
table reachable only through a closed space; identifiers are not given out
again (`ObjectsTrue`). Then `ConsumesInStep`, `NoZombies` and `StopsAtFailure` for any
number of children, commands and orders of their exits; the invariant relates
the disposition of SIGCLD to what an exited child becomes, and the child that is
waited for to the only one that may live. `ToldOnce` for any number of files,
descriptors and events; the kernel's numbering needs that files are finite.
`LastOptionDecides` for any number of lists of any length: the invariant states
the property of the options taken so far (`Taken`, `Decided`), so that an option
is either about the class, and then the last one, or leaves the class alone.
`ArgvHoldsTokens` proves `TokensFit` for command lines of any length:
`tokenize` is a recursive function, and that it satisfies its recursion
(`WordsExist`) and has at most one word more than spaces (`FewWords`) are proved
from a least counterexample (`LeastNumber`), which takes no induction theorem.
`DescriptorOfOnePiece` proves `CoordsFitDims` for any number of dimensions and
any set of documents that are trees (`Parsed`: the items of an array and the
members of an object are documents, an object has as many names as members,
integers are integers). What connects the calls of `read_metadata` is that
lengths are compared with numbers, so that the assertions of `arrlen` have
passed for every array that is copied (`CoordArrays`).

**ProcessorProofs.** `NothingHeldBack`, and that `Silo` and `Isosurf` implement
`Slabs` (`SiloImplementsSlabs`, `IsosurfImplementsSlabs`): initial states map to
initial states, and each step maps to a `Begin`, `Take`, `Complete`, `End` or a
stutter, for every buffer size, set of files and way of cutting them. Silo's
inductive invariant says that what is in the buffer, what the running call
still has and what the grids hold add up to what was written to the file that
is open, whichever file the Silo file is named after; that a Silo file left by
a failed open is empty (`OneFile`, `Counted`); and that `filled` stays below the
size of the buffer, without which `minzu(n, bufsize - filled)` could be 0 and
the recursion would not end. Isosurf's is built the same way over its two
buffers, in two layers: `IsoInv`, which needs no assumption about the program
and gives `FrontsFollowBacks`, and `SlicesInv`, which says what the buffers
hold. The refinement has the hypothesis `EvenWrites`: a write is a whole number
of `uint16_t`. It is needed, `isosurf.c:75` halves byte counts, and an odd write
is a counterexample. `Slice` is even because it is a product with
`sizeof(uint16_t)`.
Of the others: `OutputOfItsFile` (at most one file is open, and it is the
one the descriptor is named after, if any), `LoggedOnce` (the list is never
longer than its count; `NewIsNotLogged`: what `unique` gets past holds every name
in the log, since a NULL would have stopped it), `ImagesKept` (the counters are
lexicographically past every image) and `StepsOfOneFile` (between files the
field number is 0; within a file it is the number of its fields modulo 5).
`DumpsStayInOrder`: a free name is above all dumps of this job (`NoGap` in
`DumpsInv`), so the least free one keeps them in order (`DumpMade`), and a write
that finds none finds that all names are taken (`DumpLost`).
`RangesStayOwn`: a file that is open and not `disturbed` is alone, and the pair
is the range of its values; minimum and maximum of a bounded set of integers exist, and
narrowing by two writes in turn is narrowing by their union (`NarrowedTwice`).

**MeshProofs.** `TagsRight`, `FirstNumberRight` and `SurfaceClosed`, for slabs of
any size and content and any number of layers. First the geometry: which two
points each of a cell's twelve edges joins (`LatticeEdges`), which edges two
cells share and that they share no others (`SameEdge`, `Geometry`, `TwoShared`).
`TagsRight` is not inductive. `TagsInv` adds that a marched cell has handed the
number of every crossed edge it shares on to its neighbours (`Handed`), and that
a vertex lies on an edge of a marched cell (`MadeEarlier`); so an untagged edge
is new, and the stale numbers a cell hands on from `cellVerts` are only ever on
edges that are not crossed. The number of a vertex is its edge's rank among the
edges made (`Ranks`), as the twelve tests run in order.
`FirstNumberRight` has the hypothesis that there are fewer vertices than `Word`:
`FaceWords` writes numbers modulo 2^32.
For `SurfaceClosed` the invariant needs to know where a triangle comes from:
`TrisInv` says there is a map (`Owns`) from the layer's triangles one to one onto
those of the marched cells' rows, and that a triangle's vertices are the edges in
its row. With it a side of a layer is a side of one row (`SidesOfCells`), it is
met in its cell or across one face (`MetAcross`), and no third cell has it
because a side lies in at most one face between two cells (`OneFace`). Between
layers, `SeamInv` says `seam` has the sides that any cell on the new layer's
floor must have there: they depend on the voxels of the slab the two layers
share and on nothing above it (`SameFloor`, which goes through the face behind
and back). The tables enter by their two assumptions alone.

**JsonProofs.** `SecondPassHasRoom` proves `SecondPassFits` for texts of any
length. Both passes are seen as one deterministic machine that does not know
which pass it is in (`After`, on `View`: the flags, the top, the length, and of
each node the type, parent and counts; all numbers are one type, since the first
pass learns only at a point or an exponent which it is, and a number is one step
from its first character to its last). `PlainStep` is that the parser in either
pass takes a step of this machine, runs out of memory, or refuses exactly what
the machine does not accept. The first pass leaves a `Path`, the machine's state
at each place of the text outside numbers; the second begins in the same state
and goes along it (`Second`), so it refuses nothing. That it has room is not a
comparison of two counts at one place: what is put down so far only grows along
the path (`Grows`: no node loses entries or bytes of names, and a string that is
being read is longer later or has been put down), so at every place it is at most
what it was at the end, which is what `Renewed` made room for.

`EverythingFreedOnce` proves `FreedOnce`. A text refused in the first pass frees
the chain of its nodes, none of which has anything of its own yet, and the second
pass refuses nothing; what is left is the tree. While the second pass builds it
(`Hung`) the values that are still open form a chain, each the parent of the next
(`Chained`), every other value hangs exactly once, on the value that is its
parent, and a container has as many entries as its count says. When memory
runs out the open values hang on nothing, so only what is complete under the root
is walked; the rest is lost, which `FreedOnce` allows for that ending only. The
walk of `json_value_free_ex` overwrites counts and climbs by parents, so its
invariant (`Walk`) is about what is still to come: values on the way up and
entries below the count are not freed, no value is such an entry twice, and of a
parsed text every other value is `Gone`. At the end nothing is on the way up; a
least value not freed would hang on an earlier one that is gone, whose count is 0.

What TLAPS cannot take here stays with TLC: `CallsReturn` and `ReadingEnds`
(liveness under fairness) and `ReadsTheLanguage`, whose reference is a RECURSIVE
operator. Every other property of a passing run that is not about liveness is
stated by a theorem. Induction over numbers needs no theorem with an operator
parameter: a least counterexample comes from the well-foundedness of `<`, and
`Least`, `Smallest`, `FirstOf` and `LeastNumber` get it from there.

## Not modelled

MPI_File_open (its table is never read), concurrent threads (the sources say
the tables are not thread-safe), the text of configuration and header files,
failing system calls in netz, short reads of the inotify queue, re-entrant HDF5
calls from a `metadata` hook, a `silo.cfg` that changes while the program runs,
floating-point values (interpolation in marching
cubes, quantization in nek5k, `Vectors.h`), the values of numbers in JSON, and
the components marked so in `PROJECT.json` with the reason of each: the call
tracer, the python and pvlaunch processors, image output, runners and test
programs either keep no state or only pass it to a library.

## Plan

1. A composition of SimpleSitu with Silo and with netz's header and restart
   streams, in which the processors' own files come back through the
   interposer.
2. Failing system calls in netz.
3. H5Situ's `metadata` and `stream` pairs as a third implementation of `Tee`.
