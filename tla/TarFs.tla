------------------------------- MODULE TarFs -------------------------------
(***************************************************************************)
(* The file system, a tar archive in memory (sys/tarfs.c), the system calls   *)
(* that look paths up in it (do_open, do_chdir, do_execve, do_getdents of     *)
(* sys/systemcall.c), the tables of open files, and the directory streams of  *)
(* libc (opendir, readdir, closedir) as bin/ls uses them.                     *)
(*                                                                         *)
(* Every lookup walks the archive from header to header by the size each      *)
(* header states, one step per header.  A process can be preempted between    *)
(* any two steps, and the paths of all of them are in one array, abspath,     *)
(* which each comparison of a walk reads again.                               *)
(*                                                                         *)
(* The archive the kernel was linked with is a sequence of files and          *)
(* directories; its layout is that of tar: a header of BLOCK bytes, the data  *)
(* padded to whole blocks, and empty blocks at the end.  A path is its names  *)
(* and the number of slashes behind them; module Paths says how path_merge    *)
(* computes it, here a call is given the result.                              *)
(***************************************************************************)
EXTENDS Integers, Sequences, FiniteSets

CONSTANTS
    Procs,       \* the processes that use the file system
    Names,       \* the parts of names
    Bytes,       \* what files hold; "nl" ends a line
    Archives,    \* sequences of records: name, dir (is it a directory?), data, elf
    Asked,       \* for each call the paths it is made with, as path_merge leaves them
    BLOCK,       \* 512 in the code
    FDS,         \* slots of fd_table: 15 in the code
    ReadSizes,   \* the sizes a program may pass to read()
    MaxCalls,    \* bound: calls that look a path up, in a behaviour
    MaxReads     \* bound: reads in a behaviour

ASSUME BlockAssumption == BLOCK \in Nat /\ BLOCK > 0
ASSUME FdsAssumption == FDS \in Nat /\ FDS > 3
ASSUME BoundsAssumption == ReadSizes \subseteq Nat /\ MaxReads \in Nat /\ MaxCalls \in Nat
ASSUME NamesAssumption == "?" \notin Names

(* An archive of a directory tree: no name is empty or there twice.          *)
ASSUME ArchiveAssumption ==
    /\ Archives \subseteq Seq([name : Seq(Names), dir : BOOLEAN, data : Seq(Bytes), elf : BOOLEAN])
    /\ \A a \in Archives : \A k \in DOMAIN a :
          /\ a[k].name # <<>>
          /\ a[k].dir => a[k].data = <<>> /\ ~a[k].elf
          /\ \A l \in DOMAIN a : a[k].name = a[l].name => k = l

VARIABLES
    Archive,     \* never changes
    abspath,     \* the one path buffer of the kernel
    fd_table,    \* pcb.fd_table: entry stands for file_start_address
    next_fd,     \* pcb.next_fd
    wd,          \* pcb.wd
    pname,       \* pcb.pname, the file prepare_user_memory maps
    call,        \* the call in progress, or the last one and its answer
    stream,      \* the directory stream: dents read so far, entries filled in
    got,         \* what was read through each descriptor so far
    stray,       \* a walk was off the headers, or a descriptor off the table
    calls, reads \* numbers of calls and reads, for the bounds

vars == <<Archive, abspath, fd_table, next_fd, wd, pname, call, stream, got,
          stray, calls, reads>>
files == <<fd_table, next_fd, got>>
counts == <<calls, reads>>

Path(name, slashes) == [name |-> name, slashes |-> slashes]
Slash == Path(<<>>, 1)        \* the string "/"
Garbled == Path(<<"?">>, 0)   \* pieces of two paths

(* cleanup_path leaves no slash at the end of a path, but in "/".            *)
ASSUME AskedAssumption ==
    \A path \in Asked.open \cup Asked.chdir \cup Asked.execve :
        path = Slash \/ (path.name \in Seq(Names) /\ path = Path(path.name, 0))

Entries == DOMAIN Archive
Root == Len(Archive) + 1   \* _tar_end, which stands for the directory "/"
Header(k) == Path(Archive[k].name, IF Archive[k].dir THEN 1 ELSE 0)
Data(k) == IF k \in Entries THEN Archive[k].data ELSE <<>>
SizeOf(k) == Len(Archive[k].data)
Blocks(size) == (size + BLOCK - 1) \div BLOCK

(* Where tar puts the header of entry k (external: written by tar). *)
HeaderAt[k \in 1..(Len(Archive) + 1)] ==
    IF k = 1 THEN 0 ELSE HeaderAt[k - 1] + BLOCK + BLOCK * Blocks(SizeOf(k - 1))

(* Unopened, or closed: all fields of an fd_t are 0. *)
Closed == [entry |-> 0, size |-> 0, offset |-> 0]
Descriptors == 3..(FDS - 1)
Searches == {"search_open", "search_exec", "search_dir"}
Walks == Searches \cup {"open_file", "open_dir", "map_file", "dents"}
NoStream == [fd |-> 0, dents |-> <<>>, offset |-> 0, dirty |-> FALSE, state |-> "none"]

Init ==
    /\ Archive \in Archives
    /\ abspath = Path(<<>>, 0)
    /\ fd_table = [p \in Procs |-> [fd \in Descriptors |-> Closed]]
    /\ next_fd = [p \in Procs |-> 3]
    /\ wd = [p \in Procs |-> Slash]
    /\ pname = [p \in Procs |-> Path(<<"sbush">>, 0)]
    /\ call = [p \in Procs |-> [what |-> "none", for |-> "done", path |-> Slash,
                                offset |-> 0, raced |-> FALSE, answer |-> 0]]
    /\ stream = [p \in Procs |-> NoStream]
    /\ got = [p \in Procs |-> [fd \in Descriptors |-> <<>>]]
    /\ stray = FALSE
    /\ calls = 0 /\ reads = 0
-----------------------------------------------------------------------------
InUser(p) == ~stray /\ call[p].for = "done"
At(p, for) == ~stray /\ call[p].for = for
Walking(p) == ~stray /\ call[p].for \in Walks
NextStep(p, for) == [call[p] EXCEPT !.for = for, !.offset = 0]
Done(p, answer) == [call[p] EXCEPT !.for = "done", !.offset = 0, !.answer = answer]

(* abspath is written by p: whoever is between its own path_merge and the     *)
(* last use of abspath has a path that may not be its own any more.           *)
Writes(p, c) ==
    call' = [q \in Procs |-> IF q = p THEN c
                             ELSE [call[q] EXCEPT !.raced = @ \/ call[q].for # "done"]]

(* A call enters the kernel, and path_merge begins to overwrite abspath.      *)
Enter(p, what, path) ==
    /\ InUser(p)
    /\ calls < MaxCalls
    /\ calls' = calls + 1
    /\ abspath' = Garbled
    /\ Writes(p, [what |-> what, for |-> "merge", path |-> path, offset |-> 0,
                  raced |-> FALSE, answer |-> 0])
    /\ UNCHANGED <<Archive, wd, pname, files, stray, reads>>

do_open(p, path) == Enter(p, "open", path) /\ UNCHANGED stream
do_chdir(p, path) == Enter(p, "chdir", path) /\ UNCHANGED stream
do_execve(p, path) == Enter(p, "execve", path) /\ UNCHANGED stream

(* opendir("./"): malloc, whose memory is whatever the frame held, then       *)
(* open("./", O_DIRECTORY), whose path is wd, for "/" or without its slash.   *)
opendir(p) ==
    /\ stream[p].state = "none"
    /\ Enter(p, "opendir", IF wd[p] = Slash THEN Slash ELSE Path(wd[p].name, 0))
    /\ \E dirty \in BOOLEAN :
          stream' = [stream EXCEPT ![p] = [NoStream EXCEPT !.dirty = dirty]]

(* path_merge ends; when two of them overlapped, with pieces of both.         *)
path_merge(p) ==
    /\ At(p, "merge")
    /\ abspath' \in IF call[p].raced THEN {call[p].path, Garbled} ELSE {call[p].path}
    /\ Writes(p, NextStep(p, CASE call[p].what = "open" -> "search_open"
                               [] call[p].what = "execve" -> "search_exec"
                               [] OTHER -> "slash"))
    /\ UNCHANGED <<Archive, wd, pname, files, stream, stray, counts>>

(* The slash of a directory's header: do_chdir always appends one, do_open    *)
(* only where there is none.  "/" itself has no header and is not searched.   *)
Appended(p) == IF call[p].what = "chdir" \/ abspath.slashes = 0 THEN 1 ELSE 0
AppendSlash(p) ==
    LET path == IF abspath = Garbled THEN Garbled
                ELSE [abspath EXCEPT !.slashes = @ + Appended(p)]
        found == IF call[p].what = "chdir" THEN "copy_wd" ELSE "open_dir"
    IN  /\ At(p, "slash")
        /\ abspath' = path
        /\ Writes(p, NextStep(p, IF path = Slash THEN found ELSE "search_dir"))
        /\ UNCHANGED <<Archive, wd, pname, files, stream, stray, counts>>
-----------------------------------------------------------------------------
(* Variant: nothing is added for the padding. *)
M_tar_size_roundup_none(size) == 0

(* A size that fills its last block gets a block too many. *)
tar_size_roundup(size) == IF size = 0 THEN 0 ELSE BLOCK - (size % BLOCK)

(* What the walk compares headers with: map_file has a path of its own.       *)
Wanted(p) == IF call[p].for = "map_file" THEN pname[p] ELSE abspath
AtEntry(p, k) == k \in Entries /\ call[p].offset = HeaderAt[k]
AtEnd(p) == call[p].offset >= HeaderAt[Len(Archive) + 1]
Found(p, k) == AtEntry(p, k) /\ Header(k) = Wanted(p)

(* do_open_dir knows the root by its name, and looks before it walks. *)
AtRoot(p) == call[p].for = "open_dir" /\ call[p].offset = 0 /\ abspath = Slash
Onward(p, k) == [call[p] EXCEPT !.offset = @ + SizeOf(k) + BLOCK + tar_size_roundup(SizeOf(k))]

(* A header with another name: on to the next. *)
WalkOn(p) ==
    /\ Walking(p) /\ call[p].for # "dents" /\ ~AtRoot(p)
    /\ \E k \in Entries :
          /\ AtEntry(p, k) /\ ~Found(p, k)
          /\ call' = [call EXCEPT ![p] = Onward(p, k)]
    /\ UNCHANGED <<Archive, abspath, wd, pname, files, stream, stray, counts>>

(* do_open refuses an empty file, do_execve one that is not an executable,    *)
(* the search for a directory takes only what is empty.                       *)
Accepted(p, k) ==
    CASE call[p].for = "search_open" -> SizeOf(k) # 0
      [] call[p].for = "search_exec" -> Archive[k].elf
      [] call[p].for = "search_dir" -> SizeOf(k) = 0
AfterSearch(p) ==
    CASE call[p].what = "open" -> "open_file"
      [] call[p].what = "execve" -> "copy_pname"
      [] call[p].what = "chdir" -> "copy_wd"
      [] call[p].what = "opendir" -> "open_dir"

(* A search that fails ends the call; opendir would go on with descriptor -1. *)
Fails(p) ==
    /\ call' = [call EXCEPT ![p] = Done(p, 0)]
    /\ stray' = (call[p].what = "opendir")

WalkFound(p) ==
    /\ ~stray /\ call[p].for \in Searches
    /\ \E k \in Entries :
          /\ Found(p, k)
          /\ IF Accepted(p, k)
             THEN /\ call' = [call EXCEPT ![p] = [NextStep(p, AfterSearch(p)) EXCEPT !.answer = k]]
                  /\ UNCHANGED stray
             ELSE Fails(p)
    /\ UNCHANGED <<Archive, abspath, wd, pname, files, stream, counts>>

(* An empty header, or the end of the archive. *)
WalkEnd(p) ==
    /\ Walking(p) /\ AtEnd(p) /\ ~AtRoot(p) /\ call[p].for # "dents"
    /\ Fails(p)
    /\ UNCHANGED <<Archive, abspath, wd, pname, files, stream, counts>>

(* Neither: data is taken for a header, and what happens depends on it. *)
WalkStray(p) ==
    /\ Walking(p) /\ ~AtEnd(p)
    /\ ~\E k \in Entries : AtEntry(p, k)
    /\ stray' = TRUE
    /\ UNCHANGED <<Archive, abspath, wd, pname, files, call, stream, counts>>
-----------------------------------------------------------------------------
(* Variant: a new descriptor reuses the number of the last one. *)
M_Open_reuses(p, k) ==
    /\ fd_table' = [fd_table EXCEPT ![p][next_fd[p]].entry = k,
                                    ![p][next_fd[p]].size = Len(Data(k))]
    /\ UNCHANGED <<next_fd, stray>>

(* The next descriptor is used, never one that was closed, and nothing        *)
(* compares it with the size of the table.  A directory is its header, with   *)
(* size 0; so is a file that is opened as one.                                *)
Open(p, k) ==
    LET size == IF call[p].for = "open_file" THEN Len(Data(k)) ELSE 0 IN
    /\ IF next_fd[p] < FDS
       THEN /\ fd_table' = [fd_table EXCEPT ![p][next_fd[p]] =
                               [entry |-> k, size |-> size, offset |-> 0]]
            /\ UNCHANGED stray
       ELSE stray' = TRUE /\ UNCHANGED fd_table
    /\ next_fd' = [next_fd EXCEPT ![p] = @ + 1]

(* do_open_file and do_open_dir walk again; opendir then calls getdents.      *)
OpenEntry(p) ==
    /\ ~stray /\ call[p].for \in {"open_file", "open_dir"}
    /\ \E k \in Entries \cup {Root} :
          /\ IF AtRoot(p) THEN k = Root ELSE Found(p, k)
          /\ Open(p, k)
          /\ call' = [call EXCEPT ![p] = IF call[p].what = "open" THEN Done(p, k)
                                         ELSE [NextStep(p, "dents") EXCEPT !.answer = k]]
    /\ stream' = [stream EXCEPT ![p].fd = IF call[p].what = "opendir" THEN next_fd[p] ELSE @]
    /\ UNCHANGED <<Archive, abspath, wd, pname, got, counts>>

(* Variant: 0 is returned without the copy. *)
M_CopyWd_missing(p) ==
    /\ At(p, "copy_wd")
    /\ call' = [call EXCEPT ![p] = Done(p, IF @.answer = 0 THEN Root ELSE @.answer)]
    /\ UNCHANGED <<Archive, abspath, wd, pname, files, stream, stray, counts>>

(* do_chdir copies abspath, as it is now, and returns 0. *)
CopyWd(p) ==
    /\ At(p, "copy_wd")
    /\ wd' = [wd EXCEPT ![p] = abspath]
    /\ call' = [call EXCEPT ![p] = Done(p, IF @.answer = 0 THEN Root ELSE @.answer)]
    /\ UNCHANGED <<Archive, abspath, pname, files, stream, stray, counts>>

(* So does process_exec; k_thread_kernel then maps the file of that name.     *)
CopyPname(p) ==
    /\ At(p, "copy_pname")
    /\ pname' = [pname EXCEPT ![p] = abspath]
    /\ call' = [call EXCEPT ![p] = NextStep(p, "map_file")]
    /\ UNCHANGED <<Archive, abspath, wd, files, stream, stray, counts>>

map_file(p) ==
    /\ At(p, "map_file")
    /\ \E k \in Entries :
          /\ Found(p, k)
          /\ call' = [call EXCEPT ![p] = Done(p, IF Archive[k].elf THEN k ELSE 0)]
    /\ UNCHANGED <<Archive, abspath, wd, pname, files, stream, stray, counts>>
-----------------------------------------------------------------------------
(* _fill_dents_by_path: every entry whose name begins with the directory's    *)
(* and has no further slash but at its end, the directory itself included.    *)
StartsWith(k, d) ==
    IF d = Root THEN TRUE
    ELSE IF Archive[d].dir
         THEN /\ Len(Archive[k].name) >= Len(Archive[d].name)
              /\ SubSeq(Archive[k].name, 1, Len(Archive[d].name)) = Archive[d].name
              /\ Archive[k].dir \/ Archive[k].name # Archive[d].name
         ELSE k = d
Depth(d) == IF d = Root THEN 0 ELSE Len(Archive[d].name)

(* Variant: the last character is looked at too: no directory is listed. *)
M_Listed_no_dirs(k, d) ==
    StartsWith(k, d) /\ Len(Archive[k].name) <= Depth(d) + 1 /\ ~Archive[k].dir

Listed(k, d) == StartsWith(k, d) /\ Len(Archive[k].name) <= Depth(d) + 1

FillDents(p) ==
    LET d == fd_table[p][stream[p].fd].entry IN
    /\ At(p, "dents")
    /\ \E k \in Entries :
          /\ AtEntry(p, k)
          /\ stream' = [stream EXCEPT ![p].dents = IF Listed(k, d) THEN Append(@, k) ELSE @]
          /\ call' = [call EXCEPT ![p] = Onward(p, k)]
    /\ UNCHANGED <<Archive, abspath, wd, pname, files, stray, counts>>

(* The empty header ends the walk at once: no d_ino is set to 0 behind the    *)
(* entries.                                                                  *)
DentsEnd(p) ==
    /\ At(p, "dents") /\ AtEnd(p)
    /\ call' = [call EXCEPT ![p] = Done(p, @.answer)]
    /\ stream' = [stream EXCEPT ![p].state = "open"]
    /\ UNCHANGED <<Archive, abspath, wd, pname, files, stray, counts>>

(* readdir: NULL at a d_ino of 0; behind the entries there is one only if the *)
(* memory was clean.                                                         *)
readdir(p) ==
    LET s == stream[p] IN
    /\ InUser(p) /\ s.state = "open"
    /\ stream' = [stream EXCEPT ![p] =
                     IF s.offset < Len(s.dents) THEN [s EXCEPT !.offset = @ + 1]
                     ELSE IF s.dirty THEN [s EXCEPT !.state = "junk"]
                     ELSE [s EXCEPT !.state = "null"]]
    /\ UNCHANGED <<Archive, abspath, wd, pname, files, call, stray, counts>>

do_close(p, fd) ==
    /\ fd_table' = [fd_table EXCEPT ![p][fd] = Closed]
    /\ got' = [got EXCEPT ![p][fd] = <<>>]
    /\ UNCHANGED <<Archive, abspath, wd, pname, next_fd, call, stray, counts>>

closedir(p) ==
    /\ InUser(p) /\ stream[p].state \in {"null", "junk"}
    /\ do_close(p, stream[p].fd)
    /\ stream' = [stream EXCEPT ![p] = NoStream]

close(p, fd) ==
    /\ InUser(p) /\ fd_table[p][fd] # Closed /\ fd # stream[p].fd
    /\ do_close(p, fd)
    /\ UNCHANGED stream
-----------------------------------------------------------------------------
(* read_to_buffer(fd, n): up to and including a newline, to the end of the    *)
(* file, or n-1 bytes; n-1 is unsigned, so 0 means no limit.                  *)
Remaining(f) == SubSeq(Data(f.entry), f.offset + 1, f.size)

Taken(rest, n) ==
    CHOOSE k \in 0..Len(rest) :
        /\ \A j \in 1..(k - 1) : rest[j] # "nl"
        /\ n > 0 => k <= n - 1
        /\ \/ k = Len(rest) \/ k = n - 1 \/ (k > 0 /\ rest[k] = "nl")

do_read(p, fd, n) ==
    LET rest == Remaining(fd_table[p][fd])
        k == Taken(rest, n)
    IN  /\ InUser(p)
        /\ reads < MaxReads
        /\ reads' = reads + 1
        /\ fd_table' = [fd_table EXCEPT ![p][fd].offset = @ + k]
        /\ got' = [got EXCEPT ![p][fd] = @ \o SubSeq(rest, 1, k)]
        /\ UNCHANGED <<Archive, abspath, wd, pname, next_fd, call, stream, stray, calls>>

Stopped == (stray \/ calls = MaxCalls) /\ UNCHANGED vars

Kernel(p) ==
    \/ path_merge(p) \/ AppendSlash(p)
    \/ WalkOn(p) \/ WalkFound(p) \/ WalkEnd(p) \/ WalkStray(p)
    \/ OpenEntry(p) \/ CopyWd(p) \/ CopyPname(p) \/ map_file(p)
    \/ FillDents(p) \/ DentsEnd(p)

User(p) ==
    \/ \E path \in Asked.open : do_open(p, path)
    \/ \E path \in Asked.chdir : do_chdir(p, path)
    \/ \E path \in Asked.execve : do_execve(p, path)
    \/ opendir(p) \/ readdir(p) \/ closedir(p)
    \/ \E fd \in Descriptors : (\E n \in ReadSizes : do_read(p, fd, n)) \/ close(p, fd)

Next == (\E p \in Procs : Kernel(p) \/ User(p)) \/ Stopped

Spec == Init /\ [][Next]_vars
-----------------------------------------------------------------------------
(* No file before entry k ends exactly at the end of a block. *)
PaddedBefore(k) == \A j \in 1..(k - 1) : SizeOf(j) = 0 \/ SizeOf(j) % BLOCK # 0

(* The entry a call means, whatever the kernel does: a directory may be       *)
(* named without its slash, "/" and an empty path are the root.               *)
MeansRoot(c) == c.path.name = <<>>
Means(c, k) ==
    /\ k \in Entries
    /\ c.path.name = Archive[k].name
    /\ CASE c.what = "open" -> SizeOf(k) # 0 /\ ~Archive[k].dir
         [] c.what = "execve" -> Archive[k].elf
         [] OTHER -> Archive[k].dir

Lost(p) == call[p].for \in Walks /\ ~AtEnd(p) /\ ~\E k \in Entries : AtEntry(p, k)
Returned(p) == call[p].for = "done" /\ call[p].what # "none"

(* LookupFinds: a call that ends, or gets lost among the headers, has found   *)
(* the entry it was given the path of, if there is one, unless another        *)
(* process wrote abspath meanwhile, or a file before the entry fills its last *)
(* block: there every walk skips a block too many.                            *)
LookupFinds ==
    \A p \in Procs : (Returned(p) \/ Lost(p)) /\ ~call[p].raced =>
        \A k \in Entries : Means(call[p], k) /\ PaddedBefore(k) => call[p].answer = k

(* OwnPath: what a call that succeeds changes is named by its own path: the   *)
(* descriptor's entry, wd or pname.  Only a call that another process's write *)
(* to abspath fell into may open, enter or run something else.                *)
OwnPath ==
    \A p \in Procs :
        LET c == call[p] IN
        Returned(p) /\ ~c.raced /\ c.answer # 0 =>
            /\ Means(c, c.answer) \/ (MeansRoot(c) /\ c.answer = Root)
            /\ c.what = "chdir" => wd[p] = Path(c.path.name, 1)
            /\ c.what = "execve" => pname[p] = c.path

(* ListingExact: the entries readdir delivers before NULL are those of the    *)
(* working directory and the directory itself, each once, in the order of the *)
(* archive; the listing ends with NULL if the memory of the stream was clean. *)
Parent(k) == SubSeq(Archive[k].name, 1, Len(Archive[k].name) - 1)
InDirectory(k, dir) ==
    Archive[k].name = dir.name \/ (Archive[k].name # <<>> /\ Parent(k) = dir.name)
ListingExact ==
    \A p \in Procs :
        LET s == stream[p] IN
        /\ s.state = "junk" => s.dirty
        /\ /\ s.state = "null" /\ call[p].what = "opendir" /\ ~call[p].raced
           /\ \A k \in Entries : PaddedBefore(k)
           => /\ s.offset = Len(s.dents)
              /\ {s.dents[n] : n \in DOMAIN s.dents} =
                    {k \in Entries : InDirectory(k, call[p].path)}
              /\ \A n \in 1..(Len(s.dents) - 1) : s.dents[n] < s.dents[n + 1]

(* ReadsInOrder: what was read through a descriptor is the beginning of its   *)
(* file, up to the offset kept in the table: no byte is skipped or repeated   *)
(* at a newline, a full buffer or the end of the file, and other descriptors  *)
(* of the same file do not interfere.                                         *)
ReadsInOrder ==
    \A p \in Procs : \A fd \in Descriptors :
        LET f == fd_table[p][fd] IN
        f # Closed => /\ f.offset <= Len(Data(f.entry))
                      /\ got[p][fd] = SubSeq(Data(f.entry), 1, f.offset)
=============================================================================
