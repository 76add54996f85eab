------------------------------- MODULE WrFile -------------------------------
(***************************************************************************)
(* The file objects of wr_file.c, for random writes, for appending and for *)
(* reading, all on one path, in several processes.  An object holds a      *)
(* stdio stream and its descriptor; what it writes stays in the buffer of  *)
(* the stream until it is flushed.  The streams are closed and opened      *)
(* again, the path may be removed by anyone, and a process may end at any  *)
(* time: each object is in a process of its own, as objects of one process *)
(* share nothing but its end.  One fwrite is one chunk of the file,        *)
(* numbered as it is made.                                                 *)
(***************************************************************************)
EXTENDS Integers, Sequences, SequencesExt

CONSTANTS
    Handle,     \* the file objects
    Inode,      \* every file that can ever be created
    MaxChunks,  \* bound on the fwrites
    Offsets,    \* the offsets given to _wf_write
    NULL        \* no stream; no file at the path

ASSUME OffsetAssumption == Offsets \subseteq Int /\ MaxChunks \in Nat
ASSUME NullAssumption == NULL \notin Inode

Hole == 0          \* what a seek past the end leaves
Chunk == 1..MaxChunks
Kind == {"write", "append", "read"}
AtEnd == -1        \* where a stream opened with "a+" writes

VARIABLES
    path,    \* the file at the path, or NULL
    unused,  \* the files that were not created so far
    data,    \* per file, its chunks
    state,   \* per object: "none", "idle", or where its file_open is:
             \* "create" or "open"; "nofile" or "fault" after a NULL stream was
             \* used by file_open itself, or by a call on the object
    kind,    \* per object: which of the three it is, and stays
    file,    \* the file its stream was opened on, or NULL
    fd,      \* 0 from scalloc, -1 when closed, 1 for that of a stream
    buf,     \* what its stream holds: <<[at |-> position, chunk |-> n]>>
    author,  \* history: who wrote the chunks made so far
    opened,  \* history: the objects that were opened since they were created
    raced    \* history: the objects that, between access and fopen, had the
             \* path created by another

disk == <<path, unused, data>>
stream == <<file, fd, buf>>
history == <<author, opened, raced>>
vars == <<disk, state, kind, stream, history>>

Entry == [at : Nat \cup {AtEnd}, chunk : Chunk]

TypeOK ==
    /\ path \in Inode \cup {NULL}
    /\ unused \in SUBSET Inode
    /\ data \in [Inode -> Seq(Chunk \cup {Hole})]
    /\ state \in [Handle -> {"none", "idle", "create", "open", "nofile", "fault"}]
    /\ kind \in [Handle -> Kind]
    /\ file \in [Handle -> Inode \cup {NULL}]
    /\ fd \in [Handle -> {-1, 0, 1}]
    /\ buf \in [Handle -> Seq(Entry)]
    /\ author \in Seq(Handle) /\ Len(author) <= MaxChunks
    /\ opened \in SUBSET Handle
    /\ raced \in SUBSET Handle

Init ==
    /\ path = NULL
    /\ unused = Inode
    /\ data = [i \in Inode |-> <<>>]
    /\ state = [h \in Handle |-> "none"]
    /\ kind \in [Handle -> Kind]
    /\ file = [h \in Handle |-> NULL]
    /\ fd = [h \in Handle |-> -1]
    /\ buf = [h \in Handle |-> <<>>]
    /\ author = <<>>
    /\ opened = {}
    /\ raced = {}

-----------------------------------------------------------------------------
(* The C library and the system.                                           *)

\* The chunks s with one written at a position, past the end over a hole.
Put(s, e) ==
    IF e.at = AtEnd THEN Append(s, e.chunk)
    ELSE [i \in 1..Max({Len(s), e.at + 1}) |->
            CASE i = e.at + 1 -> e.chunk
              [] i # e.at + 1 /\ i <= Len(s) -> s[i]
              [] OTHER -> Hole]

\* The file of h once the buffer of h is written out.
Drained(h) == FoldLeft(Put, data[file[h]], buf[h])

Drain(h) ==
    /\ data' = IF file[h] = NULL THEN data
               ELSE [data EXCEPT ![file[h]] = Drained(h)]
    /\ buf' = [buf EXCEPT ![h] = <<>>]

\* stdio writes a buffer out when it likes to.
Spill(h) ==
    /\ buf[h] # <<>>
    /\ Drain(h)
    /\ UNCHANGED <<path, unused, state, file, fd, history, kind>>

\* A process ends, or a fault ended it: what its buffer held is lost, its
\* object and its stream are gone.
Crash(h) ==
    /\ state[h] # "none"
    /\ state' = [state EXCEPT ![h] = "none"]
    /\ file' = [file EXCEPT ![h] = NULL]
    /\ fd' = [fd EXCEPT ![h] = -1]
    /\ buf' = [buf EXCEPT ![h] = <<>>]
    /\ opened' = opened \ {h}
    /\ raced' = raced \ {h}
    /\ UNCHANGED <<disk, kind, author>>

\* Anyone removes the path; streams stay on the file.
Unlink ==
    /\ path # NULL
    /\ path' = NULL
    /\ UNCHANGED <<unused, data, state, stream, history, kind>>

-----------------------------------------------------------------------------
\* The object can be called.
Ready(h) == state[h] = "idle"

Goes(h, s) == state' = [state EXCEPT ![h] = s]

\* A wrong CreateFile: the object is not cleared when it is made: fd is anything.
CreateFileUncleared(h) ==
    /\ state[h] = "none"
    /\ Goes(h, "idle")
    /\ fd' = [fd EXCEPT ![h] = 7]
    /\ UNCHANGED <<disk, file, buf, history, kind>>

\* create_wfile, create_rfile, create_afile: fd is 0, not -1.
CreateFile(h) ==
    /\ state[h] = "none"
    /\ Goes(h, "idle")
    /\ fd' = [fd EXCEPT ![h] = 0]
    /\ UNCHANGED <<disk, file, buf, history, kind>>

\* A wrong Access: access is not asked.
AccessNot(h) ==
    /\ Ready(h)
    /\ file[h] = NULL
    /\ Goes(h, "create")
    /\ UNCHANGED <<disk, stream, history, kind>>

\* file_open: access(path, F_OK).  An object is opened only when it is closed.
Access(h) ==
    /\ Ready(h)
    /\ file[h] = NULL
    /\ Goes(h, IF path = NULL THEN "create" ELSE "open")
    /\ UNCHANGED <<disk, stream, history, kind>>

\* fopen(path, "w") makes the file, or empties the one that is there by now.
FopenW(h) ==
    /\ state[h] = "create"
    /\ Goes(h, "open")
    /\ IF path = NULL
       THEN \E i \in unused :
            /\ path' = i
            /\ unused' = unused \ {i}
            /\ raced' = (raced \cup {g \in Handle : state[g] = "create"}) \ {h}
            /\ UNCHANGED data
       ELSE /\ data' = [data EXCEPT ![path] = <<>>]
            /\ raced' = raced \ {h}
            /\ UNCHANGED <<path, unused>>
    /\ UNCHANGED <<stream, author, opened, kind>>

\* It fails, and fclose is given its NULL.
FopenWFails(h) ==
    /\ state[h] = "create"
    /\ Goes(h, "nofile")
    /\ UNCHANGED <<disk, stream, history, kind>>

\* fopen(path, mode): "a+" makes a file that is missing again.
OpenStream(h) ==
    /\ state[h] = "open"
    /\ IF path = NULL
       THEN /\ kind[h] = "append"
            /\ \E i \in unused : path' = i /\ unused' = unused \ {i}
            /\ raced' = raced \cup {g \in Handle : state[g] = "create"}
       ELSE UNCHANGED <<path, unused, raced>>
    /\ Goes(h, "idle")
    /\ file' = [file EXCEPT ![h] = path']
    /\ fd' = [fd EXCEPT ![h] = 1]
    /\ opened' = opened \cup {h}
    /\ UNCHANGED <<data, buf, author, kind>>

\* SPG_ERR; fd stays what it was.
OpenFails(h) ==
    /\ state[h] = "open"
    /\ Goes(h, "idle")
    /\ UNCHANGED <<disk, stream, history, kind>>

\* fclose: the buffer is written out; a NULL stream is fatal.
Fclose(h) ==
    IF file[h] = NULL
    THEN Goes(h, "fault") /\ UNCHANGED <<data, stream>>
    ELSE /\ Drain(h)
         /\ file' = [file EXCEPT ![h] = NULL]
         /\ fd' = [fd EXCEPT ![h] = -1]
         /\ UNCHANGED state

\* A wrong ClosesStream: _wf_close does not test fd either.
ClosesAlways(h) == TRUE

\* _wf_close, which _af_close is, tests fd; _rf_close does not.
ClosesStream(h) == fd[h] # -1 \/ kind[h] = "read"

CloseFile(h) ==
    /\ Ready(h)
    /\ ClosesStream(h)
    /\ Fclose(h)
    /\ UNCHANGED <<path, unused, history, kind>>

\* destroy_wfile, destroy_afile, destroy_rfile of an open object, or of one
\* that was never opened.
DestroyOpen(h) ==
    /\ Ready(h)
    /\ fd[h] # -1
    /\ IF file[h] = NULL
       THEN Goes(h, "fault") /\ UNCHANGED <<data, stream, opened>>
       ELSE /\ Drain(h)
            /\ file' = [file EXCEPT ![h] = NULL]
            /\ fd' = [fd EXCEPT ![h] = -1]
            /\ Goes(h, "none")
            /\ opened' = opened \ {h}
    /\ UNCHANGED <<path, unused, author, raced, kind>>

DestroyClosed(h) ==
    /\ Ready(h)
    /\ fd[h] = -1
    /\ Goes(h, "none")
    /\ opened' = opened \ {h}
    /\ UNCHANGED <<disk, stream, author, raced, kind>>

-----------------------------------------------------------------------------
\* _wf_write and _af_append go on: the path exists and the object is open.
Writable(h) ==
    /\ Ready(h)
    /\ path # NULL
    /\ fd[h] # -1
    /\ file[h] # NULL
    /\ Len(author) < MaxChunks

\* Where fseek goes; -1 is right behind the last chunk.
Seek(h, off) == IF off < 0 THEN Len(Drained(h)) + off + 1 ELSE off

\* fseek writes the buffer out; fwrite fills it.
Write(h, off) ==
    /\ kind[h] = "write"
    /\ Writable(h)
    /\ Seek(h, off) >= 0
    /\ author' = Append(author, h)
    /\ data' = [data EXCEPT ![file[h]] = Drained(h)]
    /\ buf' = [buf EXCEPT ![h] = <<[at |-> Seek(h, off), chunk |-> Len(author')]>>]
    /\ UNCHANGED <<path, unused, state, file, fd, opened, raced, kind>>

\* A wrong AppendAt: a stream opened with "rb+" and no seek.
AppendAtPosition(h) == Len(buf[h])

\* A stream opened with "a+" writes at the end of the file as it then is.
AppendAt(h) == AtEnd

AppendTo(h) ==
    /\ kind[h] = "append"
    /\ Writable(h)
    /\ author' = Append(author, h)
    /\ buf' = [buf EXCEPT ![h] =
                   Append(@, [at |-> AppendAt(h), chunk |-> Len(author')])]
    /\ UNCHANGED <<disk, state, file, fd, opened, raced, kind>>

\* Before the first open fflush is given NULL and flushes all streams of the
\* process: each as in Spill.
Flush(h) ==
    /\ kind[h] # "read"
    /\ Ready(h)
    /\ fd[h] # -1
    /\ file[h] # NULL
    /\ Drain(h)
    /\ UNCHANGED <<path, unused, state, file, fd, history, kind>>

\* _rf_read and _rf_bias_read test fd, which is 0 before the first open.
ReadUnopened(h) ==
    /\ kind[h] = "read"
    /\ Ready(h)
    /\ path # NULL
    /\ fd[h] # -1
    /\ file[h] = NULL
    /\ Goes(h, "fault")
    /\ UNCHANGED <<disk, stream, history, kind>>

Next ==
    \/ Unlink
    \/ \E h \in Handle :
        \/ CreateFile(h) \/ DestroyOpen(h) \/ DestroyClosed(h)
        \/ Access(h) \/ FopenW(h) \/ FopenWFails(h)
        \/ OpenStream(h) \/ OpenFails(h) \/ CloseFile(h)
        \/ \E off \in Offsets : Write(h, off)
        \/ AppendTo(h) \/ Flush(h) \/ ReadUnopened(h)
        \/ Spill(h) \/ Crash(h)

Spec == Init /\ [][Next]_vars

-----------------------------------------------------------------------------
\* After the first open the tests of fd in _wf_close, _wf_flush and _wf_write
\* stand for tests of the stream: so no function uses the NULL stream of an object
\* that was opened since it was created, however opens, failed opens and closes
\* follow each other, but for _rf_close, called twice; one never opened is not
\* safe to close or destroy.
OpenedNeverFaults == \A h \in Handle :
    /\ file[h] # NULL => fd[h] = 1
    /\ h \in opened =>
        /\ file[h] = NULL => fd[h] = -1
        /\ state[h] = "fault" => kind[h] = "read" /\ fd[h] = -1

\* The chunks in file i, and those on their way to it.
On(i) ==
    (Range(data[i]) \ {Hole})
        \cup UNION {{e.chunk : e \in Range(buf[h])} : h \in {g \in Handle : file[g] = i}}

\* The buffer of h holds a chunk for the place that c has in the file.
Overwrites(h, c) == \E e \in Range(buf[h]) :
    e.at + 1 \in DOMAIN data[file[h]] /\ data[file[h]][e.at + 1] = c

\* What _wf_write and _af_append accepted goes to the file and stays there,
\* whatever the other objects do, unless a random write that leaves its buffer is
\* for the chunk's own position, its process ends before it was flushed, or
\* file_open empties the file because it was made between its access and its
\* fopen(path, "w").
ChunksStay ==
    [][\A i \in Inode : \A c \in On(i) \ On(i)' :
        \/ \E h \in Handle : file[h] = i /\ buf'[h] # buf[h] /\ Overwrites(h, c)
        \/ state'[author[c]] = "none" /\ c \notin Range(data[i])
        \/ \E h \in raced : i = path /\ state[h] = "create" /\ state'[h] = "open"]_vars

\* What one object appends is in the file in the order of its calls, each chunk
\* once, though other streams append to the same file.
AppendedInOrder ==
    \A i \in Inode : \A p, q \in DOMAIN data[i] :
        LET c == data[i][p]
            d == data[i][q]
        IN  (p < q /\ Hole \notin {c, d} /\ author[c] = author[d]
                /\ kind[author[c]] = "append") => c < d
=============================================================================
