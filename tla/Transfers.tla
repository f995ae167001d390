------------------------------ MODULE Transfers ------------------------------
(***************************************************************************)
(* What the uploads of src/fs.rs write into the files of one folder, field *)
(* by field and chunk by chunk, and what the downloads of the example      *)
(* client (examples/fs_client.rs) make of them.  Who may do what, and what *)
(* happens to the folder, is in FileStore: here every request is granted   *)
(* and the folder is there.  A panic, which ends the server, is left out.  *)
(***************************************************************************)
EXTENDS Integers, Sequences

CONSTANTS
    Request,    \* requests for the folder
    File,       \* sanitized file names
    Most        \* bound of the model: chunks that one upload consists of

ASSUME MostAssumption == Most \in Nat

VARIABLES
    disk,       \* file name -> inode, or NoInode
    data,       \* inode -> the chunks in it
    job,        \* request -> its handler and its peer
    local,      \* file name -> the client's copy in test_download, by chunks
    clash       \* history: <<request, file>> that another request interfered with

transferVars == <<disk, data, job, local, clash>>

None == "none"
ASSUME NoneAssumption == None \notin Request

\* An inode is named for the request and the name that it was created for.
Inode == Request \X File
NoInode == <<None, None>>

\* Chunks: those of an upload are numbered.
NumberOf(r, k) == <<r, k>>
Hole == <<"hole", 0>>       \* zeros, where a file was shorter than a write's offset
ErrorBody == <<"error", 0>> \* the body of a response that is not a file

Ended == {"created", "rejected", "ok", "failed"}

\* at: where the handler is; pos: its offset; appends: whether it writes at the end;
\* sent: history, the chunks for each file, those that the handler never came to as well;
\* broke: history, whether it stopped at an error where it expected a field.
NewJob == [op |-> None, at |-> "new", file |-> None, inode |-> NoInode, pos |-> 0, chunks |-> 0,
           fields |-> 0, appends |-> FALSE, opened |-> {}, sent |-> [f \in File |-> <<>>],
           broke |-> FALSE]

Step(r, at) == job' = [job EXCEPT ![r].at = at]

Busy(r, op, at) == job[r].op = op /\ job[r].at = at

Writers(r, f) == {q \in Request \ {r} : f \in job[q].opened}
Readers(f) == {q \in Request : Busy(q, "GET", "reading") /\ job[q].file = f}
Overtaking(r, f) == {q \in {r} : \E p \in Writers(r, f) : job[p].at \notin Ended}
Clashing(requests, f) == clash \cup {<<q, f>> : q \in requests}

-----------------------------------------------------------------------------
(* The upload handlers                                                     *)

\* Slip: a file that is there keeps what it has.
OpenKeeping(r, op, f, at) ==
    LET inode == IF disk[f] = NoInode THEN <<r, f>> ELSE disk[f]
    IN  /\ disk' = [disk EXCEPT ![f] = inode]
        /\ job' = [job EXCEPT ![r] = [job[r] EXCEPT !.op = op, !.at = at, !.file = f, !.inode = inode,
                                                    !.pos = 0, !.appends = FALSE, !.opened = @ \cup {f}]]
        /\ clash' = Clashing(Writers(r, f) \cup Readers(f) \cup Overtaking(r, f), f)
        /\ UNCHANGED <<data, local>>

\* The file is created, or emptied when it is there: that of a handler at work as well.
Open(r, op, f, at) ==
    LET inode == IF disk[f] = NoInode THEN <<r, f>> ELSE disk[f]
    IN  /\ disk' = [disk EXCEPT ![f] = inode]
        /\ data' = [data EXCEPT ![inode] = <<>>]
        /\ job' = [job EXCEPT ![r] = [job[r] EXCEPT !.op = op, !.at = at, !.file = f, !.inode = inode,
                                                    !.pos = 0, !.appends = FALSE, !.opened = @ \cup {f}]]
        /\ clash' = Clashing(Writers(r, f) \cup Readers(f) \cup Overtaking(r, f), f)
        /\ UNCHANGED local

\* A single upload opens the file of its path before it reads the stream.
BeginSingle(r, f) ==
    /\ job[r].at = "new"
    /\ Open(r, "POST", f, "between")

\* The example client sends the bare file: where the handler expects the first field it
\* meets an error.
BeginRaw(r, f) ==
    /\ job[r].at = "new"
    /\ Open(r, "RAW", f, "between")

BeginMulti(r) ==
    /\ job[r].at = "new"
    /\ job' = [job EXCEPT ![r].op = "POST_MULTI", ![r].at = "between"]
    /\ UNCHANGED <<disk, data, local, clash>>

\* The fields of a single upload go to its one file, one after the other.
FieldOfSingle(r) ==
    /\ Busy(r, "POST", "between")
    /\ job' = [job EXCEPT ![r].at = "field", ![r].fields = 1]
    /\ UNCHANGED <<disk, data, local, clash>>

NewField(r, f) ==
    /\ Busy(r, "POST_MULTI", "between")
    /\ f \notin job[r].opened
    /\ Open(r, "POST_MULTI", f, "field")

\* A field with a name that was met is appended to what has that name now.
KnownField(r, f) ==
    /\ Busy(r, "POST_MULTI", "between")
    /\ f \in job[r].opened
    /\ job' = [job EXCEPT ![r] = IF disk[f] = NoInode THEN [@ EXCEPT !.at = "failed"]
                                 ELSE [@ EXCEPT !.at = "field", !.file = f, !.inode = disk[f], !.appends = TRUE]]
    /\ UNCHANGED <<disk, data, local, clash>>

\* chunks with c at the offset.
Written(chunks, offset, c) ==
    [i \in 1 .. (IF offset < Len(chunks) THEN Len(chunks) ELSE offset + 1) |->
        IF i = offset + 1 THEN c ELSE IF i <= Len(chunks) THEN chunks[i] ELSE Hole]

\* write_all from the thread pool; the file may have lost its name, or been emptied.
Chunk(r) ==
    LET j == job[r]
        c == NumberOf(r, j.chunks + 1)
        offset == IF j.appends THEN Len(data[j.inode]) ELSE j.pos
    IN  /\ j.at = "field"
        /\ j.chunks < Most
        /\ data' = [data EXCEPT ![j.inode] = Written(@, offset, c)]
        /\ job' = [job EXCEPT ![r] = [j EXCEPT !.pos = offset + 1, !.chunks = @ + 1,
                                               !.sent[j.file] = Append(@, c)]]
        /\ UNCHANGED <<disk, local, clash>>

FieldEnds(r) ==
    /\ job[r].at = "field"
    /\ Step(r, "between")
    /\ UNCHANGED <<disk, data, local, clash>>

StreamEnds(r) ==
    /\ job[r].at = "between"
    /\ job[r].op # "RAW"
    /\ Step(r, "created")
    /\ UNCHANGED <<disk, data, local, clash>>

\* An error where the next field is expected ends the loop like the end does, and what the
\* peer has sent behind it (one chunk stands for it) is answered with 201 as well.
StreamFails(r) ==
    /\ job[r].at = "between"
    /\ \E f \in File, rest \in {<<>>, <<NumberOf(r, job[r].chunks + 1)>>} :
        /\ job[r].op # "POST_MULTI" => f = job[r].file
        /\ job' = [job EXCEPT ![r].at = "created", ![r].broke = TRUE, ![r].sent[f] = @ \o rest]
    /\ UNCHANGED <<disk, data, local, clash>>

Unlink(r, f) ==
    /\ disk' = [disk EXCEPT ![f] = NoInode]
    /\ clash' = Clashing(Writers(r, f), f)
    /\ UNCHANGED <<data, local>>

\* A later field of a single upload names another file.
Mismatch(r) ==
    /\ Busy(r, "POST", "between")
    /\ job[r].fields > 0
    /\ Step(r, "rejected")
    /\ Unlink(r, job[r].file)

Delete(r, f) ==
    /\ job[r].at = "new"
    /\ disk[f] # NoInode
    /\ job' = [job EXCEPT ![r].op = "DELETE", ![r].at = "ok"]
    /\ Unlink(r, f)

-----------------------------------------------------------------------------
(* The downloads of the example client                                     *)

\* The client finishes one command before it reads the next.
ClientIdle == \A q \in Request : job[q].at # "reading"

\* The length of the answer is fixed when the file is opened; the client opens its
\* copy without emptying it.
Get(r, f) ==
    /\ job[r].at = "new" /\ ClientIdle
    /\ disk[f] # NoInode
    /\ job' = [job EXCEPT ![r] = [@ EXCEPT !.op = "GET", !.at = "reading", !.file = f, !.inode = disk[f],
                                           !.chunks = Len(data[disk[f]])]]
    /\ clash' = Clashing(Overtaking(r, f), f)
    /\ UNCHANGED <<disk, data, local>>

\* The client does not look at the status.
GetMissing(r, f) ==
    /\ job[r].at = "new" /\ ClientIdle
    /\ disk[f] = NoInode
    /\ job' = [job EXCEPT ![r].op = "GET", ![r].at = "ok", ![r].file = f, ![r].sent[f] = <<ErrorBody>>]
    /\ local' = [local EXCEPT ![f] = Written(@, 0, ErrorBody)]
    /\ UNCHANGED <<disk, data, clash>>

\* The next chunk, if the file has not been emptied meanwhile.
Read(r) ==
    LET j == job[r]
    IN  /\ j.at = "reading"
        /\ j.pos < j.chunks
        /\ IF j.pos < Len(data[j.inode])
           THEN LET c == data[j.inode][j.pos + 1]
                IN  /\ local' = [local EXCEPT ![j.file] = Written(@, j.pos, c)]
                    /\ job' = [job EXCEPT ![r].pos = @ + 1, ![r].sent[j.file] = Append(@, c)]
           ELSE UNCHANGED local /\ Step(r, "failed")
        /\ UNCHANGED <<disk, data, clash>>

\* "Done writing!"
Done(r) ==
    /\ job[r].at = "reading"
    /\ job[r].pos = job[r].chunks
    /\ Step(r, "ok")
    /\ UNCHANGED <<disk, data, local, clash>>

-----------------------------------------------------------------------------
Init ==
    /\ disk = [f \in File |-> NoInode]
    /\ data = [i \in Inode |-> <<>>]
    /\ job = [r \in Request |-> NewJob]
    /\ local = [f \in File |-> <<>>]
    /\ clash = {}

Next ==
    \E r \in Request :
        \/ BeginMulti(r) \/ FieldOfSingle(r)
        \/ Chunk(r) \/ FieldEnds(r)
        \/ StreamEnds(r) \/ StreamFails(r) \/ Mismatch(r)
        \/ Read(r) \/ Done(r)
        \/ \E f \in File :
            \/ BeginSingle(r, f) \/ BeginRaw(r, f)
            \/ NewField(r, f) \/ KnownField(r, f)
            \/ Delete(r, f) \/ Get(r, f) \/ GetMissing(r, f)

Spec == Init /\ [][Next]_transferVars

-----------------------------------------------------------------------------
(* Properties                                                              *)

\* What a request puts into a file, or takes from it, is not mixed with anything unless
\* another request opened or removed the same file meanwhile.  An upload that is answered
\* with 201 has in its file the beginning of what was sent for it, in order and with nothing
\* else, over however many fields it came and whatever the file had before; and all of it,
\* unless its stream had an error between two fields, or no field at all (the bare file of
\* the example client).  A download does not fail, and what it has put at the head of the
\* copy is the file's.
Intact ==
    \A r \in Request, f \in File : <<r, f>> \notin clash =>
        LET j == job[r]
            stored == data[disk[f]]
        IN  /\ j.at = "created" /\ f \in j.opened =>
                    /\ disk[f] # NoInode
                    /\ Len(stored) <= Len(j.sent[f])
                    /\ stored = SubSeq(j.sent[f], 1, Len(stored))
                    /\ j.broke \/ stored = j.sent[f]
            /\ j.op = "GET" /\ j.file = f => j.at # "failed"
            /\ r \in Readers(f) =>
                    /\ j.chunks = Len(data[j.inode])
                    /\ SubSeq(local[f], 1, j.pos) = SubSeq(data[j.inode], 1, j.pos)
=============================================================================
