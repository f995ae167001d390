--------------------------- MODULE TransfersProofs --------------------------
(***************************************************************************)
(* Proofs about uploads and downloads, for every set of requests and of    *)
(* files and any number of chunks: that nothing is lost or mixed in.       *)
(***************************************************************************)
EXTENDS Transfers, SequenceTheorems, TLAPS

-----------------------------------------------------------------------------
(* The inductive invariant                                                 *)

Chunks == (Request \X Nat) \cup {Hole, ErrorBody}

\* An inode keeps the name that it was created for.
Named(f) == Request \X {f}

Uploads == {"POST", "RAW", "POST_MULTI"}
Job == [op : Uploads \cup {None, "GET", "DELETE"},
        at : {"new", "between", "field", "reading"} \cup Ended,
        file : File \cup {None}, inode : Inode \cup {NoInode}, pos : Nat, chunks : Nat, fields : Nat,
        appends : BOOLEAN, opened : SUBSET File, sent : [File -> Seq(Chunks)],
        broke : BOOLEAN]

TransfersTyped ==
    /\ \A f \in File : disk[f] \in Named(f) \cup {NoInode}
    /\ disk \in [File -> Inode \cup {NoInode}]
    /\ data \in [Inode -> Seq(Chunks)]
    /\ job \in [Request -> Job]
    /\ local \in [File -> Seq(Chunks)]
    /\ clash \subseteq Request \X File

\* What a handler has at hand follows from what it was asked for and where it is.
Sound(j) ==
    /\ j.at = "new" => j.op = None /\ j.pos = 0
    /\ j.at \in {"between", "field", "created"} => j.op \in Uploads
    /\ j.at = "reading" => j.op = "GET" /\ j.file \in File /\ j.inode \in Named(j.file)
    /\ j.op \in {None, "GET", "DELETE"} => j.opened = {}
    /\ j.op \in {"POST", "RAW"} => j.opened = {j.file}
    /\ j.at = "field" \/ j.op \in {"POST", "RAW"} => j.file \in j.opened /\ j.inode \in Named(j.file)
    /\ j.broke => j.at = "created"
    /\ j.op # "GET" /\ ~j.broke => \A f \in File \ j.opened : j.sent[f] = <<>>

JobInv == \A r \in Request : Sound(job[r])

Alone(r, f) == \A q \in Writers(r, f) : job[q].at \in Ended

\* Whoever else has opened a file that is still r's alone has ended.
AloneInv ==
    \A r \in Request, f \in File :
        /\ <<r, f>> \notin clash
        /\ f \in job[r].opened \/ (job[r].at = "reading" /\ job[r].file = f)
        => Alone(r, f)

\* The file of an upload has what was sent for it, up to where its stream broke, and the
\* handler writes at its end.
Uploaded(j, f) ==
    /\ disk[f] # NoInode
    /\ j.broke => /\ Len(data[disk[f]]) <= Len(j.sent[f])
                  /\ data[disk[f]] = SubSeq(j.sent[f], 1, Len(data[disk[f]]))
    /\ ~j.broke => data[disk[f]] = j.sent[f]
    /\ ~j.broke /\ (j.at = "field" \/ j.op = "POST") /\ j.file = f =>
            j.inode = disk[f] /\ (j.appends \/ j.pos = Len(j.sent[f]))

UploadInv ==
    \A r \in Request, f \in File :
        /\ <<r, f>> \notin clash /\ f \in job[r].opened
        /\ job[r].at \in {"between", "field", "created"}
        => Uploaded(job[r], f)

\* What a download has read is at the head of the copy.
Downloaded(j) ==
    /\ j.chunks = Len(data[j.inode]) /\ j.pos <= j.chunks
    /\ \A i \in 1 .. j.pos : local[j.file][i] = data[j.inode][i]

DownloadInv ==
    /\ \A q, r \in Request : job[q].at = "reading" /\ job[r].at = "reading" => q = r
    /\ \A r \in Request :
        /\ job[r].at = "reading" => job[r].pos <= Len(local[job[r].file])
        /\ job[r].at = "reading" /\ <<r, job[r].file>> \notin clash => Downloaded(job[r])
        /\ job[r].op = "GET" /\ job[r].at = "failed" => <<r, job[r].file>> \in clash

TransfersInv == TransfersTyped /\ JobInv /\ AloneInv /\ UploadInv /\ DownloadInv

-----------------------------------------------------------------------------
(* What the operators do                                                   *)

\* The mark of an empty entry is no inode that a file has.
LEMMA InodesNamed ==
    ASSUME NEW r \in Request, NEW f \in File
    PROVE  <<r, f>> \in Named(f) /\ <<r, f>> \in Inode /\ <<r, f>> # NoInode
    BY NoneAssumption DEF Named, Inode, NoInode

\* Files that differ have different inodes.
LEMMA NamesApart ==
    ASSUME NEW f \in File, NEW g \in File, f # g, NEW i \in Named(f), NEW k \in Named(g)
    PROVE  i # k
    BY DEF Named

LEMMA NewJobTyped == NewJob \in Job
<1>1. [f \in File |-> <<>>] \in [File -> Seq(Chunks)]
    <2>1. <<>> \in Seq(Chunks)
        OBVIOUS
    <2> QED BY <2>1
<1> QED BY <1>1 DEF NewJob, Job, Ended

\* A chunk at some offset leaves a sequence with what was before it, and the chunk.
LEMMA WrittenIs ==
    ASSUME NEW chunks \in Seq(Chunks), NEW offset \in Nat, NEW c \in Chunks
    PROVE  /\ Written(chunks, offset, c) \in Seq(Chunks)
           /\ Len(Written(chunks, offset, c)) > offset
           /\ Len(Written(chunks, offset, c)) >= Len(chunks)
           /\ Written(chunks, offset, c)[offset + 1] = c
           /\ \A i \in 1 .. Len(chunks) : i # offset + 1 => Written(chunks, offset, c)[i] = chunks[i]
<1> DEFINE n == IF offset < Len(chunks) THEN Len(chunks) ELSE offset + 1
           At(i) == IF i = offset + 1 THEN c ELSE IF i <= Len(chunks) THEN chunks[i] ELSE Hole
<1>1. n \in Nat /\ n > offset /\ n >= Len(chunks)
    OBVIOUS
<1>2. \A i \in 1 .. n : At(i) \in Chunks
    <2> TAKE i \in 1 .. n
    <2>1. Hole \in Chunks
        BY DEF Chunks
    <2>2. i <= Len(chunks) => chunks[i] \in Chunks
        BY <1>1
    <2> QED BY <2>1, <2>2
<1>3. Written(chunks, offset, c) = [i \in 1 .. n |-> At(i)]
    BY DEF Written
<1> HIDE DEF n, At
<1>4. Written(chunks, offset, c) \in Seq(Chunks) /\ Len(Written(chunks, offset, c)) = n
    BY <1>1, <1>2, <1>3
<1>5. \A i \in 1 .. n : Written(chunks, offset, c)[i] = At(i)
    BY <1>3
<1> QED BY <1>1, <1>4, <1>5 DEF At

\* At the end it is appended.
LEMMA WrittenAtEnd ==
    ASSUME NEW chunks \in Seq(Chunks), NEW c \in Chunks
    PROVE  Written(chunks, Len(chunks), c) = Append(chunks, c)
<1>1. /\ Written(chunks, Len(chunks), c) \in Seq(Chunks)
      /\ Len(Written(chunks, Len(chunks), c)) = Len(chunks) + 1
    <2>1. Written(chunks, Len(chunks), c) \in Seq(Chunks)
        BY WrittenIs
    <2> QED BY <2>1 DEF Written
<1>2. /\ Append(chunks, c) \in Seq(Chunks)
      /\ Len(Append(chunks, c)) = Len(chunks) + 1
    OBVIOUS
<1>3. \A i \in 1 .. Len(chunks) + 1 : Written(chunks, Len(chunks), c)[i] = Append(chunks, c)[i]
    <2>1. \A i \in 1 .. Len(chunks) : Written(chunks, Len(chunks), c)[i] = chunks[i]
        BY WrittenIs
    <2>2. Written(chunks, Len(chunks), c)[Len(chunks) + 1] = c
        BY WrittenIs
    <2> QED BY <2>1, <2>2
<1> QED BY <1>1, <1>2, <1>3, SeqEqual

\* A sequence begins with itself, whatever is put behind it.
LEMMA Begins ==
    ASSUME NEW s \in Seq(Chunks), NEW rest \in Seq(Chunks)
    PROVE  /\ SubSeq(s, 1, Len(s)) = s /\ Len(s) <= Len(s)
           /\ SubSeq(s \o rest, 1, Len(s)) = s /\ Len(s) <= Len(s \o rest)
<1>1. SubSeq(s, 1, Len(s)) \in Seq(Chunks) /\ Len(SubSeq(s, 1, Len(s))) = Len(s)
    OBVIOUS
<1>2. s \o rest \in Seq(Chunks) /\ Len(s) <= Len(s \o rest)
    OBVIOUS
<1>3. SubSeq(s \o rest, 1, Len(s)) \in Seq(Chunks) /\ Len(SubSeq(s \o rest, 1, Len(s))) = Len(s)
    BY <1>2
<1>4. \A i \in 1 .. Len(s) : SubSeq(s, 1, Len(s))[i] = s[i] /\ SubSeq(s \o rest, 1, Len(s))[i] = s[i]
    BY <1>2
<1>5. Len(s) <= Len(s)
    OBVIOUS
<1> QED BY <1>1, <1>2, <1>3, <1>4, <1>5, SeqEqual

-----------------------------------------------------------------------------
(* What a handler's step does                                              *)

\* The other handlers are where they were.
Alike(r) == job' = [job EXCEPT ![r] = job'[r]]

\* r has opened f, empty, and works on no other file.
Opened(r, f) ==
    /\ f \in File /\ job[r].at \in {"new", "between"} /\ f \notin job[r].opened
    /\ Alike(r)
    /\ job'[r] \in Job /\ job'[r].op \in Uploads /\ job'[r].at \in {"between", "field"}
    /\ job'[r].op \in {"POST", "RAW"} => job[r].opened = {}
    /\ job'[r].file = f /\ job'[r].inode \in Named(f) /\ job'[r].pos = 0
    /\ job'[r].opened = job[r].opened \cup {f} /\ job'[r].sent = job[r].sent
    /\ job'[r].broke = job[r].broke
    /\ disk' = [disk EXCEPT ![f] = job'[r].inode]
    /\ data' = [data EXCEPT ![job'[r].inode] = <<>>]
    /\ local' = local
    /\ clash' = Clashing(Writers(r, f) \cup Readers(f) \cup Overtaking(r, f), f)

LEMMA OpenOpens ==
    ASSUME TransfersTyped, JobInv, NEW r \in Request, NEW f \in File,
           BeginSingle(r, f) \/ BeginRaw(r, f) \/ NewField(r, f)
    PROVE  Opened(r, f)
<1>1. job \in [Request -> Job] /\ job[r] \in Job /\ Sound(job[r])
    BY DEF TransfersTyped, JobInv
<1>2. (IF disk[f] = NoInode THEN <<r, f>> ELSE disk[f]) \in Named(f)
    BY InodesNamed DEF TransfersTyped
<1>3. Named(f) \subseteq Inode
    BY DEF Named, Inode
<1> DEFINE inode == IF disk[f] = NoInode THEN <<r, f>> ELSE disk[f]
<1> HIDE DEF inode
<1>4. PICK op \in Uploads, at \in {"between", "field"} :
        /\ Open(r, op, f, at)
        /\ job[r].at \in {"new", "between"} /\ f \notin job[r].opened
        /\ op \in {"POST", "RAW"} => job[r].opened = {}
    <2>1. CASE BeginSingle(r, f)
        BY <1>1, <2>1 DEF BeginSingle, Sound, Uploads
    <2>2. CASE BeginRaw(r, f)
        BY <1>1, <2>2 DEF BeginRaw, Sound, Uploads
    <2>3. CASE NewField(r, f)
        BY <1>1, <2>3 DEF NewField, Busy, Uploads
    <2> QED BY <2>1, <2>2, <2>3
<1> DEFINE new == [job[r] EXCEPT !.op = op, !.at = at, !.file = f, !.inode = inode,
                                 !.pos = 0, !.appends = FALSE, !.opened = @ \cup {f}]
<1>5. /\ disk' = [disk EXCEPT ![f] = inode]
      /\ data' = [data EXCEPT ![inode] = <<>>]
      /\ job' = [job EXCEPT ![r] = new]
      /\ local' = local
      /\ clash' = Clashing(Writers(r, f) \cup Readers(f) \cup Overtaking(r, f), f)
    BY <1>4 DEF Open, inode
<1>6. inode \in Named(f) /\ inode \in Inode
    BY <1>2, <1>3 DEF inode
<1>7. /\ new.op = op /\ new.at = at /\ new.file = f
      /\ new.inode = inode /\ new.pos = 0
      /\ new.opened = job[r].opened \cup {f} /\ new.sent = job[r].sent
      /\ new.broke = job[r].broke
    BY <1>1 DEF Job
<1>8. new \in Job
    <2>1. op \in Uploads \cup {None, "GET", "DELETE"}
        OBVIOUS
    <2>2. at \in {"new", "between", "field", "reading"} \cup Ended
        OBVIOUS
    <2> QED BY <1>1, <1>6, <2>1, <2>2 DEF Job
<1> HIDE DEF new
<1>9. job'[r] = new /\ Alike(r)
    BY <1>1, <1>5 DEF Alike
<1> QED BY <1>4, <1>5, <1>6, <1>7, <1>8, <1>9 DEF Opened

\* f has lost its name, and r is done.
Unlinked(r, f) ==
    /\ f \in File /\ job[r].at \notin Ended
    /\ Alike(r)
    /\ job'[r] \in Job /\ job'[r].at \in {"rejected", "ok"} /\ Sound(job'[r])
    /\ job'[r].opened = job[r].opened
    /\ disk' = [disk EXCEPT ![f] = NoInode]
    /\ data' = data /\ local' = local
    /\ clash' = Clashing(Writers(r, f), f)

LEMMA MismatchUnlinks ==
    ASSUME TransfersTyped, JobInv, NEW r \in Request, Mismatch(r)
    PROVE  job[r].file \in File /\ Unlinked(r, job[r].file)
<1>1. job \in [Request -> Job] /\ job[r] \in Job /\ Sound(job[r])
    BY DEF TransfersTyped, JobInv
<1>2. /\ job[r].op = "POST" /\ job[r].at = "between"
      /\ job' = [job EXCEPT ![r].at = "rejected"]
      /\ Unlink(r, job[r].file)
    BY DEF Mismatch, Busy, Step
<1>3. job'[r] = [job[r] EXCEPT !.at = "rejected"]
    BY <1>1, <1>2
<1>4. job[r].file \in File
    BY <1>1, <1>2 DEF Sound, Job
<1>5. Alike(r)
    BY <1>1, <1>2 DEF Alike
<1>6. job'[r] \in Job
    BY <1>1, <1>3 DEF Job, Ended
<1>7. Sound(job'[r]) /\ job'[r].opened = job[r].opened /\ job'[r].at = "rejected"
    BY <1>1, <1>2, <1>3 DEF Sound, Job
<1> QED BY <1>2, <1>4, <1>5, <1>6, <1>7 DEF Unlinked, Unlink, Ended

LEMMA DeleteUnlinks ==
    ASSUME TransfersTyped, JobInv, NEW r \in Request, NEW f \in File, Delete(r, f)
    PROVE  Unlinked(r, f)
<1>1. job \in [Request -> Job] /\ job[r] \in Job /\ Sound(job[r])
    BY DEF TransfersTyped, JobInv
<1>2. /\ job[r].at = "new"
      /\ job' = [job EXCEPT ![r].op = "DELETE", ![r].at = "ok"]
      /\ Unlink(r, f)
    BY DEF Delete
<1>3. job'[r] = [job[r] EXCEPT !.op = "DELETE", !.at = "ok"]
    BY <1>1, <1>2
<1>4. Alike(r)
    BY <1>1, <1>2 DEF Alike
<1>5. job'[r] \in Job
    BY <1>1, <1>3 DEF Job, Ended
<1>6. Sound(job'[r]) /\ job'[r].opened = job[r].opened /\ job'[r].at = "ok"
    BY <1>1, <1>2, <1>3 DEF Sound, Job, Uploads, None
<1> QED BY <1>2, <1>4, <1>5, <1>6 DEF Unlinked, Unlink, Ended

\* r has gone on without touching a file.
Quiet(r) ==
    /\ job[r].at \notin Ended
    /\ Alike(r)
    /\ job'[r] \in Job /\ Sound(job'[r]) /\ job'[r].at # "reading"
    /\ job'[r].op = "GET" => job'[r].at # "failed"
    /\ job'[r].opened = job[r].opened /\ job'[r].sent = job[r].sent
    /\ job'[r].broke = job[r].broke
    /\ job'[r].opened # {} /\ job'[r].at \in {"between", "field", "created"} =>
        /\ job[r].at \in {"between", "field"}
        /\ job'[r].at = "field" \/ job'[r].op = "POST" =>
            \/ /\ job[r].at = "field" \/ job[r].op = "POST"
               /\ job'[r].file = job[r].file /\ job'[r].inode = job[r].inode
               /\ job'[r].pos = job[r].pos /\ job'[r].appends = job[r].appends
            \/ job'[r].inode = disk[job'[r].file] /\ job'[r].appends
    /\ UNCHANGED <<disk, data, local, clash>>

LEMMA StepsQuiet ==
    ASSUME TransfersTyped, JobInv, NEW r \in Request,
           \/ BeginMulti(r) \/ FieldOfSingle(r) \/ FieldEnds(r) \/ StreamEnds(r)
           \/ Done(r) \/ \E f \in File : KnownField(r, f)
    PROVE  Quiet(r)
<1>1. job \in [Request -> Job] /\ job[r] \in Job /\ Sound(job[r])
    BY DEF TransfersTyped, JobInv
<1>2. CASE BeginMulti(r)
    <2>1. /\ job[r].at = "new"
          /\ job' = [job EXCEPT ![r].op = "POST_MULTI", ![r].at = "between"]
          /\ UNCHANGED <<disk, data, local, clash>>
        BY <1>2 DEF BeginMulti
    <2>2. job'[r] = [job[r] EXCEPT !.op = "POST_MULTI", !.at = "between"] /\ Alike(r)
        BY <1>1, <2>1 DEF Alike
    <2>3. job'[r] \in Job
        BY <1>1, <2>2 DEF Job, Uploads
    <2>4. /\ Sound(job'[r]) /\ job'[r].at = "between" /\ job'[r].op = "POST_MULTI"
          /\ job'[r].opened = {} /\ job[r].opened = {} /\ job'[r].sent = job[r].sent
          /\ job'[r].broke = job[r].broke
        BY <1>1, <2>1, <2>2 DEF Sound, Job, Uploads, None
    <2> QED BY <2>1, <2>2, <2>3, <2>4 DEF Quiet, Ended
<1>3. CASE FieldOfSingle(r)
    <2>1. /\ job[r].op = "POST" /\ job[r].at = "between"
          /\ job' = [job EXCEPT ![r].at = "field", ![r].fields = 1]
          /\ UNCHANGED <<disk, data, local, clash>>
        BY <1>3 DEF FieldOfSingle, Busy
    <2>2. job'[r] = [job[r] EXCEPT !.at = "field", !.fields = 1] /\ Alike(r)
        BY <1>1, <2>1 DEF Alike
    <2>3. job'[r] \in Job
        BY <1>1, <2>1, <2>2 DEF Job
    <2>4. /\ job'[r].at = "field" /\ job'[r].op = "POST" /\ job'[r].opened = job[r].opened
          /\ job'[r].broke = job[r].broke
          /\ job'[r].sent = job[r].sent /\ job'[r].file = job[r].file
          /\ job'[r].inode = job[r].inode /\ job'[r].pos = job[r].pos
          /\ job'[r].appends = job[r].appends
        BY <1>1, <2>1, <2>2 DEF Job
    <2>5. Sound(job'[r])
        BY <1>1, <2>1, <2>4 DEF Sound, None, Uploads
    <2> QED BY <2>1, <2>2, <2>3, <2>4, <2>5 DEF Quiet, Ended
<1>4. CASE FieldEnds(r) \/ StreamEnds(r) \/ Done(r)
    <2>1. PICK at \in {"between", "created", "ok"} :
            /\ job' = [job EXCEPT ![r].at = at]
            /\ \/ job[r].at = "field" /\ at = "between"
               \/ job[r].at = "between" /\ at = "created"
               \/ job[r].at = "reading" /\ at = "ok"
            /\ UNCHANGED <<disk, data, local, clash>>
        BY <1>4 DEF FieldEnds, StreamEnds, Done, Step
    <2>2. job'[r] = [job[r] EXCEPT !.at = at] /\ Alike(r)
        BY <1>1, <2>1 DEF Alike
    <2>3. job'[r] \in Job
        BY <1>1, <2>2 DEF Job, Ended
    <2>4. /\ job'[r].at = at /\ job'[r].op = job[r].op /\ job'[r].opened = job[r].opened
          /\ job'[r].broke = job[r].broke
          /\ job'[r].sent = job[r].sent /\ job'[r].file = job[r].file
          /\ job'[r].inode = job[r].inode /\ job'[r].pos = job[r].pos
          /\ job'[r].appends = job[r].appends
        BY <1>1, <2>1, <2>2 DEF Job
    <2>5. Sound(job'[r])
        BY <1>1, <2>1, <2>4 DEF Sound, None, Uploads
    <2>6. job[r].at \notin Ended /\ job'[r].at # "reading" /\ job'[r].at # "failed"
        BY <2>1, <2>4 DEF Ended
    <2>7. job'[r].at \in {"between", "field", "created"} =>
            /\ job[r].at \in {"between", "field"}
            /\ job'[r].at = "field" \/ job'[r].op = "POST" => job[r].at = "field" \/ job[r].op = "POST"
        BY <2>1, <2>4
    <2> QED BY <2>1, <2>2, <2>3, <2>4, <2>5, <2>6, <2>7 DEF Quiet
<1>5. CASE \E f \in File : KnownField(r, f)
    <2>1. PICK f \in File : KnownField(r, f)
        BY <1>5
    <2>2. /\ job[r].op = "POST_MULTI" /\ job[r].at = "between" /\ f \in job[r].opened
          /\ UNCHANGED <<disk, data, local, clash>>
        BY <2>1 DEF KnownField, Busy
    <2>3. Alike(r)
        BY <1>1, <2>1 DEF KnownField, Alike
    <2>4. CASE disk[f] = NoInode
        <3>1. job'[r] = [job[r] EXCEPT !.at = "failed"]
            BY <1>1, <2>1, <2>4 DEF KnownField
        <3>2. job'[r] \in Job
            BY <1>1, <3>1 DEF Job, Ended
        <3>3. /\ job'[r].at = "failed" /\ job'[r].op = "POST_MULTI"
              /\ job'[r].opened = job[r].opened /\ job'[r].sent = job[r].sent
              /\ job'[r].broke = job[r].broke
            BY <1>1, <2>2, <3>1 DEF Job
        <3>4. Sound(job'[r])
            BY <1>1, <2>2, <3>3 DEF Sound, None
        <3> QED BY <2>2, <2>3, <3>2, <3>3, <3>4 DEF Quiet, Ended
    <2>5. CASE disk[f] # NoInode
        <3>1. job'[r] = [job[r] EXCEPT !.at = "field", !.file = f, !.inode = disk[f], !.appends = TRUE]
            BY <1>1, <2>1, <2>5 DEF KnownField
        <3>2. disk[f] \in Named(f) /\ disk[f] \in Inode
            BY <2>5 DEF TransfersTyped
        <3>3. job'[r] \in Job
            BY <1>1, <3>1, <3>2 DEF Job
        <3>4. /\ job'[r].at = "field" /\ job'[r].op = "POST_MULTI" /\ job'[r].file = f
              /\ job'[r].inode = disk[f] /\ job'[r].appends = TRUE
              /\ job'[r].opened = job[r].opened /\ job'[r].sent = job[r].sent
              /\ job'[r].broke = job[r].broke
            BY <1>1, <2>2, <3>1 DEF Job
        <3>5. Sound(job'[r])
            BY <1>1, <2>2, <3>2, <3>4 DEF Sound, None, Uploads
        <3> QED BY <2>2, <2>3, <3>3, <3>4, <3>5 DEF Quiet, Ended
    <2> QED BY <2>4, <2>5
<1> QED BY <1>2, <1>3, <1>4, <1>5

\* r has come to an error where the next field is expected.
Broken(r) ==
    /\ job[r].at = "between" /\ Alike(r)
    /\ job'[r] \in Job /\ Sound(job'[r]) /\ job'[r].at = "created" /\ job'[r].broke
    /\ job'[r].opened = job[r].opened /\ job'[r].op = job[r].op
    /\ \E f \in File, rest \in Seq(Chunks) :
            job'[r].sent = [job[r].sent EXCEPT ![f] = job[r].sent[f] \o rest]
    /\ UNCHANGED <<disk, data, local, clash>>

LEMMA StreamBreaks ==
    ASSUME TransfersTyped, JobInv, NEW r \in Request, StreamFails(r)
    PROVE  Broken(r)
<1>1. job \in [Request -> Job] /\ job[r] \in Job /\ Sound(job[r])
    BY DEF TransfersTyped, JobInv
<1>2. job[r].at = "between" /\ UNCHANGED <<disk, data, local, clash>>
    BY DEF StreamFails
<1>3. PICK f \in File, rest \in {<<>>, <<NumberOf(r, job[r].chunks + 1)>>} :
        job' = [job EXCEPT ![r].at = "created", ![r].broke = TRUE, ![r].sent[f] = @ \o rest]
    BY DEF StreamFails
<1>4. rest \in Seq(Chunks)
    <2>1. NumberOf(r, job[r].chunks + 1) \in Chunks
        <3>1. job[r].chunks + 1 \in Nat
            BY <1>1 DEF Job
        <3> QED BY <3>1 DEF Chunks, NumberOf
    <2> DEFINE c == NumberOf(r, job[r].chunks + 1)
    <2>2. rest = <<>> \/ rest = <<c>>
        BY <1>3
    <2> HIDE DEF c
    <2>3. c \in Chunks
        BY <2>1 DEF c
    <2>4. <<>> \in Seq(Chunks) /\ <<c>> \in Seq(Chunks)
        BY <2>3
    <2> QED BY <2>2, <2>4
<1> DEFINE new == [job[r] EXCEPT !.at = "created", !.broke = TRUE,
                                 !.sent = [job[r].sent EXCEPT ![f] = job[r].sent[f] \o rest]]
<1>5. job'[r] = new /\ Alike(r)
    BY <1>1, <1>3 DEF Alike
<1>6. [job[r].sent EXCEPT ![f] = job[r].sent[f] \o rest] \in [File -> Seq(Chunks)]
    <2>1. job[r].sent \in [File -> Seq(Chunks)]
        BY <1>1 DEF Job
    <2>2. job[r].sent[f] \o rest \in Seq(Chunks)
        BY <1>4, <2>1
    <2> QED BY <2>1, <2>2
<1>7. /\ new \in Job
      /\ new.at = "created" /\ new.broke /\ new.opened = job[r].opened /\ new.op = job[r].op
      /\ new.sent = [job[r].sent EXCEPT ![f] = job[r].sent[f] \o rest]
      /\ new.file = job[r].file /\ new.inode = job[r].inode
    BY <1>1, <1>6 DEF Job, Ended
<1> HIDE DEF new
<1>8. Sound(new)
    BY <1>1, <1>2, <1>7 DEF Sound, Uploads, None
<1> QED BY <1>2, <1>4, <1>5, <1>7, <1>8 DEF Broken

\* r has written a chunk to its file, and keeps working on it.
Chunked(r) ==
    /\ job[r].at = "field" /\ Alike(r)
    /\ job[r].file \in File /\ job[r].file \in job[r].opened /\ job[r].inode \in Named(job[r].file)
    /\ job[r].inode \in Inode
    /\ job'[r] \in Job /\ job'[r].at = "field" /\ Sound(job'[r])
    /\ job'[r].file = job[r].file /\ job'[r].inode = job[r].inode
    /\ job'[r].appends = job[r].appends /\ job'[r].opened = job[r].opened
    /\ ~job[r].broke /\ ~job'[r].broke
    /\ \E c \in Chunks, offset \in Nat :
        /\ offset = IF job[r].appends THEN Len(data[job[r].inode]) ELSE job[r].pos
        /\ data' = [data EXCEPT ![job[r].inode] = Written(data[job[r].inode], offset, c)]
        /\ job'[r].pos = offset + 1
        /\ job'[r].sent = [job[r].sent EXCEPT ![job[r].file] = Append(job[r].sent[job[r].file], c)]
    /\ UNCHANGED <<disk, local, clash>>

LEMMA ChunkWrites ==
    ASSUME TransfersTyped, JobInv, NEW r \in Request, Chunk(r)
    PROVE  Chunked(r)
<1> DEFINE j == job[r]
           c == NumberOf(r, j.chunks + 1)
           offset == IF j.appends THEN Len(data[j.inode]) ELSE j.pos
           new == [j EXCEPT !.pos = offset + 1, !.chunks = @ + 1, !.sent[j.file] = Append(@, c)]
<1>1. job \in [Request -> Job] /\ j \in Job /\ Sound(j)
    BY DEF TransfersTyped, JobInv
<1>2. /\ j.at = "field"
      /\ data' = [data EXCEPT ![j.inode] = Written(data[j.inode], offset, c)]
      /\ job' = [job EXCEPT ![r] = new]
      /\ UNCHANGED <<disk, local, clash>>
    BY DEF Chunk
<1>3. j.file \in j.opened /\ j.opened \subseteq File /\ j.inode \in Named(j.file) /\ j.op \in Uploads
    BY <1>1, <1>2 DEF Sound, Job
<1>4. j.inode \in Inode
    BY <1>3 DEF Named, Inode
<1>5. c \in Chunks
    <2>1. j.chunks + 1 \in Nat
        BY <1>1 DEF Job
    <2> QED BY <2>1 DEF Chunks, NumberOf
<1>6. offset \in Nat
    <2>1. data[j.inode] \in Seq(Chunks)
        BY <1>4 DEF TransfersTyped
    <2>2. j.pos \in Nat
        BY <1>1 DEF Job
    <2> QED BY <2>1, <2>2
<1>7. /\ job'[r] = new /\ Alike(r)
    BY <1>1, <1>2 DEF Alike
<1>8. [j.sent EXCEPT ![j.file] = Append(@, c)] \in [File -> Seq(Chunks)]
    <2>1. j.sent \in [File -> Seq(Chunks)]
        BY <1>1 DEF Job
    <2>2. Append(j.sent[j.file], c) \in Seq(Chunks)
        BY <1>3, <1>5, <2>1
    <2> QED BY <1>3, <2>1, <2>2
<1>9. /\ new.at = "field" /\ new.file = j.file /\ new.inode = j.inode /\ new.appends = j.appends
      /\ new.opened = j.opened /\ new.op = j.op /\ new.pos = offset + 1
      /\ new.sent = [j.sent EXCEPT ![j.file] = Append(j.sent[j.file], c)]
      /\ ~new.broke /\ ~j.broke
    BY <1>1, <1>2 DEF Job, Sound
<1>10. new \in Job
    <2>1. j.chunks + 1 \in Nat /\ offset + 1 \in Nat
        BY <1>1, <1>6 DEF Job
    <2> QED BY <1>1, <1>8, <2>1 DEF Job
<1> HIDE DEF new, c, offset
<1>11. Sound(new)
    BY <1>1, <1>2, <1>3, <1>9 DEF Sound, None, Uploads, Job
<1>12. offset = IF job[r].appends THEN Len(data[job[r].inode]) ELSE job[r].pos
    BY DEF offset
<1>13. ~job[r].broke /\ ~job'[r].broke
    BY <1>7, <1>9
<1> QED BY <1>2, <1>3, <1>4, <1>5, <1>6, <1>7, <1>9, <1>10, <1>11, <1>12, <1>13 DEF Chunked

\* r is the one download there is, of f as it is now.
Started(r, f) ==
    /\ f \in File /\ job[r].at = "new" /\ ClientIdle /\ Alike(r)
    /\ disk[f] \in Inode
    /\ job'[r] \in Job /\ Sound(job'[r]) /\ job'[r].at = "reading" /\ job'[r].opened = {}
    /\ job'[r].file = f /\ job'[r].inode = disk[f]
    /\ job'[r].chunks = Len(data[disk[f]]) /\ job'[r].pos = 0
    /\ clash' = Clashing(Overtaking(r, f), f)
    /\ UNCHANGED <<disk, data, local>>

LEMMA GetStarts ==
    ASSUME TransfersTyped, JobInv, NEW r \in Request, NEW f \in File, Get(r, f)
    PROVE  Started(r, f)
<1> DEFINE new == [job[r] EXCEPT !.op = "GET", !.at = "reading", !.file = f, !.inode = disk[f],
                                 !.chunks = Len(data[disk[f]])]
<1>1. job \in [Request -> Job] /\ job[r] \in Job /\ Sound(job[r])
    BY DEF TransfersTyped, JobInv
<1>2. /\ job[r].at = "new" /\ ClientIdle /\ disk[f] # NoInode
      /\ job' = [job EXCEPT ![r] = new]
      /\ clash' = Clashing(Overtaking(r, f), f)
      /\ UNCHANGED <<disk, data, local>>
    BY DEF Get
<1>3. disk[f] \in Named(f) /\ disk[f] \in Inode
    BY <1>2 DEF TransfersTyped
<1>4. Len(data[disk[f]]) \in Nat
    BY <1>3 DEF TransfersTyped
<1>5. new \in Job
    BY <1>1, <1>3, <1>4 DEF Job
<1>6. /\ new.op = "GET" /\ new.at = "reading" /\ new.file = f /\ new.inode = disk[f]
      /\ new.chunks = Len(data[disk[f]]) /\ new.pos = 0 /\ new.opened = {} /\ ~new.broke
    BY <1>1, <1>2 DEF Job, Sound
<1> HIDE DEF new
<1>7. Sound(new)
    BY <1>3, <1>6 DEF Sound, Uploads
<1>8. job'[r] = new /\ Alike(r)
    BY <1>1, <1>2 DEF Alike
<1> QED BY <1>2, <1>3, <1>5, <1>6, <1>7, <1>8 DEF Started

\* r has been refused, and its copy has the body of the refusal.
Missed(r, f) ==
    /\ f \in File /\ job[r].at = "new" /\ ClientIdle /\ Alike(r)
    /\ job'[r] \in Job /\ Sound(job'[r]) /\ job'[r].at = "ok" /\ job'[r].opened = {}
    /\ local' \in [File -> Seq(Chunks)]
    /\ UNCHANGED <<disk, data, clash>>

LEMMA GetMisses ==
    ASSUME TransfersTyped, JobInv, NEW r \in Request, NEW f \in File, GetMissing(r, f)
    PROVE  Missed(r, f)
<1> DEFINE new == [job[r] EXCEPT !.op = "GET", !.at = "ok", !.file = f, !.sent[f] = <<ErrorBody>>]
<1>1. job \in [Request -> Job] /\ job[r] \in Job /\ Sound(job[r])
    BY DEF TransfersTyped, JobInv
<1>2. /\ job[r].at = "new" /\ ClientIdle
      /\ job' = [job EXCEPT ![r].op = "GET", ![r].at = "ok", ![r].file = f, ![r].sent[f] = <<ErrorBody>>]
      /\ local' = [local EXCEPT ![f] = Written(local[f], 0, ErrorBody)]
      /\ UNCHANGED <<disk, data, clash>>
    BY DEF GetMissing
<1>3. job'[r] = new /\ Alike(r)
    BY <1>1, <1>2 DEF Alike
<1>4. ErrorBody \in Chunks
    BY DEF Chunks
<1>5. local' \in [File -> Seq(Chunks)]
    <2>1. local \in [File -> Seq(Chunks)]
        BY DEF TransfersTyped
    <2>2. Written(local[f], 0, ErrorBody) \in Seq(Chunks)
        BY <1>4, <2>1, WrittenIs
    <2> QED BY <1>2, <2>1, <2>2
<1>6. new \in Job
    <2>1. <<ErrorBody>> \in Seq(Chunks)
        BY <1>4
    <2>2. [job[r].sent EXCEPT ![f] = <<ErrorBody>>] \in [File -> Seq(Chunks)]
        BY <1>1, <2>1 DEF Job
    <2> QED BY <1>1, <2>2 DEF Job, Ended
<1>7. new.op = "GET" /\ new.at = "ok" /\ new.opened = {} /\ ~new.broke
    BY <1>1, <1>2 DEF Job, Sound
<1> HIDE DEF new
<1>8. Sound(new)
    BY <1>7 DEF Sound, Uploads
<1> QED BY <1>2, <1>3, <1>5, <1>6, <1>7, <1>8 DEF Missed

\* r has put the next chunk into the copy, or there is none.
ReadOn(r) ==
    LET j == job[r]
    IN  /\ j.at = "reading" /\ Alike(r)
        /\ j.file \in File /\ j.inode \in Named(j.file) /\ j.inode \in Inode /\ j.pos < j.chunks
        /\ job'[r] \in Job /\ Sound(job'[r]) /\ job'[r].file = j.file /\ job'[r].inode = j.inode
        /\ job'[r].chunks = j.chunks /\ job'[r].opened = {} /\ job'[r].op = "GET"
        /\ \/ /\ j.pos < Len(data[j.inode])
              /\ job'[r].at = "reading" /\ job'[r].pos = j.pos + 1
              /\ local' = [local EXCEPT ![j.file] =
                              Written(local[j.file], j.pos, data[j.inode][j.pos + 1])]
           \/ /\ ~(j.pos < Len(data[j.inode]))
              /\ job'[r].at = "failed"
              /\ local' = local
        /\ UNCHANGED <<disk, data, clash>>

LEMMA ReadReads ==
    ASSUME TransfersTyped, JobInv, NEW r \in Request, Read(r)
    PROVE  ReadOn(r)
<1> DEFINE j == job[r]
           c == data[j.inode][j.pos + 1]
<1>1. job \in [Request -> Job] /\ j \in Job /\ Sound(j)
    BY DEF TransfersTyped, JobInv
<1>2. j.at = "reading" /\ j.pos < j.chunks /\ UNCHANGED <<disk, data, clash>>
    BY DEF Read
<1>3. j.file \in File /\ j.inode \in Named(j.file) /\ j.inode \in Inode /\ j.op = "GET" /\ j.opened = {}
    BY <1>1, <1>2 DEF Sound, Named, Inode
<1>4. CASE j.pos < Len(data[j.inode])
    <2> DEFINE new == [j EXCEPT !.pos = @ + 1, !.sent[j.file] = Append(@, c)]
    <2>1. /\ local' = [local EXCEPT ![j.file] = Written(local[j.file], j.pos, c)]
          /\ job' = [job EXCEPT ![r].pos = @ + 1, ![r].sent[j.file] = Append(@, c)]
        BY <1>4 DEF Read
    <2>2. job'[r] = new /\ Alike(r)
        BY <1>1, <2>1 DEF Alike
    <2>3. c \in Chunks
        <3>1. data[j.inode] \in Seq(Chunks) /\ j.pos \in Nat
            BY <1>1, <1>3 DEF TransfersTyped, Job
        <3> QED BY <1>4, <3>1
    <2>4. new \in Job
        <3>1. j.sent \in [File -> Seq(Chunks)] /\ j.pos + 1 \in Nat
            BY <1>1 DEF Job
        <3>2. Append(j.sent[j.file], c) \in Seq(Chunks)
            BY <1>3, <2>3, <3>1
        <3>3. [j.sent EXCEPT ![j.file] = Append(j.sent[j.file], c)] \in [File -> Seq(Chunks)]
            BY <3>1, <3>2
        <3> QED BY <1>1, <3>1, <3>3 DEF Job
    <2>5. /\ new.op = "GET" /\ new.at = "reading" /\ new.file = j.file /\ new.inode = j.inode
          /\ new.chunks = j.chunks /\ new.pos = j.pos + 1 /\ new.opened = {} /\ ~new.broke
        BY <1>1, <1>2, <1>3 DEF Job, Sound
    <2> HIDE DEF new
    <2>6. Sound(new)
        BY <1>3, <2>5 DEF Sound, Uploads
    <2> QED BY <1>2, <1>3, <1>4, <2>1, <2>2, <2>4, <2>5, <2>6 DEF ReadOn
<1>5. CASE ~(j.pos < Len(data[j.inode]))
    <2> DEFINE new == [j EXCEPT !.at = "failed"]
    <2>1. local' = local /\ job' = [job EXCEPT ![r].at = "failed"]
        BY <1>5 DEF Read, Step
    <2>2. job'[r] = new /\ Alike(r)
        BY <1>1, <2>1 DEF Alike
    <2>3. new \in Job
        BY <1>1 DEF Job, Ended
    <2>4. /\ new.op = "GET" /\ new.at = "failed" /\ new.file = j.file /\ new.inode = j.inode
          /\ new.chunks = j.chunks /\ new.opened = {} /\ ~new.broke
        BY <1>1, <1>2, <1>3 DEF Job, Sound
    <2> HIDE DEF new
    <2>5. Sound(new)
        BY <1>3, <2>4 DEF Sound, Uploads
    <2> QED BY <1>2, <1>3, <1>5, <2>1, <2>2, <2>3, <2>4, <2>5 DEF ReadOn
<1> QED BY <1>4, <1>5

\* Every step is one of these.
LEMMA StepsAre ==
    ASSUME TransfersTyped, JobInv, Next
    PROVE  \E r \in Request :
                \/ Quiet(r) \/ Broken(r) \/ Chunked(r) \/ ReadOn(r)
                \/ \E f \in File : Opened(r, f) \/ Unlinked(r, f) \/ Started(r, f) \/ Missed(r, f)
<1>1. PICK r \in Request :
        \/ BeginMulti(r) \/ FieldOfSingle(r)
        \/ Chunk(r) \/ FieldEnds(r)
        \/ StreamEnds(r) \/ StreamFails(r) \/ Mismatch(r)
        \/ Read(r) \/ Done(r)
        \/ \E f \in File :
            \/ BeginSingle(r, f) \/ BeginRaw(r, f)
            \/ NewField(r, f) \/ KnownField(r, f)
            \/ Delete(r, f) \/ Get(r, f) \/ GetMissing(r, f)
    BY DEF Next
<1>2. CASE \/ BeginMulti(r) \/ FieldOfSingle(r) \/ FieldEnds(r) \/ StreamEnds(r)
           \/ Done(r) \/ \E f \in File : KnownField(r, f)
    BY <1>2, StepsQuiet
<1>a. CASE StreamFails(r)
    BY <1>a, StreamBreaks
<1>3. CASE Chunk(r)
    BY <1>3, ChunkWrites
<1>4. CASE Read(r)
    BY <1>4, ReadReads
<1>5. CASE Mismatch(r)
    BY <1>5, MismatchUnlinks
<1>6. CASE \E f \in File : BeginSingle(r, f) \/ BeginRaw(r, f) \/ NewField(r, f)
    BY <1>6, OpenOpens
<1>7. CASE \E f \in File : Delete(r, f)
    BY <1>7, DeleteUnlinks
<1>8. CASE \E f \in File : Get(r, f)
    BY <1>8, GetStarts
<1>9. CASE \E f \in File : GetMissing(r, f)
    BY <1>9, GetMisses
<1> QED BY <1>1, <1>2, <1>3, <1>4, <1>5, <1>6, <1>7, <1>8, <1>9, <1>a

-----------------------------------------------------------------------------
(* Each step keeps the invariant                                           *)

\* Steps: of a handler on its own, and of a handler and a file.
Lone(r) == Quiet(r) \/ Broken(r) \/ Chunked(r) \/ ReadOn(r)
Filed(r, f) == Opened(r, f) \/ Unlinked(r, f) \/ Started(r, f) \/ Missed(r, f)

LEMMA OthersStay ==
    ASSUME TransfersTyped, NEW r \in Request, NEW f, Lone(r) \/ Filed(r, f)
    PROVE  job'[r] \in Job /\ \A q \in Request \ {r} : job'[q] = job[q]
<1>1. job \in [Request -> Job] /\ Alike(r) /\ job'[r] \in Job
    BY DEF TransfersTyped, Lone, Filed, Quiet, Broken, Chunked, ReadOn, Opened, Unlinked, Started, Missed
<1> QED BY <1>1 DEF Alike

LEMMA TypedStep ==
    ASSUME TransfersTyped, NEW r \in Request, NEW f, Lone(r) \/ Filed(r, f)
    PROVE  TransfersTyped'
<1>1. /\ \A g \in File : disk[g] \in Named(g) \cup {NoInode}
      /\ disk \in [File -> Inode \cup {NoInode}]
      /\ data \in [Inode -> Seq(Chunks)]
      /\ job \in [Request -> Job]
      /\ local \in [File -> Seq(Chunks)]
      /\ clash \subseteq Request \X File
    BY DEF TransfersTyped
<1>2. job' \in [Request -> Job]
    <2>1. job'[r] \in Job /\ Alike(r)
        BY DEF Lone, Filed, Quiet, Broken, Chunked, ReadOn, Opened, Unlinked, Started, Missed
    <2> QED BY <1>1, <2>1 DEF Alike
<1>3. \A g \in File : Named(g) \subseteq Inode
    BY DEF Named, Inode
<1>4. \A S \in SUBSET Request : f \in File => Clashing(S, f) \subseteq Request \X File
    BY <1>1 DEF Clashing
<1>5. CASE Quiet(r)
    BY <1>1, <1>2, <1>5 DEF Quiet, TransfersTyped
<1>a. CASE Broken(r)
    BY <1>1, <1>2, <1>a DEF Broken, TransfersTyped
<1>6. CASE Chunked(r)
    <2>1. PICK c \in Chunks, offset \in Nat :
            data' = [data EXCEPT ![job[r].inode] = Written(data[job[r].inode], offset, c)]
        BY <1>6 DEF Chunked
    <2>2. data' \in [Inode -> Seq(Chunks)]
        <3>1. job[r].inode \in Inode
            BY <1>6 DEF Chunked
        <3>2. Written(data[job[r].inode], offset, c) \in Seq(Chunks)
            BY <1>1, <3>1, WrittenIs
        <3> QED BY <1>1, <2>1, <3>1, <3>2
    <2> QED BY <1>1, <1>2, <1>6, <2>2 DEF Chunked, TransfersTyped
<1>7. CASE ReadOn(r)
    <2>1. local' \in [File -> Seq(Chunks)]
        <3>1. CASE /\ job[r].pos < Len(data[job[r].inode])
                   /\ local' = [local EXCEPT ![job[r].file] =
                           Written(local[job[r].file], job[r].pos, data[job[r].inode][job[r].pos + 1])]
            <4>1. /\ job[r].inode \in Inode /\ job[r].file \in File /\ job[r].pos \in Nat
                BY <1>1, <1>7 DEF ReadOn, Job
            <4>2. data[job[r].inode] \in Seq(Chunks) /\ local[job[r].file] \in Seq(Chunks)
                BY <1>1, <4>1
            <4>3. data[job[r].inode][job[r].pos + 1] \in Chunks
                BY <3>1, <4>1, <4>2
            <4>4. Written(local[job[r].file], job[r].pos, data[job[r].inode][job[r].pos + 1]) \in Seq(Chunks)
                BY <4>1, <4>2, <4>3, WrittenIs
            <4> QED BY <1>1, <3>1, <4>1, <4>4
        <3> QED BY <1>1, <1>7, <3>1 DEF ReadOn
    <2> QED BY <1>1, <1>2, <1>7, <2>1 DEF ReadOn, TransfersTyped
<1>8. CASE Opened(r, f)
    <2>1. /\ f \in File /\ job'[r].inode \in Named(f)
          /\ disk' = [disk EXCEPT ![f] = job'[r].inode]
          /\ data' = [data EXCEPT ![job'[r].inode] = <<>>]
          /\ local' = local
          /\ clash' = Clashing(Writers(r, f) \cup Readers(f) \cup Overtaking(r, f), f)
        BY <1>8 DEF Opened
    <2>2. job'[r].inode \in Inode
        BY <1>3, <2>1
    <2>3. <<>> \in Seq(Chunks)
        OBVIOUS
    <2>4. data' \in [Inode -> Seq(Chunks)]
        BY <1>1, <2>1, <2>2, <2>3
    <2>5. /\ disk' \in [File -> Inode \cup {NoInode}]
          /\ \A g \in File : disk'[g] \in Named(g) \cup {NoInode}
        BY <1>1, <2>1, <2>2
    <2>6. clash' \subseteq Request \X File
        BY <1>4, <2>1 DEF Writers, Readers, Overtaking
    <2> QED BY <1>1, <1>2, <2>1, <2>4, <2>5, <2>6 DEF TransfersTyped
<1>9. CASE Unlinked(r, f)
    <2>1. /\ f \in File /\ disk' = [disk EXCEPT ![f] = NoInode] /\ data' = data /\ local' = local
          /\ clash' = Clashing(Writers(r, f), f)
        BY <1>9 DEF Unlinked
    <2>2. /\ disk' \in [File -> Inode \cup {NoInode}]
          /\ \A g \in File : disk'[g] \in Named(g) \cup {NoInode}
        BY <1>1, <2>1
    <2>3. clash' \subseteq Request \X File
        BY <1>4, <2>1 DEF Writers
    <2> QED BY <1>1, <1>2, <2>1, <2>2, <2>3 DEF TransfersTyped
<1>10. CASE Started(r, f)
    <2>1. clash' \subseteq Request \X File
        BY <1>4, <1>10 DEF Started, Overtaking
    <2> QED BY <1>1, <1>2, <1>10, <2>1 DEF Started, TransfersTyped
<1>11. CASE Missed(r, f)
    BY <1>1, <1>2, <1>11 DEF Missed, TransfersTyped
<1> QED BY <1>5, <1>6, <1>7, <1>8, <1>9, <1>10, <1>11, <1>a DEF Lone, Filed

LEMMA JobStep ==
    ASSUME TransfersTyped, JobInv, NEW r \in Request, NEW f, Lone(r) \/ Filed(r, f)
    PROVE  JobInv'
<1>1. Sound(job'[r])
    <2>1. CASE Opened(r, f)
        <3>1. /\ job[r].at \in {"new", "between"} /\ job[r] \in Job /\ Sound(job[r])
              /\ job'[r].op \in Uploads /\ job'[r].at \in {"between", "field"}
              /\ job'[r].op \in {"POST", "RAW"} => job[r].opened = {}
              /\ job'[r].file = f /\ job'[r].inode \in Named(f)
              /\ job'[r].opened = job[r].opened \cup {f} /\ job'[r].sent = job[r].sent
              /\ ~job[r].broke /\ ~job'[r].broke
            BY <2>1 DEF Opened, TransfersTyped, JobInv, Sound
        <3>2. job[r].op # "GET"
            BY <3>1 DEF Sound, Uploads, None
        <3>3. \A g \in File \ job[r].opened : job[r].sent[g] = <<>>
            BY <3>1, <3>2 DEF Sound
        <3> QED BY <3>1, <3>3 DEF Sound, Uploads, None
    <2> QED BY <2>1 DEF Lone, Filed, Quiet, Broken, Chunked, ReadOn, Unlinked, Started, Missed
<1>2. \A q \in Request \ {r} : job'[q] = job[q]
    BY OthersStay
<1>3. \A q \in Request : Sound(job[q])
    BY DEF JobInv
<1>4. \A q \in Request : Sound(job'[q])
    BY <1>1, <1>2, <1>3
<1> QED BY <1>4 DEF JobInv, Sound

\* What a request reads: f, while it is under way.
LEMMA ReadersAre ==
    ASSUME TransfersTyped, JobInv, NEW r \in Request, NEW f \in File
    PROVE  r \in Readers(f) <=> job[r].at = "reading" /\ job[r].file = f
    BY DEF TransfersTyped, JobInv, Sound, Readers, Busy

\* No step forgets that a request was interfered with, and none starts an answered one again.
LEMMA EndedStays ==
    ASSUME TransfersTyped, NEW r \in Request, NEW f, Lone(r) \/ Filed(r, f)
    PROVE  /\ clash \subseteq clash'
           /\ \A q \in Request : job[q].at \in Ended => job'[q].at \in Ended
<1>1. job[r].at \notin Ended
    BY DEF Lone, Filed, Quiet, Broken, Chunked, ReadOn, Opened, Unlinked, Started, Missed, Ended
<1>2. clash \subseteq clash'
    BY DEF Lone, Filed, Quiet, Broken, Chunked, ReadOn, Opened, Unlinked, Started, Missed, Clashing
<1>3. \A q \in Request \ {r} : job'[q] = job[q]
    BY OthersStay
<1> QED BY <1>1, <1>2, <1>3

\* Only Opened opens a file, and only Started begins a download.
LEMMA OpenedStays ==
    ASSUME TransfersTyped, JobInv, NEW r \in Request, NEW f,
           Lone(r) \/ Unlinked(r, f) \/ Started(r, f) \/ Missed(r, f)
    PROVE  \A q \in Request : job'[q].opened = job[q].opened
<1>1. \A q \in Request \ {r} : job'[q] = job[q]
    BY OthersStay DEF Filed
<1>2. Sound(job[r])
    BY DEF JobInv
<1>3. job'[r].opened = job[r].opened
    <2>1. CASE ReadOn(r) \/ Started(r, f) \/ Missed(r, f)
        BY <1>2, <2>1 DEF ReadOn, Started, Missed, Sound
    <2> QED BY <2>1 DEF Lone, Quiet, Broken, Chunked, Unlinked
<1> QED BY <1>1, <1>3

LEMMA ReadingStays ==
    ASSUME TransfersTyped, NEW r \in Request, NEW f,
           Lone(r) \/ Opened(r, f) \/ Unlinked(r, f) \/ Missed(r, f),
           NEW q \in Request, job'[q].at = "reading"
    PROVE  job[q].at = "reading" /\ job[q].file = job'[q].file
<1>1. q # r => job'[q] = job[q]
    BY OthersStay DEF Filed
<1>2. q = r => ReadOn(r)
    BY DEF Lone, Quiet, Broken, Chunked, Opened, Unlinked, Missed
<1> QED BY <1>1, <1>2 DEF ReadOn

LEMMA AloneStep ==
    ASSUME TransfersTyped, JobInv, AloneInv, TransfersTyped', JobInv',
           NEW r \in Request, NEW f, Lone(r) \/ Filed(r, f)
    PROVE  AloneInv'
<1> SUFFICES ASSUME NEW q \in Request, NEW g \in File, <<q, g>> \notin clash',
                    g \in job'[q].opened \/ (job'[q].at = "reading" /\ job'[q].file = g)
             PROVE  Alone(q, g)'
    BY DEF AloneInv
<1> SUFFICES ASSUME NEW p \in Request \ {q}, g \in job'[p].opened
             PROVE  job'[p].at \in Ended
    BY DEF Alone, Writers
<1>1. /\ clash \subseteq clash'
      /\ \A o \in Request : job[o].at \in Ended => job'[o].at \in Ended
      /\ \A o \in Request \ {r} : job'[o] = job[o]
    BY EndedStays, OthersStay
<1>2. \/ g \in job[q].opened
      \/ job[q].at = "reading" /\ job[q].file = g
      => (g \in job[p].opened => job[p].at \in Ended)
    BY <1>1 DEF AloneInv, Alone, Writers
<1>3. CASE Lone(r) \/ Unlinked(r, f) \/ Missed(r, f)
    <2>1. job'[p].opened = job[p].opened /\ job'[q].opened = job[q].opened
        BY <1>3, OpenedStays
    <2>2. job'[q].at = "reading" => job[q].at = "reading" /\ job[q].file = job'[q].file
        BY <1>3, ReadingStays
    <2> QED BY <1>1, <1>2, <2>1, <2>2
<1>4. CASE Started(r, f)
    <2>1. job'[p].opened = job[p].opened /\ job'[q].opened = job[q].opened
        BY <1>4, OpenedStays
    <2>2. CASE q = r /\ g = f /\ job'[q].at = "reading"
        <3>1. clash' = Clashing(Overtaking(r, f), f) /\ p \in Writers(r, f)
            BY <1>4, <2>1, <2>2 DEF Started, Writers
        <3>2. r \notin Overtaking(r, f)
            BY <2>2, <3>1 DEF Clashing
        <3>3. job[p].at \in Ended
            BY <3>1, <3>2 DEF Overtaking
        <3> QED BY <1>1, <3>3
    <2>3. CASE q # r
        BY <1>1, <1>2, <2>1, <2>3
    <2>4. CASE g \in job'[q].opened
        BY <1>1, <1>2, <2>1, <2>4
    <2> QED BY <1>4, <2>2, <2>3, <2>4 DEF Started
<1>5. CASE Opened(r, f)
    <2>1. /\ job'[r].opened = job[r].opened \cup {f} /\ job'[r].at \in {"between", "field"}
          /\ job[r].at \in {"new", "between"}
          /\ clash' = Clashing(Writers(r, f) \cup Readers(f) \cup Overtaking(r, f), f)
        BY <1>5 DEF Opened
    <2>2. job[r].at \notin Ended
        BY <2>1 DEF Ended
    <2>3. CASE q = r
        <3>1. g \in job[r].opened \/ g = f
            BY <2>1, <2>3
        <3>2. job'[p] = job[p]
            BY <1>1, <2>3
        <3>3. CASE g = f
            <4>1. p \in Writers(r, f)
                BY <2>3, <3>2, <3>3 DEF Writers
            <4>2. r \notin Overtaking(r, f)
                BY <2>1, <2>3, <3>3 DEF Clashing
            <4> QED BY <3>2, <4>1, <4>2 DEF Overtaking
        <3> QED BY <1>2, <2>3, <3>1, <3>2, <3>3
    <2>4. CASE q # r
        <3>1. job'[q] = job[q]
            BY <1>1, <2>4
        <3>2. g # f
            <4>1. SUFFICES ASSUME g = f PROVE q \in Writers(r, f) \cup Readers(f)
                BY <2>1 DEF Clashing
            <4>2. CASE g \in job'[q].opened
                BY <2>4, <3>1, <4>1, <4>2 DEF Writers
            <4>3. CASE job'[q].at = "reading" /\ job'[q].file = g
                BY <3>1, <4>1, <4>3, ReadersAre
            <4> QED BY <4>2, <4>3
        <3>3. g \in job[p].opened
            BY <1>1, <2>1, <3>2
        <3> QED BY <1>1, <1>2, <3>1, <3>3
    <2> QED BY <2>3, <2>4
<1> QED BY <1>3, <1>4, <1>5 DEF Filed

\* The file of an upload that nobody has interfered with is written by nobody else.
LEMMA FileUntouched ==
    ASSUME TransfersTyped, JobInv, AloneInv, NEW r \in Request, NEW f, Lone(r) \/ Filed(r, f),
           NEW q \in Request, q # r, NEW g \in File, <<q, g>> \notin clash',
           g \in job[q].opened \/ (job[q].at = "reading" /\ job[q].file = g)
    PROVE  /\ g \in job[q].opened => disk'[g] = disk[g]
           /\ \A i \in Named(g) : data'[i] = data[i]
<1>1. <<q, g>> \notin clash
    BY EndedStays
<1>2. q \in Readers(g) <=> job[q].at = "reading" /\ job[q].file = g
    BY ReadersAre
<1>3. /\ disk \in [File -> Inode \cup {NoInode}] /\ data \in [Inode -> Seq(Chunks)]
      /\ Named(g) \subseteq Inode
    BY DEF TransfersTyped, Named, Inode
<1>4. CASE Quiet(r) \/ Broken(r) \/ ReadOn(r) \/ Started(r, f) \/ Missed(r, f)
    BY <1>4 DEF Quiet, Broken, ReadOn, Started, Missed
<1>5. CASE Chunked(r)
    <2>1. /\ job[r].at = "field" /\ job[r].file \in job[r].opened /\ job[r].file \in File
          /\ job[r].inode \in Named(job[r].file)
          /\ disk' = disk
          /\ \E chunks : data' = [data EXCEPT ![job[r].inode] = chunks]
        BY <1>5 DEF Chunked
    <2>2. job[r].file # g
        BY <1>1, <1>2, <2>1 DEF AloneInv, Alone, Writers, Ended
    <2>3. \A i \in Named(g) : i # job[r].inode
        BY <2>1, <2>2, NamesApart
    <2> QED BY <1>3, <2>1, <2>3
<1>6. CASE Opened(r, f)
    <2>1. /\ f \in File /\ job'[r].inode \in Named(f)
          /\ disk' = [disk EXCEPT ![f] = job'[r].inode]
          /\ data' = [data EXCEPT ![job'[r].inode] = <<>>]
          /\ clash' = Clashing(Writers(r, f) \cup Readers(f) \cup Overtaking(r, f), f)
        BY <1>6 DEF Opened
    <2>2. g # f
        BY <1>2, <2>1 DEF Clashing, Writers
    <2>3. \A i \in Named(g) : i # job'[r].inode
        BY <2>1, <2>2, NamesApart
    <2> QED BY <1>3, <2>1, <2>2, <2>3
<1>7. CASE Unlinked(r, f)
    <2>1. disk' = [disk EXCEPT ![f] = NoInode] /\ data' = data /\ clash' = Clashing(Writers(r, f), f)
        BY <1>7 DEF Unlinked
    <2>2. g \in job[q].opened => g # f
        BY <2>1 DEF Clashing, Writers
    <2> QED BY <1>3, <2>1, <2>2
<1> QED BY <1>4, <1>5, <1>6, <1>7 DEF Lone, Filed

LEMMA UploadStep ==
    ASSUME TransfersTyped, JobInv, AloneInv, UploadInv, TransfersTyped',
           NEW r \in Request, NEW f, Lone(r) \/ Filed(r, f)
    PROVE  UploadInv'
<1> SUFFICES ASSUME NEW q \in Request, NEW g \in File, <<q, g>> \notin clash', g \in job'[q].opened,
                    job'[q].at \in {"between", "field", "created"}
             PROVE  Uploaded(job[q], g)'
    BY DEF UploadInv
<1>1. /\ <<q, g>> \notin clash
      /\ \A o \in Request \ {r} : job'[o] = job[o]
    BY EndedStays, OthersStay
<1>2. g \in job[q].opened /\ job[q].at \in {"between", "field", "created"} => Uploaded(job[q], g)
    BY <1>1 DEF UploadInv
<1>3. \A i \in File : disk[i] # NoInode => disk[i] \in Named(i)
    BY DEF TransfersTyped
<1>4. /\ disk \in [File -> Inode \cup {NoInode}] /\ data \in [Inode -> Seq(Chunks)]
      /\ Named(g) \subseteq Inode /\ job[q] \in Job
    BY DEF TransfersTyped, Named, Inode
<1>5. CASE q # r
    <2>1. job'[q] = job[q]
        BY <1>1, <1>5
    <2>2. Uploaded(job[q], g)
        BY <1>2, <2>1
    <2>3. disk'[g] = disk[g] /\ \A i \in Named(g) : data'[i] = data[i]
        <3>1. g \in job[q].opened
            BY <2>1
        <3>2. /\ g \in job[q].opened => disk'[g] = disk[g]
              /\ \A i \in Named(g) : data'[i] = data[i]
            BY <1>5, <3>1, FileUntouched
        <3> QED BY <3>1, <3>2
    <2>4. disk[g] \in Named(g)
        BY <1>3, <2>2 DEF Uploaded
    <2> QED BY <2>1, <2>2, <2>3, <2>4 DEF Uploaded
<1>6. CASE q = r /\ Quiet(r)
    <2>1. /\ job'[r].opened = job[r].opened /\ job'[r].sent = job[r].sent
          /\ job'[r].broke = job[r].broke
          /\ job[r].at \in {"between", "field"}
          /\ job'[r].at = "field" \/ job'[r].op = "POST" =>
              \/ /\ job[r].at = "field" \/ job[r].op = "POST"
                 /\ job'[r].file = job[r].file /\ job'[r].inode = job[r].inode
                 /\ job'[r].pos = job[r].pos /\ job'[r].appends = job[r].appends
              \/ job'[r].inode = disk[job'[r].file] /\ job'[r].appends
          /\ UNCHANGED <<disk, data, local, clash>>
        BY <1>6 DEF Quiet
    <2>2. Uploaded(job[r], g)
        BY <1>2, <1>6, <2>1
    <2> QED BY <1>6, <2>1, <2>2 DEF Uploaded
<1>a. CASE q = r /\ Broken(r)
    <2>1. /\ job'[r].opened = job[r].opened /\ job[r].at = "between" /\ job'[r].broke
          /\ UNCHANGED <<disk, data>>
        BY <1>a DEF Broken
    <2>2. ~job[r].broke
        BY <2>1 DEF JobInv, Sound
    <2>3. Uploaded(job[r], g)
        BY <1>2, <1>a, <2>1
    <2>4. data[disk[g]] = job[r].sent[g] /\ disk[g] # NoInode
        BY <2>2, <2>3 DEF Uploaded
    <2>5. PICK h \in File, rest \in Seq(Chunks) :
            job'[r].sent = [job[r].sent EXCEPT ![h] = job[r].sent[h] \o rest]
        BY <1>a DEF Broken
    <2>6. job[r].sent \in [File -> Seq(Chunks)] /\ job[r].sent[g] \in Seq(Chunks)
        BY <1>4, <1>a DEF Job
    <2>7. job'[r].sent[g] = job[r].sent[g] \/ job'[r].sent[g] = job[r].sent[g] \o rest
        BY <2>5, <2>6
    <2>8. /\ Len(job[r].sent[g]) <= Len(job'[r].sent[g])
          /\ SubSeq(job'[r].sent[g], 1, Len(job[r].sent[g])) = job[r].sent[g]
        BY <2>6, <2>7, Begins
    <2> QED BY <1>a, <2>1, <2>4, <2>8 DEF Uploaded
<1>7. CASE q = r /\ Chunked(r)
    <2>1. /\ job[r].at = "field" /\ job[r].opened = job'[r].opened /\ job[r].inode \in Named(job[r].file)
          /\ job[r].file \in File
          /\ job'[r].at = "field" /\ job'[r].file = job[r].file /\ job'[r].inode = job[r].inode
          /\ job'[r].appends = job[r].appends
          /\ ~job[r].broke /\ ~job'[r].broke
          /\ disk' = disk
        BY <1>7 DEF Chunked
    <2>2. PICK c \in Chunks, offset \in Nat :
            /\ offset = IF job[r].appends THEN Len(data[job[r].inode]) ELSE job[r].pos
            /\ data' = [data EXCEPT ![job[r].inode] = Written(data[job[r].inode], offset, c)]
            /\ job'[r].pos = offset + 1
            /\ job'[r].sent = [job[r].sent EXCEPT ![job[r].file] = Append(job[r].sent[job[r].file], c)]
        BY <1>7 DEF Chunked
    <2>3. Uploaded(job[r], g)
        BY <1>2, <1>7, <2>1
    <2>4. disk[g] \in Named(g) /\ data[disk[g]] \in Seq(Chunks) /\ data[disk[g]] = job[r].sent[g]
        BY <1>3, <1>4, <2>1, <2>3 DEF Uploaded
    <2>5. job[r].sent \in [File -> Seq(Chunks)]
        BY <1>4, <1>7 DEF Job
    <2>6. CASE g = job[r].file
        <3>1. job[r].inode = disk[g] /\ (job[r].appends \/ job[r].pos = Len(job[r].sent[g]))
            BY <2>1, <2>3, <2>6 DEF Uploaded
        <3>2. offset = Len(data[disk[g]])
            BY <2>2, <2>4, <3>1
        <3>3. data'[disk[g]] = Append(data[disk[g]], c)
            BY <1>4, <2>2, <2>4, <3>1, <3>2, WrittenAtEnd
        <3>4. job'[r].sent[g] = Append(job[r].sent[g], c)
            BY <2>2, <2>5, <2>6
        <3>5. Len(job'[r].sent[g]) = offset + 1
            BY <2>4, <3>2, <3>4
        <3> QED BY <1>7, <2>1, <2>2, <2>3, <2>4, <3>1, <3>3, <3>4, <3>5 DEF Uploaded
    <2>7. CASE g # job[r].file
        <3>1. disk[g] # job[r].inode
            BY <2>1, <2>4, <2>7, NamesApart
        <3>2. data'[disk[g]] = data[disk[g]]
            BY <1>4, <2>2, <2>4, <3>1
        <3>3. job'[r].sent[g] = job[r].sent[g]
            BY <2>2, <2>5, <2>7
        <3> QED BY <1>7, <2>1, <2>3, <2>7, <3>2, <3>3 DEF Uploaded
    <2> QED BY <2>6, <2>7
<1>8. CASE q = r /\ Opened(r, f)
    <2>1. /\ f \in File /\ job[r].at \in {"new", "between"} /\ f \notin job[r].opened
          /\ job'[r].op \in Uploads
          /\ job'[r].op \in {"POST", "RAW"} => job[r].opened = {}
          /\ job'[r].file = f /\ job'[r].inode \in Named(f) /\ job'[r].pos = 0
          /\ job'[r].opened = job[r].opened \cup {f} /\ job'[r].sent = job[r].sent
          /\ ~job[r].broke /\ ~job'[r].broke
          /\ disk' = [disk EXCEPT ![f] = job'[r].inode]
          /\ data' = [data EXCEPT ![job'[r].inode] = <<>>]
        BY <1>8 DEF Opened, JobInv, Sound
    <2>2. Sound(job[r])
        BY DEF JobInv
    <2>3. CASE g = f
        <3>1. job[r].sent[f] = <<>>
            BY <2>1, <2>2 DEF Sound, Uploads, None
        <3>2. job'[r].inode # NoInode /\ job'[r].inode \in Inode
            BY <1>4, <2>1, <2>3, InodesNamed DEF Named
        <3>3. disk'[f] = job'[r].inode /\ data'[job'[r].inode] = <<>>
            BY <1>4, <2>1, <3>2
        <3>4. Len(<<>>) = 0
            OBVIOUS
        <3> QED BY <1>8, <2>1, <2>3, <3>1, <3>2, <3>3, <3>4 DEF Uploaded
    <2>4. CASE g # f
        <3>1. g \in job[r].opened
            BY <1>8, <2>1, <2>4
        <3>2. job[r].at = "between"
            BY <2>1, <2>2, <3>1 DEF Sound
        <3>3. Uploaded(job[r], g)
            BY <1>2, <1>8, <3>1, <3>2
        <3>4. disk[g] \in Named(g)
            BY <1>3, <3>3 DEF Uploaded
        <3>5. disk[g] # job'[r].inode
            BY <2>1, <2>4, <3>4, NamesApart
        <3>6. disk'[g] = disk[g] /\ data'[disk[g]] = data[disk[g]]
            BY <1>4, <2>1, <2>4, <3>4, <3>5
        <3> QED BY <1>8, <2>1, <2>4, <3>3, <3>6 DEF Uploaded
    <2> QED BY <2>3, <2>4
<1>9. CASE q = r /\ (ReadOn(r) \/ Unlinked(r, f) \/ Started(r, f) \/ Missed(r, f))
    BY <1>9 DEF ReadOn, Unlinked, Started, Missed
<1> QED BY <1>5, <1>6, <1>7, <1>8, <1>9, <1>a DEF Lone, Filed

\* A download that nobody has interfered with reads what stays as it is.
LEMMA DownloadStep ==
    ASSUME TransfersTyped, JobInv, AloneInv, DownloadInv, TransfersTyped', JobInv',
           NEW r \in Request, NEW f, Lone(r) \/ Filed(r, f)
    PROVE  DownloadInv'
<1> DEFINE Reads(q) == job[q].at = "reading"
<1>1. /\ \A q \in Request \ {r} : job'[q] = job[q]
      /\ clash \subseteq clash'
    BY EndedStays, OthersStay
<1>2. /\ job \in [Request -> Job] /\ local \in [File -> Seq(Chunks)] /\ data \in [Inode -> Seq(Chunks)]
      /\ Sound(job[r])
    BY DEF TransfersTyped, JobInv
\* Only r's own steps change r's copy, and then there is no other download.
<1>3. ASSUME NEW p \in Request, NEW q \in Request, Reads(p)', Reads(q)'
      PROVE  p = q
    <2>1. CASE Started(r, f)
        <3>1. \A o \in Request \ {r} : job'[o].at # "reading"
            BY <1>1, <2>1 DEF Started, ClientIdle
        <3> QED BY <1>3, <3>1
    <2>2. CASE Lone(r) \/ Opened(r, f) \/ Unlinked(r, f) \/ Missed(r, f)
        <3>1. job[p].at = "reading" /\ job[q].at = "reading"
            BY <1>3, <2>2, ReadingStays
        <3> QED BY <3>1 DEF DownloadInv
    <2> QED BY <2>1, <2>2 DEF Filed
<1>4. ASSUME NEW q \in Request, q # r, job[q].at = "reading"
      PROVE  /\ local' = local
             /\ <<q, job[q].file>> \notin clash' => data'[job[q].inode] = data[job[q].inode]
    <2>1. Sound(job[q])
        BY DEF JobInv
    <2>2. job[q].file \in File /\ job[q].inode \in Named(job[q].file)
        BY <1>4, <2>1 DEF Sound
    <2>3. ~ReadOn(r) /\ ~Missed(r, f)
        BY <1>4 DEF DownloadInv, ReadOn, Missed, ClientIdle
    <2>4. local' = local
        BY <2>3 DEF Lone, Filed, Quiet, Broken, Chunked, Opened, Unlinked, Started
    <2>5. <<q, job[q].file>> \notin clash' => \A i \in Named(job[q].file) : data'[i] = data[i]
        BY <1>4, <2>2, FileUntouched
    <2> QED BY <2>2, <2>4, <2>5
<1>5. ASSUME NEW q \in Request, q # r
      PROVE  /\ job'[q].at = "reading" => job'[q].pos <= Len(local'[job'[q].file])
             /\ job'[q].at = "reading" /\ <<q, job'[q].file>> \notin clash' => Downloaded(job[q])'
             /\ job'[q].op = "GET" /\ job'[q].at = "failed" => <<q, job'[q].file>> \in clash'
    <2>1. job'[q] = job[q]
        BY <1>1, <1>5
    <2>2. /\ job[q].at = "reading" => job[q].pos <= Len(local[job[q].file])
          /\ job[q].at = "reading" /\ <<q, job[q].file>> \notin clash => Downloaded(job[q])
          /\ job[q].op = "GET" /\ job[q].at = "failed" => <<q, job[q].file>> \in clash
        BY DEF DownloadInv
    <2>3. CASE job[q].at = "reading"
        <3>1. /\ local' = local
              /\ <<q, job[q].file>> \notin clash' => data'[job[q].inode] = data[job[q].inode]
            BY <1>4, <1>5, <2>3
        <3>2. <<q, job[q].file>> \notin clash' => Downloaded(job[q])
            BY <1>1, <2>2, <2>3
        <3>3. <<q, job'[q].file>> \notin clash' => Downloaded(job[q])'
            BY <2>1, <3>1, <3>2 DEF Downloaded
        <3> QED BY <2>1, <2>2, <2>3, <3>1, <3>3
    <2>4. CASE job[q].at # "reading"
        BY <1>1, <2>1, <2>2, <2>4
    <2> QED BY <2>3, <2>4
<1>6. /\ job'[r].at = "reading" => job'[r].pos <= Len(local'[job'[r].file])
      /\ job'[r].at = "reading" /\ <<r, job'[r].file>> \notin clash' => Downloaded(job[r])'
      /\ job'[r].op = "GET" /\ job'[r].at = "failed" => <<r, job'[r].file>> \in clash'
    <2>1. CASE Quiet(r) \/ Broken(r) \/ Chunked(r) \/ Opened(r, f) \/ Unlinked(r, f) \/ Missed(r, f)
        BY <2>1, <1>2 DEF Sound, Quiet, Broken, Chunked, Opened, Unlinked, Missed
    <2>2. CASE Started(r, f)
        <3>1. /\ f \in File /\ job'[r].at = "reading" /\ job'[r].file = f
              /\ job'[r].inode = disk[f] /\ job'[r].pos = 0
              /\ job'[r].chunks = Len(data[disk[f]]) /\ disk[f] \in Inode
              /\ UNCHANGED <<data, local>>
            BY <2>2 DEF Started
        <3>2. local[f] \in Seq(Chunks) /\ data[disk[f]] \in Seq(Chunks)
            BY <1>2, <3>1
        <3>3. Len(local[f]) >= 0 /\ Len(data[disk[f]]) >= 0 /\ 1 .. 0 = {}
            BY <3>2
        <3>4. Downloaded(job[r])'
            BY <3>1, <3>3 DEF Downloaded
        <3> QED BY <3>1, <3>3, <3>4
    <2>3. CASE ReadOn(r)
        <3> DEFINE j == job[r]
                   copy == local[j.file]
                   whole == data[j.inode]
        <3>1. /\ j.at = "reading" /\ j.file \in File /\ j.inode \in Inode /\ j.pos < j.chunks
              /\ job'[r].file = j.file /\ job'[r].inode = j.inode /\ job'[r].chunks = j.chunks
              /\ data' = data /\ clash' = clash
            BY <2>3 DEF ReadOn
        <3>2. /\ j.pos <= Len(copy)
              /\ <<r, j.file>> \notin clash =>
                    /\ j.chunks = Len(whole)
                    /\ \A i \in 1 .. j.pos : copy[i] = whole[i]
            BY <3>1 DEF DownloadInv, Downloaded
        <3>3. copy \in Seq(Chunks) /\ whole \in Seq(Chunks) /\ j.pos \in Nat /\ j.chunks \in Nat
            BY <1>2, <3>1 DEF Job
        <3>4. CASE ~(j.pos < Len(whole))
            <4>1. job'[r].at = "failed"
                BY <2>3, <3>4 DEF ReadOn
            <4>2. <<r, j.file>> \in clash
                BY <3>1, <3>2, <3>4
            <4> QED BY <3>1, <4>1, <4>2
        <3>5. CASE j.pos < Len(whole)
            <4> DEFINE new == Written(copy, j.pos, whole[j.pos + 1])
            <4>1. /\ job'[r].at = "reading" /\ job'[r].pos = j.pos + 1
                  /\ local' = [local EXCEPT ![j.file] = new]
                BY <2>3, <3>5 DEF ReadOn
            <4>2. whole[j.pos + 1] \in Chunks
                BY <3>3, <3>5
            <4>3. /\ new \in Seq(Chunks) /\ Len(new) > j.pos
                  /\ new[j.pos + 1] = whole[j.pos + 1]
                  /\ \A i \in 1 .. Len(copy) : i # j.pos + 1 => new[i] = copy[i]
                BY <3>3, <4>2, WrittenIs
            <4> HIDE DEF new
            <4>4. local'[j.file] = new
                BY <1>2, <3>1, <4>1
            <4>5. Len(new) \in Nat /\ Len(copy) \in Nat
                BY <3>3, <4>3
            <4>6. ASSUME <<r, j.file>> \notin clash
                  PROVE  \A i \in 1 .. j.pos + 1 : new[i] = whole[i]
                BY <3>2, <3>3, <4>3, <4>5, <4>6
            <4>7. <<r, j.file>> \notin clash => Downloaded(job[r])'
                BY <3>1, <3>2, <3>3, <4>1, <4>4, <4>6 DEF Downloaded
            <4> QED BY <3>1, <3>3, <4>1, <4>3, <4>4, <4>5, <4>7
        <3> QED BY <3>4, <3>5
    <2> QED BY <2>1, <2>2, <2>3 DEF Lone, Filed
<1> QED BY <1>3, <1>5, <1>6 DEF DownloadInv, Downloaded

-----------------------------------------------------------------------------
(* The theorems                                                            *)

LEMMA TransfersStart == Init => TransfersInv
<1> SUFFICES ASSUME Init PROVE TransfersInv
    OBVIOUS
<1>1. /\ disk = [f \in File |-> NoInode] /\ data = [i \in Inode |-> <<>>]
      /\ job = [r \in Request |-> NewJob] /\ local = [f \in File |-> <<>>] /\ clash = {}
    BY DEF Init
<1>2. /\ NewJob.at = "new" /\ NewJob.op = None /\ NewJob.pos = 0 /\ NewJob.opened = {}
      /\ ~NewJob.broke
      /\ \A f \in File : NewJob.sent[f] = <<>>
    BY DEF NewJob
<1>3. TransfersTyped
    <2>1. <<>> \in Seq(Chunks)
        OBVIOUS
    <2>2. job \in [Request -> Job]
        BY <1>1, NewJobTyped
    <2> QED BY <1>1, <2>1, <2>2 DEF TransfersTyped
<1>4. JobInv
    BY <1>1, <1>2 DEF JobInv, Sound, None
<1>5. AloneInv /\ UploadInv
    BY <1>1, <1>2 DEF AloneInv, UploadInv
<1>6. DownloadInv
    BY <1>1, <1>2, NewJobTyped DEF DownloadInv
<1> QED BY <1>3, <1>4, <1>5, <1>6 DEF TransfersInv

\* TransfersInv holds in every reachable state.
THEOREM TransfersInvariance == Spec => []TransfersInv
<1>1. TransfersInv /\ [Next]_transferVars => TransfersInv'
    <2> SUFFICES ASSUME TransfersInv, [Next]_transferVars PROVE TransfersInv'
        OBVIOUS
    <2>1. TransfersTyped /\ JobInv /\ AloneInv /\ UploadInv /\ DownloadInv
        BY DEF TransfersInv
    <2>2. CASE Next
        <3>1. PICK r \in Request :
                    \/ Quiet(r) \/ Broken(r) \/ Chunked(r) \/ ReadOn(r)
                    \/ \E f \in File : Opened(r, f) \/ Unlinked(r, f) \/ Started(r, f) \/ Missed(r, f)
            BY <2>1, <2>2, StepsAre
        <3>2. PICK f : Lone(r) \/ Filed(r, f)
            BY <3>1 DEF Lone, Filed
        <3>3. TransfersTyped'
            BY <2>1, <3>2, TypedStep
        <3>4. JobInv'
            BY <2>1, <3>2, JobStep
        <3>5. AloneInv'
            BY <2>1, <3>2, <3>3, <3>4, AloneStep
        <3>6. UploadInv'
            BY <2>1, <3>2, <3>3, UploadStep
        <3>7. DownloadInv'
            BY <2>1, <3>2, <3>3, <3>4, DownloadStep
        <3> QED BY <3>3, <3>4, <3>5, <3>6, <3>7 DEF TransfersInv
    <2>3. CASE UNCHANGED transferVars
        <3>1. disk' = disk /\ data' = data /\ job' = job /\ local' = local /\ clash' = clash
            BY <2>3 DEF transferVars
        <3>2. TransfersTyped' /\ JobInv'
            BY <2>1, <3>1 DEF TransfersTyped, JobInv, Sound
        <3>3. AloneInv'
            BY <2>1, <3>1 DEF AloneInv, Alone, Writers
        <3>4. UploadInv' /\ DownloadInv'
            BY <2>1, <3>1 DEF UploadInv, Uploaded, DownloadInv, Downloaded
        <3> QED BY <3>2, <3>3, <3>4 DEF TransfersInv
    <2> QED BY <2>2, <2>3
<1> QED BY <1>1, TransfersStart, PTL DEF Spec

\* What a request that nobody interferes with puts into a file is the beginning of what was
\* sent for it, in order and alone, and all of it but where the stream broke between fields;
\* what it takes from a file is the file's: for any requests, files and number of chunks.
THEOREM NothingLostOrMixed == Spec => []Intact
<1>1. TransfersInv => Intact
    <2> SUFFICES ASSUME TransfersInv, NEW r \in Request, NEW f \in File, <<r, f>> \notin clash
                 PROVE  LET j == job[r]
                            stored == data[disk[f]]
                        IN  /\ j.at = "created" /\ f \in j.opened =>
                                    /\ disk[f] # NoInode
                                    /\ Len(stored) <= Len(j.sent[f])
                                    /\ stored = SubSeq(j.sent[f], 1, Len(stored))
                                    /\ j.broke \/ stored = j.sent[f]
                            /\ j.op = "GET" /\ j.file = f => j.at # "failed"
                            /\ r \in Readers(f) =>
                                    /\ j.chunks = Len(data[j.inode])
                                    /\ SubSeq(local[f], 1, j.pos) = SubSeq(data[j.inode], 1, j.pos)
        BY DEF Intact
    <2> DEFINE j == job[r]
               stored == data[disk[f]]
    <2>1. TransfersTyped /\ JobInv /\ UploadInv /\ DownloadInv
        BY DEF TransfersInv
    <2>2. ASSUME j.at = "created", f \in j.opened
          PROVE  /\ disk[f] # NoInode
                 /\ Len(stored) <= Len(j.sent[f])
                 /\ stored = SubSeq(j.sent[f], 1, Len(stored))
                 /\ j.broke \/ stored = j.sent[f]
        <3>1. Uploaded(j, f)
            BY <2>1, <2>2 DEF UploadInv
        <3>2. j.sent[f] \in Seq(Chunks)
            BY <2>1 DEF TransfersTyped, Job
        <3>3. /\ SubSeq(j.sent[f], 1, Len(j.sent[f])) = j.sent[f]
              /\ Len(j.sent[f]) <= Len(j.sent[f])
            BY <3>2, Begins
        <3> QED BY <3>1, <3>3 DEF Uploaded
    <2>3. j.op = "GET" /\ j.file = f => j.at # "failed"
        BY <2>1 DEF DownloadInv
    <2>4. ASSUME r \in Readers(f)
          PROVE  /\ j.chunks = Len(data[j.inode])
                 /\ SubSeq(local[f], 1, j.pos) = SubSeq(data[j.inode], 1, j.pos)
        <3>1. j.at = "reading" /\ j.file = f
            BY <2>1, <2>4, ReadersAre
        <3>2. /\ j.chunks = Len(data[j.inode]) /\ j.pos <= j.chunks /\ j.pos <= Len(local[f])
              /\ \A i \in 1 .. j.pos : local[f][i] = data[j.inode][i]
            BY <2>1, <3>1 DEF DownloadInv, Downloaded
        <3>3. j.pos \in Nat /\ local[f] \in Seq(Chunks) /\ j.inode \in Inode
            BY <2>1, <3>1 DEF TransfersTyped, JobInv, Sound, Job, Named, Inode
        <3>4. data[j.inode] \in Seq(Chunks)
            BY <2>1, <3>3 DEF TransfersTyped
        <3>5. SubSeq(local[f], 1, j.pos) = [i \in 1 .. j.pos |-> local[f][i]]
            BY <3>2, <3>3
        <3>6. SubSeq(data[j.inode], 1, j.pos) = [i \in 1 .. j.pos |-> data[j.inode][i]]
            BY <3>2, <3>3, <3>4
        <3> QED BY <3>2, <3>5, <3>6
    <2> QED BY <2>2, <2>3, <2>4
<1> QED BY <1>1, TransfersInvariance, PTL

=============================================================================
