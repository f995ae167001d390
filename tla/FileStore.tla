------------------------------ MODULE FileStore ------------------------------
(***************************************************************************)
(* The file routes (src/fs.rs) beside the Concierge actor.  A request asks *)
(* the concierge for the name behind its key, and then works on the disk   *)
(* from a thread pool while the concierge goes on: the client may leave    *)
(* meanwhile, and Handler<Disconnect> deletes its folder.                  *)
(*                                                                         *)
(* Of the concierge only arrivals, departures and queries matter here, the *)
(* other requests touch neither names nor folders.  What a file contains   *)
(* is left out; whose upload it is is kept.  Requests without a readable   *)
(* key, which end before they ask anything, are left out.                  *)
(***************************************************************************)
EXTENDS Concierge

CONSTANTS
    Request,  \* HTTP requests made during the run
    File      \* sanitized file names

VARIABLES
    folders,  \* names whose folder ./fs/<name> exists
    disk,     \* name -> file -> the request that last opened it anew, or None
    job,      \* request -> its handler
    sweep,    \* the folder that a departure is deleting, or None
    listed,   \* whether the deletion has read the folder
    unswept   \* the files it has found there and not come to

sweeping == <<sweep, listed, unswept>>
fileVars == <<folders, disk, job, sweeping>>
fsVars == <<vars, fileVars>>

None == "none"
ASSUME NoneAssumption == None \notin Request \cup Name

Op == {"GET", "POST", "POST_MULTI", "DELETE"}

\* How a handler ends: the status it returns, or "panicked".
Ended == {"ok", "created", "unauthorized", "forbidden", "rejected", "failed", "panicked"}
At == {"new", "asking", "granted", "folder", "writing", "discarding"} \cup Ended

NewJob == [op |-> None, key |-> None, name |-> None, file |-> None,
           at |-> "new", opened |-> {}, late |-> FALSE, raced |-> FALSE]

Registered == DOMAIN namespace

Step(r, at) == job' = [job EXCEPT ![r].at = at]

-----------------------------------------------------------------------------
(* The concierge                                                           *)

\* Slip: the folder is deleted in the background.
FreeAtOnce == alive

\* Disconnect goes on until remove_dir_all has returned, and the concierge
\* answers nobody in between.
Free == alive /\ sweep = None

Arrive(u, n) ==
    /\ Free
    /\ Identify(u, n)
    /\ UNCHANGED fileVars

\* Disconnect, up to remove_dir_all.
Depart(u) ==
    /\ Free
    /\ Disconnect(u)
    /\ sweep' = clients[u].name
    /\ UNCHANGED <<folders, disk, job, listed, unswept>>

\* The concierge goes on, whether the deletion has succeeded or not.
SweepEnds ==
    /\ sweep' = None
    /\ listed' = FALSE
    /\ unswept' = {}

\* Slip: the deletion waits for a folder that nobody has made.
ListFolderOnceMade ==
    /\ sweep \in folders /\ ~listed
    /\ listed' = TRUE
    /\ unswept' = {f \in File : disk[sweep][f] # None}
    /\ UNCHANGED <<vars, folders, disk, job, sweep>>

\* remove_dir_all reads the folder, unless there is none, then takes what it has
\* found there file by file, and then the folder, if that is empty.
ListFolder ==
    /\ sweep # None /\ ~listed
    /\ IF sweep \in folders
       THEN /\ listed' = TRUE
            /\ unswept' = {f \in File : disk[sweep][f] # None}
            /\ UNCHANGED sweep
       ELSE SweepEnds
    /\ UNCHANGED <<vars, folders, disk, job>>

SweepFile(f) ==
    /\ f \in unswept
    /\ disk[sweep][f] # None
    /\ disk' = [disk EXCEPT ![sweep][f] = None]
    /\ unswept' = unswept \ {f}
    /\ UNCHANGED <<vars, folders, job, sweep, listed>>

\* A request has removed the file meanwhile: the first error ends the deletion.
SweepAborts(f) ==
    /\ f \in unswept
    /\ disk[sweep][f] = None
    /\ SweepEnds
    /\ UNCHANGED <<vars, folders, disk, job>>

SweepFolder ==
    /\ listed /\ unswept = {}
    /\ folders' = IF \A f \in File : disk[sweep][f] = None THEN folders \ {sweep} ELSE folders
    /\ SweepEnds
    /\ UNCHANGED <<vars, disk, job>>

-----------------------------------------------------------------------------
(* The request handlers                                                    *)

Submit(r, op, u, n, f) ==
    /\ alive
    /\ job[r].at = "new" /\ u \in issued
    /\ job' = [job EXCEPT ![r] = [@ EXCEPT !.op = op, !.key = u, !.name = n, !.file = f,
                                           !.at = "asking"]]
    /\ UNCHANGED <<vars, folders, disk, sweeping>>

\* Slip: the known key of anyone opens every folder.
VerdictOfKey(r) == IF QueryUuid(job[r].key) = {} THEN "unauthorized" ELSE "granted"

\* A download only needs a known key, everything else the folder's own.
Verdict(r) ==
    CASE QueryUuid(job[r].key) = {} -> "unauthorized"
      [] job[r].op # "GET" /\ QueryUuid(job[r].key) \notin {{}, {job[r].name}} -> "forbidden"
      [] OTHER -> "granted"

Ask(r) ==
    /\ Free
    /\ job[r].at = "asking"
    /\ Query
    /\ Step(r, Verdict(r))
    /\ UNCHANGED <<folders, disk, sweeping>>

Granted(r, op) == alive /\ job[r].at = "granted" /\ job[r].op = op

Exists(n, f) == n \in folders /\ disk[n][f] # None

Download(r) ==
    /\ Granted(r, "GET")
    /\ Step(r, IF Exists(job[r].name, job[r].file) THEN "ok" ELSE "failed")
    /\ UNCHANGED <<vars, folders, disk, sweeping>>

\* Whether f is a file that a deletion has found in n and not come to.
Unswept(n, f) == n = sweep /\ f \in unswept

Unlink(r, status) ==
    IF Exists(job[r].name, job[r].file)
    THEN /\ disk' = [disk EXCEPT ![job[r].name][job[r].file] = None]
         /\ job' = [job EXCEPT ![r].at = status,
                               ![r].raced = Unswept(job[r].name, job[r].file)]
    ELSE UNCHANGED disk /\ Step(r, "failed")

Delete(r) ==
    /\ Granted(r, "DELETE")
    /\ Unlink(r, "ok")
    /\ UNCHANGED <<vars, folders, sweeping>>

\* create_dir_all of multipart_upload_single.
MakeFolder(r) ==
    /\ Granted(r, "POST")
    /\ folders' = folders \cup {job[r].name}
    /\ Step(r, "folder")
    /\ UNCHANGED <<vars, disk, sweeping>>

\* The upload r once it has opened f.
Writing(r, f) == [job[r] EXCEPT !.at = "writing", !.opened = @ \cup {f},
                                !.late = @ \/ job[r].key \notin DOMAIN clients]

\* The file is created, or emptied when it is there; without the folder (a
\* departure may just have deleted it) this fails.
OpenIn(r, f) ==
    /\ IF job[r].name \in folders
       THEN /\ disk' = [disk EXCEPT ![job[r].name][f] = r]
            /\ job' = [job EXCEPT ![r] = Writing(r, f)]
       ELSE UNCHANGED disk /\ Step(r, "failed")
    /\ UNCHANGED <<vars, folders, sweeping>>

CreateFile(r) ==
    /\ alive
    /\ job[r].at = "folder"
    /\ OpenIn(r, job[r].file)

\* Where a multi upload reads the next field of its stream.
AtField(r) ==
    /\ alive
    /\ job[r].op = "POST_MULTI"
    /\ job[r].at \in {"granted", "writing"}

\* A field with a file name that this upload has not met.  No folder is made.
OpenField(r, f) ==
    /\ AtField(r)
    /\ f \notin job[r].opened
    /\ OpenIn(r, f)

\* A field with a name it has met is appended to that file, if it still exists.
AppendField(r, f) ==
    /\ AtField(r)
    /\ f \in job[r].opened
    /\ ~Exists(job[r].name, f)
    /\ Step(r, "failed")
    /\ UNCHANGED <<vars, folders, disk, sweeping>>

\* A field of a multi upload without a file name.
Undisposed(r) ==
    /\ AtField(r)
    /\ Step(r, "rejected")
    /\ UNCHANGED <<vars, folders, disk, sweeping>>

\* 201 at the end of the stream; an error between fields ends the loop as well.
Finish(r) ==
    /\ alive
    /\ job[r].at = "writing" \/ AtField(r)
    /\ Step(r, "created")
    /\ UNCHANGED <<vars, folders, disk, sweeping>>

\* A later field of a single upload names another file: the file goes again.
Mismatch(r) ==
    /\ alive
    /\ job[r].op = "POST"
    /\ job[r].at = "writing"
    /\ Step(r, "discarding")
    /\ UNCHANGED <<vars, folders, disk, sweeping>>

Discard(r) ==
    /\ alive
    /\ job[r].at = "discarding"
    /\ Unlink(r, "rejected")
    /\ UNCHANGED <<vars, folders, sweeping>>

\* chunk.unwrap() of a field that breaks off: release builds abort.
StreamBreaks(r) ==
    /\ alive
    /\ job[r].at = "writing"
    /\ alive' = FALSE
    /\ Step(r, "panicked")
    /\ UNCHANGED <<namespace, clients, services, issued, out, folders, disk, sweeping>>

-----------------------------------------------------------------------------
FsInit ==
    /\ Init
    /\ folders = {}
    /\ disk = [n \in Name |-> [f \in File |-> None]]
    /\ job = [r \in Request |-> NewJob]
    /\ sweep = None
    /\ listed = FALSE
    /\ unswept = {}

Path(op) == IF op = "POST_MULTI" THEN {None} ELSE File

\* What the peer of a request decides.
Peer(r) ==
    \/ \E op \in Op, u \in Uuid, n \in Name : \E f \in Path(op) : Submit(r, op, u, n, f)
    \/ \E f \in File : OpenField(r, f) \/ AppendField(r, f)
    \/ Undisposed(r)
    \/ Finish(r)
    \/ Mismatch(r)
    \/ StreamBreaks(r)

\* What the server does of itself.
Work(r) == Download(r) \/ Delete(r) \/ MakeFolder(r) \/ CreateFile(r) \/ Discard(r)

FsNext ==
    \/ \E u \in Uuid, n \in Name : Arrive(u, n)
    \/ \E u \in Uuid : Depart(u)
    \/ ListFolder
    \/ \E f \in File : SweepFile(f) \/ SweepAborts(f)
    \/ SweepFolder
    \/ \E r \in Request : Ask(r) \/ Work(r) \/ Peer(r)

FsSpec == FsInit /\ [][FsNext]_fsVars

\* The thread pool gets to every job and a deletion of a folder ends.  A query
\* waits in the concierge's mailbox, a queue: other arrivals and departures
\* cannot overtake it for ever.
FsFairness ==
    /\ WF_fsVars(ListFolder) /\ WF_fsVars(SweepFolder)
    /\ \A f \in File : WF_fsVars(SweepFile(f)) /\ WF_fsVars(SweepAborts(f))
    /\ \A r \in Request : SF_fsVars(Ask(r)) /\ WF_fsVars(Work(r))

FairFsSpec == FsSpec /\ FsFairness

-----------------------------------------------------------------------------
(* Properties                                                              *)

\* A request has taken a file that a departure was about to delete with the folder
\* of n: that ends the deletion before it has come to the other files.
DeletionWasRaced(n) == \E q \in Request : job[q].raced /\ job[q].name = n

\* A folder shows uploads of the client that has its name now: what an earlier
\* client of that name left was deleted with it.  The two exceptions are an upload
\* that went on after its client had left, and a folder whose deletion a request
\* has raced; no other interleaving hands a client's files to the next one.
FilesAreOwners ==
    \A n \in Name, f \in File :
        disk[n][f] # None /\ n # sweep =>
            \/ job[disk[n][f]].late
            \/ n \in Registered /\ job[disk[n][f]].key = namespace[n]
            \/ DeletionWasRaced(n)

\* A request that has removed the file at its path, or is about to have done so.
HasRemoved(q) ==
    \/ job[q].op = "DELETE" /\ job[q].at = "ok"
    \/ job[q].op = "POST" /\ job[q].at = "rejected"

\* An upload that was answered with 201 stays for as long as its client does,
\* unless another request for the same path has removed it: a departure never
\* takes the files of a newcomer that has got the name already.
AcknowledgedStays ==
    \A r \in Request : job[r].at = "created" /\ job[r].key \in DOMAIN clients =>
        \A f \in job[r].opened :
            \/ Exists(job[r].name, f)
            \/ \E q \in Request : HasRemoved(q) /\ job[q].name = job[r].name /\ job[q].file = f

\* Downloads and deletions are answered, whatever departures and their deletions
\* of folders come in between; an upload also depends on its peer.
RequestEnds ==
    \A r \in Request :
        (job[r].op \in {"GET", "DELETE"} /\ job[r].at = "asking") ~> (job[r].at \in Ended \/ ~alive)
=============================================================================
