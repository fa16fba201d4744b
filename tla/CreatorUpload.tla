--------------------------- MODULE CreatorUpload ---------------------------
(***************************************************************************)
(* One resumable upload by a creator: the session row with its part ledger *)
(* and its input job, the multipart upload and the object in MinIO, and    *)
(* the calls of the coordinator (start, upload a part) and the finalizer   *)
(* that concurrent clients make on it.                                     *)
(*                                                                         *)
(* Every transaction and every storage call is one step, and each may fail *)
(* before or after its effect.  The reads that open a call are one step    *)
(* with each other: a session past "initiated" has its manifest, and a     *)
(* whole ledger does not change.  A client that reads a terminal session,  *)
(* or a part the ledger has, changes nothing and has no action here.       *)
(***************************************************************************)
EXTENDS Naturals, FiniteSets

CONSTANTS
    Clients,    \* concurrent callers
    Handles,    \* multipart uploads, each with an object key of its own
    Parts,      \* part numbers of the upload plan
    Data,       \* contents of a part of the planned length; a part's ETag,
                \* size and checksum in the ledger stand for its content
    Declared,   \* content the declared checksum belongs to
    NoHandle, NoData, NoContent,
    MaxFaults   \* bound: failed calls, lost replies and dead clients

Content == [Parts -> Data]
Ledger == [Parts -> Data \cup {NoData}]

ASSUME NullsAssumption ==
    NoHandle \notin Handles /\ NoData \notin Data /\ NoContent \notin Content
ASSUME DeclaredAssumption == Declared \in Content
ASSUME BoundAssumption == Parts \subseteq Nat /\ MaxFaults \in Nat

ActiveStates == {"initiated", "uploading", "awaiting_attestation"}
TerminalStates == {"completed", "aborted"}   \* nothing ever writes "expired"

\* checksum: expected_sha256 was given.  elapsed: expires_at has passed.
Session == [status   : {"none"} \cup ActiveStates \cup TerminalStates,
            version  : Nat,
            handle   : Handles \cup {NoHandle},
            parts    : Ledger,
            checksum : BOOLEAN,
            elapsed  : BOOLEAN]

Upload == [state : {"unused", "open", "closed"}, parts : Ledger]

EmptyLedger == [p \in Parts |-> NoData]

\* Why a client is in the code: start_upload ("create"), start, upload_part,
\* finalize, or finalize after the rights review denied it.
Ops == {"none", "create", "start", "part", "finalize", "denied"}
PC == {"idle", "createMultipart", "attach", "put", "record", "complete",
       "verify", "deleteBroken", "commit", "resolve", "deleteStored",
       "abortSession", "abortTransport"}

Task == [pc : PC, op : Ops, handle : Handles \cup {NoHandle},
         version : Nat, ledger : Ledger, digest : Content \cup {NoContent}]

Idle == [pc |-> "idle", op |-> "none", handle |-> NoHandle, version |-> 0,
         ledger |-> EmptyLedger, digest |-> NoContent]

VARIABLES
    active,   \* the rights review is neither rejected nor expired
    session,  \* creator_upload_sessions with its manifest and its parts
    job,      \* status of the row of audio_input_jobs
    asset,    \* checksum of the row of audio_assets
    uploads,  \* multipart uploads MinIO knows
    objects,  \* objects of the bucket audio-quarantine
    task,     \* what each client is doing
    faults    \* faults so far

vars == <<active, session, job, asset, uploads, objects, task, faults>>
database == <<session, job, asset>>
storage == <<uploads, objects>>

TypeOK ==
    /\ active \in BOOLEAN
    /\ session \in Session
    /\ job \in {"none", "queued", "processing", "completed", "blocked"}
    /\ asset \in Content \cup {NoContent}
    /\ uploads \in [Handles -> Upload]
    /\ objects \in [Handles -> Content \cup {NoContent}]
    /\ task \in [Clients -> Task]
    /\ faults \in 0..MaxFaults

Init ==
    /\ active = TRUE
    /\ session = [status |-> "none", version |-> 0, handle |-> NoHandle,
                  parts |-> EmptyLedger, checksum |-> FALSE, elapsed |-> FALSE]
    /\ job = "none"
    /\ asset = NoContent
    /\ uploads = [h \in Handles |-> [state |-> "unused", parts |-> EmptyLedger]]
    /\ objects = [h \in Handles |-> NoContent]
    /\ task = [c \in Clients |-> Idle]
    /\ faults = 0

Fault == faults < MaxFaults /\ faults' = faults + 1
NoFault == UNCHANGED faults

At(c, pc) == task[c].pc = pc
Goto(c, pc) == task' = [task EXCEPT ![c].pc = pc]
Return(c) == task' = [task EXCEPT ![c] = Idle]

\* The call of the client has its effect: its reply arrives, and the client
\* goes on, or it is lost, and the client handles an error.
Effect(onReply, onError) == (NoFault /\ onReply) \/ (Fault /\ onError)

-----------------------------------------------------------------------------
(* Starting an upload. *)

\* Nobody learns the id of a session before the call that creates it is over.
Known == session.status # "none" /\ \A c \in Clients : task[c].op # "create"

\* start_upload: a session and its queued job.
Create(c, checksum) ==
    /\ At(c, "idle")
    /\ session.status = "none"
    /\ active
    /\ session' = [session EXCEPT !.status = "initiated", !.checksum = checksum]
    /\ job' = "queued"
    /\ Effect(task' = [task EXCEPT ![c].pc = "createMultipart", ![c].op = "create"],
              UNCHANGED task)
    /\ UNCHANGED <<active, asset, storage>>

\* start, called for a session whose creation was cut short.
StartRequest(c) ==
    /\ At(c, "idle")
    /\ Known
    /\ session.status = "initiated"
    /\ task' = [task EXCEPT ![c] = [Idle EXCEPT !.pc = "createMultipart", !.op = "start"]]
    /\ UNCHANGED <<active, database, storage, faults>>

\* An error before the attachment undoes the session only in start_upload.
StartFails(c) == IF task[c].op = "create" THEN Goto(c, "abortSession") ELSE Return(c)

CreateMultipart(c) ==
    /\ At(c, "createMultipart")
    /\ \/ \E h \in Handles :
             /\ uploads[h].state = "unused"
             /\ uploads' = [uploads EXCEPT ![h].state = "open"]
             /\ Effect(task' = [task EXCEPT ![c].pc = "attach", ![c].handle = h],
                       StartFails(c))
       \/ Fault /\ StartFails(c) /\ UNCHANGED uploads
    /\ UNCHANGED <<active, database, objects>>

Attachable(c) ==
    /\ session.status = "initiated" /\ session.version = task[c].version
    /\ job = "queued"
    /\ ~session.elapsed

AttachManifest(c) ==
    /\ At(c, "attach")
    /\ \/ /\ Attachable(c)
          /\ session' = [session EXCEPT !.status = "uploading", !.version = @ + 1,
                                        !.handle = task[c].handle]
          /\ job' = "processing"
          /\ Effect(Return(c), Goto(c, "abortTransport"))
       \/ ~Attachable(c) /\ NoFault /\ Goto(c, "abortTransport") /\ UNCHANGED database
       \/ Fault /\ Goto(c, "abortTransport") /\ UNCHANGED database
    /\ UNCHANGED <<active, asset, storage>>

-----------------------------------------------------------------------------
(* Compensation. *)

\* What follows an attempt to abort the session.
AfterSessionAbort(c, aborted) ==
    CASE task[c].op = "create" -> Return(c)
      [] task[c].op = "denied" /\ aborted -> Goto(c, "deleteStored")
      [] task[c].op = "denied" /\ ~aborted -> Return(c)
      [] OTHER -> Goto(c, "abortTransport")

\* (Mutant of Abortable: a completed session can be aborted.)
AbortableAlways == session.status # "aborted"

Abortable == session.status \in ActiveStates /\ job \in {"queued", "processing"}

\* Aborting an aborted session succeeds; a completed one is refused.
AbortSession(c) ==
    /\ At(c, "abortSession")
    /\ \/ /\ Abortable
          /\ session' = [session EXCEPT !.status = "aborted", !.version = @ + 1]
          /\ job' = "blocked"
          /\ Effect(AfterSessionAbort(c, TRUE), AfterSessionAbort(c, FALSE))
       \/ /\ ~Abortable
          /\ NoFault
          /\ AfterSessionAbort(c, session.status = "aborted")
          /\ UNCHANGED <<session, job>>
       \/ Fault /\ AfterSessionAbort(c, FALSE) /\ UNCHANGED <<session, job>>
    /\ UNCHANGED <<active, asset, storage>>

\* An upload that is gone already counts as aborted.  start_upload then goes
\* on to abort its session.
AbortTransport(c) ==
    LET next == IF task[c].op = "create" THEN Goto(c, "abortSession") ELSE Return(c)
    IN  /\ At(c, "abortTransport")
        /\ \/ /\ uploads' = [uploads EXCEPT ![task[c].handle].state = "closed"]
              /\ Effect(next, next)
           \/ Fault /\ next /\ UNCHANGED uploads
        /\ UNCHANGED <<active, database, objects>>

-----------------------------------------------------------------------------
(* Uploading a part. *)

\* The caller names any version of the session there has been.
PartRequest(c, p, d, version) ==
    /\ At(c, "idle")
    /\ Known
    /\ session.status = "uploading"
    /\ session.parts[p] = NoData
    /\ task' = [task EXCEPT ![c] = [Idle EXCEPT
                   !.pc = "put", !.op = "part", !.handle = session.handle,
                   !.version = version, !.ledger = [EmptyLedger EXCEPT ![p] = d]]]
    /\ UNCHANGED <<active, database, storage, faults>>

\* The part a client uploads.
PartOf(c) == CHOOSE p \in Parts : task[c].ledger[p] # NoData
DataOf(c) == task[c].ledger[PartOf(c)]

\* A later upload of the same part replaces an earlier one.  An error of the
\* storage leaves the session as it is.
PutPart(c) ==
    LET h == task[c].handle
    IN  /\ At(c, "put")
        /\ \/ /\ uploads[h].state = "open"
              /\ uploads' = [uploads EXCEPT ![h].parts[PartOf(c)] = DataOf(c)]
              /\ Effect(Goto(c, "record"), Return(c))
           \/ /\ uploads[h].state # "open"
              /\ NoFault /\ Return(c) /\ UNCHANGED uploads
           \/ Fault /\ Return(c) /\ UNCHANGED uploads
        /\ UNCHANGED <<active, database, objects>>

Whole(ledger) == \A p \in Parts : ledger[p] # NoData

\* (Mutant of Recorded: the session is given the status of its job.)
RecordedAsJob(c) == [session EXCEPT !.parts[PartOf(c)] = DataOf(c),
                                    !.version = @ + 1, !.status = job]

Recorded(c) ==
    [session EXCEPT !.parts[PartOf(c)] = DataOf(c),
                    !.version = @ + 1,
                    !.status = IF Whole([session.parts EXCEPT ![PartOf(c)] = DataOf(c)])
                               THEN "awaiting_attestation" ELSE "uploading"]

Recordable(c) ==
    /\ session.parts[PartOf(c)] = NoData
    /\ session.status = "uploading" /\ session.version = task[c].version
    /\ ~session.elapsed

\* A replay of a recorded part succeeds whatever has become of the session.
RecordPart(c) ==
    /\ At(c, "record")
    /\ \/ /\ Recordable(c)
          /\ session' = Recorded(c)
          /\ Effect(Return(c), Goto(c, "abortSession"))
       \/ /\ ~Recordable(c) /\ NoFault
          /\ IF session.parts[PartOf(c)] = DataOf(c)
             THEN Return(c) ELSE Goto(c, "abortSession")
          /\ UNCHANGED session
       \/ Fault /\ Goto(c, "abortSession") /\ UNCHANGED session
    /\ UNCHANGED <<active, job, asset, storage>>

-----------------------------------------------------------------------------
(* Finalizing. *)

FinalizeRequest(c) ==
    /\ At(c, "idle")
    /\ Known
    /\ session.status = "awaiting_attestation"
    /\ Whole(session.parts)
    /\ task' = [task EXCEPT ![c] = [Idle EXCEPT
                   !.pc = "complete", !.op = "finalize", !.handle = session.handle,
                   !.version = session.version, !.ledger = session.parts]]
    /\ UNCHANGED <<active, database, storage, faults>>

\* (Mutant of Assembled: the object is made of the parts the storage lists.)
AssembledFromListing(h, ledger) == uploads[h].parts

\* The object MinIO assembles from the listed parts, or none if an ETag of the
\* list is not that of the part it has.
Assembled(h, ledger) == IF uploads[h].parts = ledger THEN ledger ELSE NoContent

CompleteUpload(c) ==
    LET h == task[c].handle
        object == Assembled(h, task[c].ledger)
    IN  /\ At(c, "complete")
        /\ \/ /\ uploads[h].state = "open" /\ object # NoContent
              /\ uploads' = [uploads EXCEPT ![h].state = "closed"]
              /\ objects' = [objects EXCEPT ![h] = object]
              /\ Effect(Goto(c, "verify"), Goto(c, "abortSession"))
           \/ /\ uploads[h].state = "open" /\ object = NoContent
              /\ NoFault /\ Goto(c, "abortSession") /\ UNCHANGED storage
           \/ /\ uploads[h].state # "open"     \* NoSuchUpload
              /\ NoFault /\ Goto(c, "verify") /\ UNCHANGED storage
           \/ Fault /\ Goto(c, "abortSession") /\ UNCHANGED storage
        /\ UNCHANGED <<active, database>>

Acceptable(object) == object # NoContent /\ (session.checksum => object = Declared)

\* stat_object and the reading of the whole object.
Verify(c) ==
    LET object == objects[task[c].handle]
    IN  /\ At(c, "verify")
        /\ \/ /\ Acceptable(object) /\ NoFault
              /\ task' = [task EXCEPT ![c].pc = "commit", ![c].digest = object]
           \/ ~Acceptable(object) /\ NoFault /\ Goto(c, "deleteBroken")
           \/ Fault /\ Goto(c, "deleteBroken")
        /\ UNCHANGED <<active, database, storage>>

\* The removal of the client's object, and what the client does after it.
Remove(c, next) ==
    /\ \/ /\ objects' = [objects EXCEPT ![task[c].handle] = NoContent]
          /\ Effect(next, next)
       \/ Fault /\ next /\ UNCHANGED objects
    /\ UNCHANGED <<active, database, uploads>>

DeleteBroken(c) == At(c, "deleteBroken") /\ Remove(c, Goto(c, "abortSession"))
DeleteStored(c) == At(c, "deleteStored") /\ Remove(c, Return(c))

Current(c) ==
    session.status = "awaiting_attestation" /\ session.version = task[c].version

\* complete_creator_upload.  A row may not be updated after its expiry except
\* to a terminal failure: the database raises.
Commit(c) ==
    /\ At(c, "commit")
    /\ \/ /\ Current(c) /\ active /\ job = "processing" /\ ~session.elapsed
          /\ session' = [session EXCEPT !.status = "completed", !.version = @ + 1]
          /\ job' = "completed"
          /\ asset' = task[c].digest
          /\ Effect(Return(c), Goto(c, "resolve"))
       \/ /\ Current(c) /\ ~active
          /\ NoFault
          /\ task' = [task EXCEPT ![c].pc = "abortSession", ![c].op = "denied"]
          /\ UNCHANGED database
       \/ /\ ~Current(c) \/ (active /\ session.elapsed)
          /\ NoFault /\ Goto(c, "resolve") /\ UNCHANGED database
       \/ Fault /\ Goto(c, "resolve") /\ UNCHANGED database
    /\ UNCHANGED <<active, storage>>

\* (Mutants of Doomed: the object goes unless the session is completed; it
\* stays whatever has become of the session.)
DoomedUnlessCompleted == session.status # "completed"
DoomedNever == FALSE

Doomed == session.status = "aborted"

\* Without a commit the state of the session decides about the object; if it
\* cannot be read, the object stays.
Resolve(c) ==
    /\ At(c, "resolve")
    /\ \/ NoFault /\ IF Doomed THEN Goto(c, "deleteStored") ELSE Return(c)
       \/ Fault /\ Return(c)
    /\ UNCHANGED <<active, database, storage>>

-----------------------------------------------------------------------------
(* Surroundings. *)

ReviewEnds ==
    /\ active
    /\ active' = FALSE
    /\ UNCHANGED <<database, storage, task, faults>>

SessionElapses ==
    /\ session.status \in ActiveStates
    /\ ~session.elapsed
    /\ session' = [session EXCEPT !.elapsed = TRUE]
    /\ UNCHANGED <<active, job, asset, storage, task, faults>>

ClientDies(c) ==
    /\ ~At(c, "idle")
    /\ Fault
    /\ Return(c)
    /\ UNCHANGED <<active, database, storage>>

\* start_upload and start.
Start(c) ==
    \/ \E checksum \in BOOLEAN : Create(c, checksum)
    \/ StartRequest(c) \/ CreateMultipart(c) \/ AttachManifest(c)

\* upload_part.
UploadPart(c) ==
    \/ \E p \in Parts, d \in Data, v \in 1..session.version :
          PartRequest(c, p, d, v)
    \/ PutPart(c) \/ RecordPart(c)

\* finalize.
Finalize(c) ==
    \/ FinalizeRequest(c) \/ CompleteUpload(c)
    \/ Verify(c) \/ DeleteBroken(c)
    \/ Commit(c) \/ Resolve(c) \/ DeleteStored(c)

Next ==
    \/ \E c \in Clients :
          \/ Start(c) \/ UploadPart(c) \/ Finalize(c)
          \/ AbortSession(c) \/ AbortTransport(c)
          \/ ClientDies(c)
    \/ ReviewEnds
    \/ SessionElapses

Spec == Init /\ [][Next]_vars

-----------------------------------------------------------------------------
(* Properties. *)

\* What is called an audio asset is what the creator uploaded and declared:
\* a session awaits attestation only with its whole ledger, the object under
\* its key has the bytes of the ledger although parts of the same number race
\* in the storage, and the asset carries the checksum of those bytes.
TrueToTheLedger ==
    /\ session.status \in {"awaiting_attestation", "completed"} =>
          \A p \in Parts : session.parts[p] # NoData
    /\ \A h \in Handles : objects[h] # NoContent =>
          h = session.handle /\ objects[h] = session.parts
    /\ asset # NoContent =>
          asset = session.parts /\ (session.checksum => asset = Declared)

\* An upload ends once: a completed or aborted session is not touched again
\* by any late finalizer, late part or late compensation, and its job and its
\* asset stay what that end made them.
EndsOnce ==
    [][/\ session.status \in TerminalStates => UNCHANGED database
       /\ session'.status = "completed" <=> asset' # NoContent]_vars

\* The bytes of a session that awaits attestation or is completed are deleted
\* by nobody but a finalizer that failed to verify them.
ReferencedBytesAreKept ==
    [][\A h \in Handles :
          /\ h = session.handle
          /\ session.status \in {"awaiting_attestation", "completed"}
          /\ objects[h] # NoContent
          /\ objects'[h] = NoContent
          => \E c \in Clients : At(c, "deleteBroken") /\ task[c].handle = h]_vars

\* Whatever the order in which clients race, as long as no call fails and the
\* session has not outlived its expiry, a completed session has its bytes, and
\* when the clients are done with an aborted one no object and no open
\* multipart upload is left behind.
RacesSettle ==
    faults = 0 /\ ~session.elapsed =>
       /\ session.status = "completed" => objects[session.handle] # NoContent
       /\ session.status = "aborted" /\ (\A c \in Clients : At(c, "idle")) =>
             \A h \in Handles : objects[h] = NoContent /\ uploads[h].state # "open"

\* A completed session has its bytes, also when calls fail.
CompletedAudioHasBytes ==
    session.status = "completed" => objects[session.handle] # NoContent
=============================================================================
