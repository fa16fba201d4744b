----------------------- MODULE CreatorUpload_proofs -----------------------
(***************************************************************************)
(* Safety of a creator upload, for any clients, parts, contents, multipart *)
(* uploads and faults.                                                     *)
(***************************************************************************)
EXTENDS CreatorUpload, TLAPS

-----------------------------------------------------------------------------
(* The inductive invariant. *)

\* The job follows the session, and so does the asset, which has the checksum
\* of the recorded parts; past "initiated" a session has its multipart upload.
RowsAgree ==
    /\ session.status = "none" => job = "none"
    /\ session.status = "initiated" => job = "queued"
    /\ session.status \in {"uploading", "awaiting_attestation"} => job = "processing"
    /\ session.status = "completed" => job = "completed"
    /\ session.status = "aborted" => job = "blocked"
    /\ session.status \in {"none", "initiated"} => session.handle = NoHandle
    /\ session.status \in {"uploading", "awaiting_attestation", "completed"} =>
          session.handle \in Handles
    /\ session.status \in {"awaiting_attestation", "completed"} => Whole(session.parts)
    /\ asset # NoContent <=> session.status = "completed"
    /\ asset # NoContent =>
          asset = session.parts /\ (session.checksum => asset = Declared)

\* An object is the whole ledger of the session, under the session's key.
ObjectsAgree ==
    \A h \in Handles : objects[h] # NoContent =>
        h = session.handle /\ objects[h] = session.parts /\ Whole(session.parts)

\* What a finalizer has read stays true until it has committed, and who is to
\* remove the object of an aborted session finds it aborted.
Finalizing(c) ==
    /\ task[c].handle = session.handle /\ session.handle \in Handles
    /\ task[c].ledger = session.parts /\ Whole(session.parts)
    /\ session.status \in {"awaiting_attestation", "completed", "aborted"}

TaskAgrees(c) ==
    /\ task[c].pc = "attach" => task[c].handle \in Handles
    /\ task[c].pc \in {"put", "record"} => \E p \in Parts : task[c].ledger[p] # NoData
    /\ task[c].pc \in {"complete", "verify", "commit"} => Finalizing(c)
    /\ task[c].pc = "commit" =>
          task[c].digest = session.parts /\ (session.checksum => task[c].digest = Declared)
    /\ task[c].pc = "deleteStored" => session.status = "aborted"

IInv == TypeOK /\ RowsAgree /\ ObjectsAgree /\ \A c \in Clients : TaskAgrees(c)

\* Where a client is when nothing is asked of what it has read.
Quiet ==
    PC \ {"attach", "put", "record", "complete", "verify", "commit", "deleteStored"}

-----------------------------------------------------------------------------
(* Lemmas about the operators of the model. *)

\* A whole ledger is a content.
LEMMA WholeIsContent ==
  ASSUME NEW ledger \in Ledger, Whole(ledger)
  PROVE  ledger \in Content
  BY DEF Ledger, Whole, Content

\* The idle task and the empty ledger have their types.
LEMMA IdleType == Idle \in Task /\ EmptyLedger \in Ledger
  BY DEF Idle, Task, EmptyLedger, Ledger, PC, Ops

\* A client that uploads a part uploads one of the plan.
LEMMA PartOfType ==
  ASSUME TypeOK, NEW c \in Clients, \E p \in Parts : task[c].ledger[p] # NoData
  PROVE  PartOf(c) \in Parts /\ DataOf(c) \in Data
<1>1. PartOf(c) \in Parts /\ task[c].ledger[PartOf(c)] # NoData
  BY DEF PartOf
<1> QED
  BY <1>1 DEF TypeOK, Task, Ledger, DataOf

\* A client that goes on does nothing but go on.
LEMMA GotoType ==
  ASSUME TypeOK, NEW c \in Clients, NEW x \in PC, Goto(c, x)
  PROVE  /\ task' \in [Clients -> Task]
         /\ task'[c] = [task[c] EXCEPT !.pc = x]
         /\ task'[c].pc = x
         /\ \A d \in Clients : d # c => task'[d] = task[d]
<1>1. task[c] \in Task
  BY DEF TypeOK
<1>2. task' = [task EXCEPT ![c] = [task[c] EXCEPT !.pc = x]]
  BY DEF Goto
<1>3. [task[c] EXCEPT !.pc = x] \in Task /\ [task[c] EXCEPT !.pc = x].pc = x
  BY <1>1 DEF Task
<1> QED
  BY <1>2, <1>3 DEF TypeOK

\* A client that returns is idle.
LEMMA ReturnType ==
  ASSUME TypeOK, NEW c \in Clients, Return(c)
  PROVE  /\ task' \in [Clients -> Task]
         /\ task'[c].pc = "idle"
         /\ \A d \in Clients : d # c => task'[d] = task[d]
  BY IdleType DEF Return, TypeOK, Idle

-----------------------------------------------------------------------------
(* How the rows change. *)

\* The steps that touch the session, each with what it writes.
Creates(b) ==
    /\ session.status = "none"
    /\ session' = [session EXCEPT !.status = "initiated", !.checksum = b]
    /\ job' = "queued" /\ UNCHANGED asset
Attaches(c) ==
    /\ session.status = "initiated"
    /\ session' = [session EXCEPT !.status = "uploading", !.version = @ + 1,
                                  !.handle = task[c].handle]
    /\ job' = "processing" /\ UNCHANGED asset
Aborts ==
    /\ session.status \in ActiveStates
    /\ session' = [session EXCEPT !.status = "aborted", !.version = @ + 1]
    /\ job' = "blocked" /\ UNCHANGED asset
Records(c) ==
    /\ At(c, "record") /\ Recordable(c)
    /\ session' = Recorded(c)
    /\ UNCHANGED <<job, asset>>
Completes(c) ==
    /\ At(c, "commit")
    /\ session.status = "awaiting_attestation"
    /\ session' = [session EXCEPT !.status = "completed", !.version = @ + 1]
    /\ job' = "completed" /\ asset' = task[c].digest
Elapses ==
    /\ session.status \in ActiveStates
    /\ session' = [session EXCEPT !.elapsed = TRUE]
    /\ UNCHANGED <<job, asset>>
RowsStep ==
    \/ UNCHANGED database
    \/ \E b \in BOOLEAN : Creates(b)
    \/ \E c \in Clients : (At(c, "attach") /\ Attaches(c)) \/ Records(c) \/ Completes(c)
    \/ Aborts
    \/ Elapses

\* Every step changes the rows in one of these ways.
LEMMA RowsStepLemma == Next => RowsStep
<1> USE DEF database
<1>1. ASSUME NEW c \in Clients, NEW b \in BOOLEAN, Create(c, b) PROVE RowsStep
  BY <1>1 DEF Create, Creates, RowsStep
<1>2. ASSUME NEW c \in Clients, AttachManifest(c) PROVE RowsStep
  BY <1>2 DEF AttachManifest, Attachable, Attaches, RowsStep
<1>3. ASSUME NEW c \in Clients, AbortSession(c) PROVE RowsStep
  BY <1>3 DEF AbortSession, Abortable, Aborts, RowsStep
<1>4. ASSUME NEW c \in Clients, RecordPart(c) PROVE RowsStep
  BY <1>4 DEF RecordPart, Records, RowsStep
<1>5. ASSUME NEW c \in Clients, Commit(c) PROVE RowsStep
  BY <1>5 DEF Commit, Current, Completes, RowsStep
<1>6. ASSUME SessionElapses PROVE RowsStep
  BY <1>6 DEF SessionElapses, Elapses, RowsStep
<1>7. ASSUME NEW c \in Clients,
             \/ StartRequest(c) \/ CreateMultipart(c) \/ AbortTransport(c)
             \/ \E p \in Parts, d \in Data, v \in 1..session.version :
                   PartRequest(c, p, d, v)
             \/ PutPart(c) \/ FinalizeRequest(c) \/ CompleteUpload(c) \/ Verify(c)
             \/ DeleteBroken(c) \/ DeleteStored(c) \/ Resolve(c) \/ ClientDies(c)
      PROVE  RowsStep
  BY <1>7 DEF StartRequest, CreateMultipart, AbortTransport, PartRequest, PutPart,
     FinalizeRequest, CompleteUpload, Verify, DeleteBroken, DeleteStored, Remove,
     Resolve, ClientDies, RowsStep
<1>8. ASSUME ReviewEnds PROVE RowsStep
  BY <1>8 DEF ReviewEnds, RowsStep
<1> QED
  BY <1>1, <1>2, <1>3, <1>4, <1>5, <1>6, <1>7, <1>8 DEF Next, Start, UploadPart, Finalize

\* A whole ledger under its key, its checksum and what a finalizer has found of
\* the session stay.
LEMMA SessionStays ==
  ASSUME IInv, RowsStep, session.handle \in Handles, Whole(session.parts)
  PROVE  /\ session'.handle = session.handle
         /\ session'.parts = session.parts
         /\ session'.checksum = session.checksum
         /\ session.status \in {"awaiting_attestation", "completed", "aborted"} =>
               session'.status \in {"awaiting_attestation", "completed", "aborted"}
<1> DEFINE Stays ==
      /\ session'.handle = session.handle
      /\ session'.parts = session.parts
      /\ session'.checksum = session.checksum
      /\ session.status \in {"awaiting_attestation", "completed", "aborted"} =>
            session'.status \in {"awaiting_attestation", "completed", "aborted"}
<1>1. session \in Session /\ session.status \notin {"none", "initiated"}
  BY NullsAssumption DEF IInv, TypeOK, RowsAgree
<1>2. CASE UNCHANGED database
  BY <1>2 DEF database
<1>3. ASSUME NEW c \in Clients, Records(c) PROVE FALSE
  BY <1>3, PartOfType DEF Records, Recordable, At, IInv, TaskAgrees, Whole
<1>4. ASSUME NEW c \in Clients, Completes(c) PROVE Stays
  BY <1>1, <1>4 DEF Completes, Session
<1>5. CASE Aborts
  BY <1>1, <1>5 DEF Aborts, Session
<1>6. CASE Elapses
  BY <1>1, <1>6 DEF Elapses, Session
<1> QED
  BY <1>1, <1>2, <1>3, <1>4, <1>5, <1>6 DEF RowsStep, Creates, Attaches

\* What a session becomes in these steps is a session.
LEMMA NextVersion ==
  ASSUME NEW s \in Session, NEW st \in ActiveStates \cup TerminalStates
  PROVE  /\ [s EXCEPT !.status = st, !.version = s.version + 1] \in Session
         /\ \A h \in Handles :
               [s EXCEPT !.status = st, !.version = s.version + 1, !.handle = h] \in Session
         /\ \A l \in Ledger :
               [s EXCEPT !.parts = l, !.version = s.version + 1, !.status = st] \in Session
<1>1. PICK v \in Nat : v = s.version + 1
  BY DEF Session
<1>2. [s EXCEPT !.status = st, !.version = v] \in Session
  BY DEF Session
<1>3. ASSUME NEW h \in Handles
      PROVE  [s EXCEPT !.status = st, !.version = v, !.handle = h] \in Session
  BY DEF Session
<1>4. ASSUME NEW l \in Ledger
      PROVE  [s EXCEPT !.parts = l, !.version = v, !.status = st] \in Session
  BY DEF Session
<1> QED
  BY <1>1, <1>2, <1>3, <1>4

\* The rows keep their types.
LEMMA RowsType ==
  ASSUME IInv, RowsStep
  PROVE  /\ session' \in Session
         /\ job' \in {"none", "queued", "processing", "completed", "blocked"}
         /\ asset' \in Content \cup {NoContent}
<1> DEFINE Typed ==
      /\ session' \in Session
      /\ job' \in {"none", "queued", "processing", "completed", "blocked"}
      /\ asset' \in Content \cup {NoContent}
<1>1. /\ session \in Session
      /\ job \in {"none", "queued", "processing", "completed", "blocked"}
      /\ asset \in Content \cup {NoContent}
  BY DEF IInv, TypeOK
<1>2. CASE UNCHANGED database
  BY <1>1, <1>2 DEF database
<1>3. ASSUME NEW b \in BOOLEAN, Creates(b) PROVE Typed
  BY <1>1, <1>3 DEF Creates, Session, ActiveStates
<1>4. ASSUME NEW c \in Clients, At(c, "attach"), Attaches(c) PROVE Typed
  <2>1. task[c].handle \in Handles
    BY <1>4 DEF IInv, TaskAgrees, At
  <2> QED
    BY <1>1, <1>4, <2>1, NextVersion DEF Attaches, ActiveStates, Session
<1>5. ASSUME NEW c \in Clients, Records(c) PROVE Typed
  <2>1. PartOf(c) \in Parts /\ DataOf(c) \in Data
    BY <1>5, PartOfType DEF Records, At, IInv, TaskAgrees
  <2>2. [session.parts EXCEPT ![PartOf(c)] = DataOf(c)] \in Ledger
    BY <1>1, <2>1 DEF Session, Ledger
  <2>3. session' \in Session
    <3> DEFINE l == [session.parts EXCEPT ![PartOf(c)] = DataOf(c)]
               st == IF Whole(l) THEN "awaiting_attestation" ELSE "uploading"
    <3>1. session' = [session EXCEPT !.parts = l, !.version = session.version + 1,
                                     !.status = st]
      BY <1>5 DEF Records, Recorded
    <3>2. st \in ActiveStates \cup TerminalStates /\ l \in Ledger
      BY <2>2 DEF ActiveStates
    <3> HIDE DEF l, st
    <3> QED
      BY <1>1, <3>1, <3>2, NextVersion
  <2> QED
    BY <1>1, <1>5, <2>3 DEF Records
<1>6. ASSUME NEW c \in Clients, Completes(c) PROVE Typed
  <2>1. task[c].digest \in Content \cup {NoContent}
    BY DEF IInv, TypeOK, Task
  <2> QED
    <3>1. [session EXCEPT !.status = "completed", !.version = session.version + 1]
             \in Session
      BY <1>1, NextVersion DEF TerminalStates
    <3> QED
      BY <1>6, <2>1, <3>1 DEF Completes
<1>7. CASE Aborts
  <2>1. [session EXCEPT !.status = "aborted", !.version = session.version + 1]
           \in Session
    BY <1>1, NextVersion DEF TerminalStates
  <2> QED
    BY <1>1, <1>7, <2>1 DEF Aborts
<1>8. CASE Elapses
  BY <1>1, <1>8 DEF Elapses, Session
<1> QED
  BY <1>2, <1>3, <1>4, <1>5, <1>6, <1>7, <1>8 DEF RowsStep

\* The rows go on agreeing.
LEMMA RowsAgreeStep ==
  ASSUME IInv, RowsStep
  PROVE  RowsAgree'
<1>1. session \in Session /\ RowsAgree
  BY DEF IInv, TypeOK
<1>2. CASE UNCHANGED database
  BY <1>1, <1>2 DEF database, RowsAgree, Whole
<1>3. ASSUME NEW b \in BOOLEAN, Creates(b) PROVE RowsAgree'
  BY <1>1, <1>3 DEF Creates, Session, RowsAgree, Whole
<1>4. ASSUME NEW c \in Clients, At(c, "attach"), Attaches(c) PROVE RowsAgree'
  <2>1. task[c].handle \in Handles
    BY <1>4 DEF IInv, TaskAgrees, At
  <2> QED
    BY <1>1, <1>4, <2>1 DEF Attaches, Session, RowsAgree, Whole
<1>5. ASSUME NEW c \in Clients, Records(c) PROVE RowsAgree'
  <2>1. session.status = "uploading"
    BY <1>5 DEF Records, Recordable
  <2>2. /\ session'.parts = [session.parts EXCEPT ![PartOf(c)] = DataOf(c)]
        /\ session'.status = IF Whole(session'.parts)
                             THEN "awaiting_attestation" ELSE "uploading"
        /\ session'.handle = session.handle
    BY <1>1, <1>5 DEF Records, Recorded, Session, Whole
  <2> QED
    BY <1>1, <1>5, <2>1, <2>2 DEF Records, RowsAgree, Whole
<1>6. ASSUME NEW c \in Clients, Completes(c) PROVE RowsAgree'
  <2>1. /\ task[c].digest = session.parts
        /\ session.checksum => task[c].digest = Declared
        /\ session.handle \in Handles /\ Whole(session.parts)
    BY <1>6 DEF Completes, At, IInv, TaskAgrees, Finalizing
  <2>2. task[c].digest # NoContent
    BY <1>1, <2>1, WholeIsContent, NullsAssumption DEF Session
  <2>3. /\ session'.parts = session.parts /\ session'.checksum = session.checksum
        /\ session'.handle = session.handle /\ session'.status = "completed"
    BY <1>1, <1>6 DEF Completes, Session
  <2> QED
    BY <1>6, <2>1, <2>2, <2>3 DEF Completes, RowsAgree, Whole
<1>7. CASE Aborts
  BY <1>1, <1>7 DEF Aborts, Session, RowsAgree, ActiveStates, Whole
<1>8. CASE Elapses
  BY <1>1, <1>8 DEF Elapses, Session, RowsAgree, ActiveStates, Whole
<1> QED
  BY <1>2, <1>3, <1>4, <1>5, <1>6, <1>7, <1>8 DEF RowsStep

-----------------------------------------------------------------------------
(* How the storage changes. *)

\* An object is assembled from the ledger a finalizer has read, or removed.
Assembles(c) ==
    /\ At(c, "complete") /\ task[c].ledger # NoContent
    /\ objects' = [objects EXCEPT ![task[c].handle] = task[c].ledger]
    /\ UNCHANGED database
Removes(c) ==
    /\ At(c, "deleteBroken") \/ At(c, "deleteStored")
    /\ objects' = [objects EXCEPT ![task[c].handle] = NoContent]
StorageStep == UNCHANGED objects \/ \E c \in Clients : Assembles(c) \/ Removes(c)

\* Every step changes the objects in one of these ways.
LEMMA StorageStepLemma == Next => StorageStep
<1> USE DEF storage
<1>1. ASSUME NEW c \in Clients, CompleteUpload(c) PROVE StorageStep
  BY <1>1 DEF CompleteUpload, Assembled, Assembles, StorageStep
<1>2. ASSUME NEW c \in Clients, DeleteBroken(c) \/ DeleteStored(c) PROVE StorageStep
  BY <1>2 DEF DeleteBroken, DeleteStored, Remove, Removes, StorageStep
<1>3. ASSUME NEW c \in Clients,
             \/ \E b \in BOOLEAN : Create(c, b)
             \/ StartRequest(c) \/ CreateMultipart(c) \/ AttachManifest(c)
             \/ AbortSession(c) \/ AbortTransport(c)
             \/ \E p \in Parts, d \in Data, v \in 1..session.version :
                   PartRequest(c, p, d, v)
             \/ PutPart(c) \/ RecordPart(c) \/ FinalizeRequest(c) \/ Verify(c)
             \/ Commit(c) \/ Resolve(c) \/ ClientDies(c)
      PROVE  StorageStep
  BY <1>3 DEF Create, StartRequest, CreateMultipart, AttachManifest, AbortSession,
     AbortTransport, PartRequest, PutPart, RecordPart, FinalizeRequest, Verify,
     Commit, Resolve, ClientDies, StorageStep
<1>4. ASSUME ReviewEnds \/ SessionElapses PROVE StorageStep
  BY <1>4 DEF ReviewEnds, SessionElapses, StorageStep
<1> QED
  BY <1>1, <1>2, <1>3, <1>4 DEF Next, Start, UploadPart, Finalize

\* Objects keep their types and go on being the ledger of the session.
LEMMA ObjectsStep ==
  ASSUME IInv, RowsStep, StorageStep
  PROVE  objects' \in [Handles -> Content \cup {NoContent}] /\ ObjectsAgree'
<1>1. objects \in [Handles -> Content \cup {NoContent}] /\ session \in Session
  BY DEF IInv, TypeOK
<1>2. ASSUME NEW h \in Handles, objects[h] # NoContent
      PROVE  /\ h = session'.handle /\ objects[h] = session'.parts
             /\ Whole(session'.parts)
  BY <1>2, SessionStays DEF IInv, ObjectsAgree
<1>3. CASE UNCHANGED objects
  BY <1>1, <1>2, <1>3 DEF ObjectsAgree, Whole
<1>4. ASSUME NEW c \in Clients, Assembles(c)
      PROVE  objects' \in [Handles -> Content \cup {NoContent}] /\ ObjectsAgree'
  <2>1. /\ task[c].handle = session'.handle /\ task[c].ledger = session'.parts
        /\ Whole(session'.parts) /\ session'.parts \in Ledger
        /\ task[c].handle \in Handles
    BY <1>1, <1>4 DEF Assembles, database, At, IInv, TaskAgrees, Finalizing, Session
  <2>2. task[c].ledger \in Content
    BY <2>1, WholeIsContent
  <2>3. objects' = [objects EXCEPT ![task[c].handle] = task[c].ledger]
    BY <1>4 DEF Assembles
  <2>4. objects' \in [Handles -> Content \cup {NoContent}]
    BY <1>1, <2>2, <2>3
  <2>5. ASSUME NEW h \in Handles, objects'[h] # NoContent
        PROVE  h = session'.handle /\ objects'[h] = session'.parts
    BY <1>1, <1>2, <2>1, <2>3, <2>5
  <2> QED
    BY <2>1, <2>4, <2>5 DEF ObjectsAgree, Whole
<1>5. ASSUME NEW c \in Clients, Removes(c)
      PROVE  objects' \in [Handles -> Content \cup {NoContent}] /\ ObjectsAgree'
  <2>1. objects' \in [Handles -> Content \cup {NoContent}]
    BY <1>1, <1>5 DEF Removes
  <2>2. ASSUME NEW h \in Handles, objects'[h] # NoContent
        PROVE  /\ h = session'.handle /\ objects'[h] = session'.parts
               /\ Whole(session'.parts)
    BY <1>1, <1>2, <1>5, <2>2 DEF Removes
  <2> QED
    BY <2>1, <2>2 DEF ObjectsAgree, Whole
<1> QED
  BY <1>3, <1>4, <1>5 DEF StorageStep

\* The multipart uploads keep their types.
LEMMA UploadsType ==
  ASSUME IInv, Next
  PROVE  uploads' \in [Handles -> Upload]
<1> USE DEF storage
<1>1. uploads \in [Handles -> Upload]
  BY DEF IInv, TypeOK
<1>2. ASSUME NEW h, NEW st \in {"open", "closed"},
             uploads' = [uploads EXCEPT ![h].state = st]
      PROVE  uploads' \in [Handles -> Upload]
  BY <1>1, <1>2 DEF Upload
<1>3. ASSUME NEW c \in Clients, PutPart(c) PROVE uploads' \in [Handles -> Upload]
  <2>1. PartOf(c) \in Parts /\ DataOf(c) \in Data
    BY <1>3, PartOfType DEF PutPart, At, IInv, TaskAgrees
  <2>2. CASE UNCHANGED uploads
    BY <1>1, <2>2
  <2>3. CASE uploads' = [uploads EXCEPT ![task[c].handle].parts[PartOf(c)] = DataOf(c)]
    BY <1>1, <2>1, <2>3 DEF Upload, Ledger
  <2> QED
    BY <1>3, <2>2, <2>3 DEF PutPart
<1>4. ASSUME NEW c \in Clients,
             CreateMultipart(c) \/ AbortTransport(c) \/ CompleteUpload(c)
      PROVE  uploads' \in [Handles -> Upload]
  BY <1>1, <1>2, <1>4 DEF CreateMultipart, AbortTransport, CompleteUpload
<1>5. ASSUME NEW c \in Clients,
             \/ \E b \in BOOLEAN : Create(c, b)
             \/ StartRequest(c) \/ AttachManifest(c) \/ AbortSession(c)
             \/ \E p \in Parts, d \in Data, v \in 1..session.version :
                   PartRequest(c, p, d, v)
             \/ RecordPart(c) \/ FinalizeRequest(c) \/ Verify(c)
             \/ DeleteBroken(c) \/ DeleteStored(c)
             \/ Commit(c) \/ Resolve(c) \/ ClientDies(c)
      PROVE  UNCHANGED uploads
  BY <1>5 DEF Create, StartRequest, AttachManifest, AbortSession, PartRequest,
     RecordPart, FinalizeRequest, Verify, DeleteBroken, DeleteStored, Remove,
     Commit, Resolve, ClientDies
<1>6. ASSUME ReviewEnds \/ SessionElapses PROVE UNCHANGED uploads
  BY <1>6 DEF ReviewEnds, SessionElapses
<1> QED
  BY <1>1, <1>3, <1>4, <1>5, <1>6 DEF Next, Start, UploadPart, Finalize

-----------------------------------------------------------------------------
(* How the clients change. *)

\* One client moves, and what is asked of it holds where it arrives.
Moves(c) ==
    /\ task' \in [Clients -> Task]
    /\ \A d \in Clients : d # c => task'[d] = task[d]
    /\ TaskAgrees(c)'

\* What a client has read stays true while others move.
LEMMA Unmoved ==
  ASSUME IInv, RowsStep, NEW d \in Clients, task'[d] = task[d]
  PROVE  TaskAgrees(d)'
<1>1. TaskAgrees(d)
  BY DEF IInv
<1>2. ASSUME Finalizing(d) PROVE Finalizing(d)' /\ session'.checksum = session.checksum
                                  /\ session'.parts = session.parts
  BY <1>2, SessionStays DEF Finalizing, Whole
<1>3. session.status = "aborted" => session'.status = "aborted"
  BY DEF RowsStep, Creates, Attaches, Aborts, Records, Recordable, Completes, Elapses,
     ActiveStates, database, IInv, TypeOK, Session
<1> QED
  BY <1>1, <1>2, <1>3 DEF TaskAgrees

\* Nothing is asked of a quiet client.
LEMMA GotoQuiet ==
  ASSUME IInv, NEW c \in Clients, NEW x \in Quiet, Goto(c, x)
  PROVE  Moves(c)
<1>1. x \in PC /\ x \notin {"attach", "put", "record", "complete", "verify",
                             "commit", "deleteStored"}
  BY DEF Quiet
<1> QED
  BY <1>1, GotoType DEF IInv, Moves, TaskAgrees

\* Nothing is asked of an idle client.
LEMMA ReturnQuiet ==
  ASSUME IInv, NEW c \in Clients, Return(c)
  PROVE  Moves(c)
  BY ReturnType DEF IInv, Moves, TaskAgrees

\* A client that does not move has moved too.
LEMMA StayQuiet ==
  ASSUME IInv, RowsStep, NEW c \in Clients, UNCHANGED task
  PROVE  Moves(c)
  BY Unmoved DEF IInv, TypeOK, Moves

\* A client that takes up a new task.
LEMMA Takes ==
  ASSUME IInv, NEW c \in Clients, NEW r \in Task, task' = [task EXCEPT ![c] = r]
  PROVE  /\ task' \in [Clients -> Task]
         /\ task'[c] = r
         /\ \A d \in Clients : d # c => task'[d] = task[d]
  BY DEF IInv, TypeOK

\* A client that finalizes and goes on to verify has read what is still true.
LEMMA GotoVerify ==
  ASSUME IInv, NEW c \in Clients, At(c, "complete"), UNCHANGED database, Goto(c, "verify")
  PROVE  Moves(c)
<1>1. /\ task' \in [Clients -> Task]
      /\ task'[c] = [task[c] EXCEPT !.pc = "verify"] /\ task'[c].pc = "verify"
      /\ \A d \in Clients : d # c => task'[d] = task[d]
  BY GotoType DEF IInv, PC
<1>2. Finalizing(c) /\ task[c] \in Task
  BY DEF At, IInv, TaskAgrees, TypeOK
<1>3. task'[c].handle = task[c].handle /\ task'[c].ledger = task[c].ledger
  BY <1>1, <1>2 DEF Task
<1>4. Finalizing(c)'
  BY <1>2, <1>3 DEF Finalizing, Whole, database
<1> QED
  BY <1>1, <1>4 DEF Moves, TaskAgrees

\* A client that goes on to remove the object of an aborted session.
LEMMA GotoDelete ==
  ASSUME IInv, NEW c \in Clients, session'.status = "aborted", Goto(c, "deleteStored")
  PROVE  Moves(c)
<1>1. /\ task' \in [Clients -> Task] /\ task'[c].pc = "deleteStored"
      /\ \A d \in Clients : d # c => task'[d] = task[d]
  BY GotoType DEF IInv, PC
<1> QED
  BY <1>1 DEF Moves, TaskAgrees

\* Every step of a client moves that client.
LEMMA ClientMoves ==
  ASSUME IInv, RowsStep, NEW c \in Clients
  PROVE  /\ \A b \in BOOLEAN : Create(c, b) => Moves(c)
         /\ StartRequest(c) \/ CreateMultipart(c) \/ AttachManifest(c) => Moves(c)
         /\ AbortSession(c) \/ AbortTransport(c) => Moves(c)
         /\ \A p \in Parts, d \in Data, v \in 1..session.version :
               PartRequest(c, p, d, v) => Moves(c)
         /\ PutPart(c) \/ RecordPart(c) => Moves(c)
         /\ FinalizeRequest(c) \/ CompleteUpload(c) \/ Verify(c) => Moves(c)
         /\ DeleteBroken(c) \/ DeleteStored(c) => Moves(c)
         /\ Commit(c) \/ Resolve(c) \/ ClientDies(c) => Moves(c)
<1>1. /\ task \in [Clients -> Task] /\ task[c] \in Task
      /\ session \in Session /\ Idle \in Task /\ EmptyLedger \in Ledger
  BY IdleType DEF IInv, TypeOK
<1>2. /\ \A x \in Quiet : Goto(c, x) => Moves(c)
      /\ Return(c) => Moves(c)
      /\ UNCHANGED task => Moves(c)
  BY GotoQuiet, ReturnQuiet, StayQuiet
<1>3. {"createMultipart", "deleteBroken", "resolve", "abortSession",
       "abortTransport"} \subseteq Quiet
  BY DEF Quiet, PC
<1>4. ASSUME NEW b \in BOOLEAN, Create(c, b) PROVE Moves(c)
  <2>1. CASE task' = [task EXCEPT ![c].pc = "createMultipart", ![c].op = "create"]
    <3> DEFINE r == [task[c] EXCEPT !.pc = "createMultipart", !.op = "create"]
    <3>1. r \in Task /\ r.pc = "createMultipart"
      BY <1>1 DEF Task, PC, Ops
    <3>2. task' = [task EXCEPT ![c] = r]
      BY <1>1, <2>1
    <3> QED
      BY <3>1, <3>2, Takes DEF Moves, TaskAgrees
  <2> QED
    BY <1>2, <1>4, <2>1 DEF Create, Effect
<1>5. ASSUME StartRequest(c) PROVE Moves(c)
  <2> DEFINE r == [Idle EXCEPT !.pc = "createMultipart", !.op = "start"]
  <2>1. r \in Task /\ r.pc = "createMultipart"
    BY <1>1 DEF Idle, Task, PC, Ops
  <2> QED
    BY <1>5, <2>1, Takes DEF StartRequest, Moves, TaskAgrees
<1>6. ASSUME CreateMultipart(c) PROVE Moves(c)
  <2>1. StartFails(c) => Moves(c)
    BY <1>2, <1>3 DEF StartFails
  <2>2. ASSUME NEW h \in Handles, task' = [task EXCEPT ![c].pc = "attach", ![c].handle = h]
        PROVE  Moves(c)
    <3> DEFINE r == [task[c] EXCEPT !.pc = "attach", !.handle = h]
    <3>1. r \in Task /\ r.pc = "attach" /\ r.handle = h
      BY <1>1 DEF Task, PC
    <3>2. task' = [task EXCEPT ![c] = r]
      BY <1>1, <2>2
    <3> QED
      BY <3>1, <3>2, Takes DEF Moves, TaskAgrees
  <2> QED
    BY <1>6, <2>1, <2>2 DEF CreateMultipart, Effect
<1>7. ASSUME AttachManifest(c) PROVE Moves(c)
  BY <1>2, <1>3, <1>7 DEF AttachManifest, Effect
<1>8. ASSUME AbortSession(c) PROVE Moves(c)
  <2>1. AfterSessionAbort(c, FALSE) => Moves(c)
    BY <1>2, <1>3 DEF AfterSessionAbort
  <2>2. session'.status = "aborted" /\ AfterSessionAbort(c, TRUE) => Moves(c)
    BY <1>2, <1>3, GotoDelete DEF AfterSessionAbort
  <2>3. CASE session' = [session EXCEPT !.status = "aborted", !.version = @ + 1]
    <3>1. session'.status = "aborted"
      BY <1>1, <2>3 DEF Session
    <3>2. AfterSessionAbort(c, TRUE) \/ AfterSessionAbort(c, FALSE)
          \/ AfterSessionAbort(c, session.status = "aborted")
      BY <1>8 DEF AbortSession, Effect
    <3> QED
      BY <2>1, <2>2, <3>1, <3>2 DEF AfterSessionAbort
  <2>4. ASSUME UNCHANGED session, AfterSessionAbort(c, session.status = "aborted")
        PROVE  Moves(c)
    BY <1>2, <1>3, <2>4, GotoDelete DEF AfterSessionAbort
  <2> QED
    BY <1>8, <2>1, <2>3, <2>4 DEF AbortSession
<1>9. ASSUME AbortTransport(c) PROVE Moves(c)
  BY <1>2, <1>3, <1>9 DEF AbortTransport, Effect
<1>10. ASSUME NEW p \in Parts, NEW d \in Data, NEW v \in 1..session.version,
              PartRequest(c, p, d, v)
       PROVE  Moves(c)
  <2> DEFINE l == [EmptyLedger EXCEPT ![p] = d]
             r == [Idle EXCEPT !.pc = "put", !.op = "part", !.handle = session.handle,
                               !.version = v, !.ledger = l]
  <2>1. l \in Ledger /\ l[p] # NoData
    BY <1>1, NullsAssumption DEF Ledger
  <2>2. v \in Nat /\ session.handle \in Handles \cup {NoHandle}
    BY <1>1 DEF Session
  <2>3. r \in Task /\ r.pc = "put" /\ r.ledger = l
    BY <1>1, <2>1, <2>2 DEF Idle, Task, PC, Ops
  <2>4. task' = [task EXCEPT ![c] = r]
    BY <1>10 DEF PartRequest
  <2>5. /\ task' \in [Clients -> Task] /\ task'[c] = r
        /\ \A e \in Clients : e # c => task'[e] = task[e]
    BY <2>3, <2>4, Takes
  <2> HIDE DEF l, r
  <2> QED
    BY <2>1, <2>3, <2>5 DEF Moves, TaskAgrees
<1>11. ASSUME PutPart(c) PROVE Moves(c)
  <2>1. ASSUME Goto(c, "record") PROVE Moves(c)
    <3>1. /\ task' \in [Clients -> Task]
          /\ task'[c] = [task[c] EXCEPT !.pc = "record"] /\ task'[c].pc = "record"
          /\ \A d \in Clients : d # c => task'[d] = task[d]
      BY <2>1, GotoType DEF IInv, PC
    <3>2. \E p \in Parts : task[c].ledger[p] # NoData
      BY <1>11 DEF PutPart, At, IInv, TaskAgrees
    <3>3. task'[c].ledger = task[c].ledger
      BY <1>1, <3>1 DEF Task
    <3> QED
      BY <3>1, <3>2, <3>3 DEF Moves, TaskAgrees
  <2> QED
    BY <1>2, <1>11, <2>1 DEF PutPart, Effect
<1>12. ASSUME RecordPart(c) PROVE Moves(c)
  BY <1>2, <1>3, <1>12 DEF RecordPart, Effect
<1>13. ASSUME FinalizeRequest(c) PROVE Moves(c)
  <2> DEFINE r == [Idle EXCEPT !.pc = "complete", !.op = "finalize",
                               !.handle = session.handle,
                               !.version = session.version, !.ledger = session.parts]
  <2>1. /\ r \in Task /\ r.pc = "complete" /\ r.handle = session.handle
        /\ r.ledger = session.parts
    BY <1>1 DEF Idle, Task, PC, Ops, Session
  <2>2. task' = [task EXCEPT ![c] = r] /\ UNCHANGED session
    BY <1>13 DEF FinalizeRequest, database
  <2>3. /\ session.status = "awaiting_attestation" /\ Whole(session.parts)
        /\ session.handle \in Handles
    BY <1>13 DEF FinalizeRequest, IInv, RowsAgree
  <2>4. /\ task' \in [Clients -> Task] /\ task'[c] = r
        /\ \A e \in Clients : e # c => task'[e] = task[e]
    BY <2>1, <2>2, Takes
  <2> HIDE DEF r
  <2>5. Finalizing(c)'
    BY <2>1, <2>2, <2>3, <2>4 DEF Finalizing, Whole
  <2> QED
    BY <2>1, <2>4, <2>5 DEF Moves, TaskAgrees
<1>14. ASSUME CompleteUpload(c) PROVE Moves(c)
  BY <1>2, <1>3, <1>14, GotoVerify DEF CompleteUpload, Effect
<1>15. ASSUME Verify(c) PROVE Moves(c)
  <2> DEFINE object == objects[task[c].handle]
             r == [task[c] EXCEPT !.pc = "commit", !.digest = object]
  <2>1. ASSUME Acceptable(object), task' = [task EXCEPT ![c].pc = "commit",
                                                        ![c].digest = object]
        PROVE  Moves(c)
    <3>1. Finalizing(c) /\ UNCHANGED session
      BY <1>15 DEF Verify, At, IInv, TaskAgrees, database
    <3>2. object \in Content \cup {NoContent} /\ object = session.parts
      BY <2>1, <3>1 DEF Acceptable, Finalizing, IInv, TypeOK, ObjectsAgree
    <3>3. session.checksum => object = Declared
      BY <2>1 DEF Acceptable
    <3> HIDE DEF object
    <3>4. /\ r \in Task /\ r.pc = "commit" /\ r.handle = task[c].handle
          /\ r.ledger = task[c].ledger /\ r.digest = object
      BY <1>1, <3>2 DEF Task, PC
    <3>5. task' = [task EXCEPT ![c] = r]
      BY <1>1, <2>1
    <3>6. /\ task' \in [Clients -> Task] /\ task'[c] = r
          /\ \A e \in Clients : e # c => task'[e] = task[e]
      BY <3>4, <3>5, Takes
    <3> HIDE DEF r
    <3>7. Finalizing(c)'
      BY <3>1, <3>4, <3>6 DEF Finalizing, Whole
    <3> QED
      BY <3>1, <3>2, <3>3, <3>4, <3>6, <3>7 DEF Moves, TaskAgrees
  <2> QED
    BY <1>2, <1>3, <1>15, <2>1 DEF Verify
<1>16. ASSUME DeleteBroken(c) \/ DeleteStored(c) PROVE Moves(c)
  BY <1>2, <1>3, <1>16 DEF DeleteBroken, DeleteStored, Remove, Effect
<1>17. ASSUME Commit(c) PROVE Moves(c)
  <2>1. CASE task' = [task EXCEPT ![c].pc = "abortSession", ![c].op = "denied"]
    <3> DEFINE r == [task[c] EXCEPT !.pc = "abortSession", !.op = "denied"]
    <3>1. r \in Task /\ r.pc = "abortSession"
      BY <1>1 DEF Task, PC, Ops
    <3>2. task' = [task EXCEPT ![c] = r]
      BY <1>1, <2>1
    <3> QED
      BY <3>1, <3>2, Takes DEF Moves, TaskAgrees
  <2> QED
    BY <1>2, <1>3, <1>17, <2>1 DEF Commit, Effect
<1>18. ASSUME Resolve(c) PROVE Moves(c)
  BY <1>2, <1>18, GotoDelete DEF Resolve, Doomed, database
<1>19. ASSUME ClientDies(c) PROVE Moves(c)
  BY <1>2, <1>19 DEF ClientDies
<1> QED
  BY <1>4, <1>5, <1>6, <1>7, <1>8, <1>9, <1>10, <1>11, <1>12, <1>13, <1>14, <1>15,
     <1>16, <1>17, <1>18, <1>19

\* After every step the clients have their types and have read what is true.
LEMMA TasksStep ==
  ASSUME IInv, RowsStep, Next
  PROVE  task' \in [Clients -> Task] /\ \A d \in Clients : TaskAgrees(d)'
<1>1. ASSUME NEW c \in Clients, Moves(c)
      PROVE  task' \in [Clients -> Task] /\ \A d \in Clients : TaskAgrees(d)'
  BY <1>1, Unmoved DEF Moves
<1>2. ASSUME UNCHANGED task
      PROVE  task' \in [Clients -> Task] /\ \A d \in Clients : TaskAgrees(d)'
  BY <1>2, Unmoved DEF IInv, TypeOK
<1>3. ASSUME ReviewEnds \/ SessionElapses PROVE UNCHANGED task
  BY <1>3 DEF ReviewEnds, SessionElapses
<1> QED
  BY <1>1, <1>2, <1>3, ClientMoves DEF Next, Start, UploadPart, Finalize

-----------------------------------------------------------------------------
(* The theorems. *)

\* A call fails or it does not, and a review ends once.
LEMMA FaultStep == Next => (NoFault \/ Fault) /\ (active' = active \/ active' = FALSE)
<1>1. ASSUME NEW c \in Clients, \E b \in BOOLEAN : Create(c, b)
      PROVE  (NoFault \/ Fault) /\ UNCHANGED active
  BY <1>1 DEF Create, Effect
<1>2. ASSUME NEW c \in Clients,
             \/ StartRequest(c) \/ CreateMultipart(c) \/ AttachManifest(c)
             \/ AbortSession(c) \/ AbortTransport(c)
             \/ \E p \in Parts, d \in Data, v \in 1..session.version :
                   PartRequest(c, p, d, v)
             \/ PutPart(c) \/ RecordPart(c)
      PROVE  (NoFault \/ Fault) /\ UNCHANGED active
  BY <1>2 DEF StartRequest, CreateMultipart, AttachManifest, AbortSession,
     AbortTransport, PartRequest, PutPart, RecordPart, Effect, NoFault
<1>3. ASSUME NEW c \in Clients,
             \/ FinalizeRequest(c) \/ CompleteUpload(c) \/ Verify(c)
             \/ DeleteBroken(c) \/ DeleteStored(c)
             \/ Commit(c) \/ Resolve(c) \/ ClientDies(c)
      PROVE  (NoFault \/ Fault) /\ UNCHANGED active
  BY <1>3 DEF FinalizeRequest, CompleteUpload, Verify, DeleteBroken, DeleteStored,
     Remove, Commit, Resolve, ClientDies, Effect, NoFault
<1>4. ASSUME ReviewEnds \/ SessionElapses
      PROVE  NoFault /\ (active' = active \/ active' = FALSE)
  BY <1>4 DEF ReviewEnds, SessionElapses, NoFault
<1> QED
  BY <1>1, <1>2, <1>3, <1>4 DEF Next, Start, UploadPart, Finalize

\* The invariant holds of a session nobody has created.
LEMMA InvInit == Init => IInv
<1> SUFFICES ASSUME Init PROVE IInv
  OBVIOUS
<1>1. session \in Session
  BY IdleType DEF Init, Session
<1>2. Idle \in Task /\ EmptyLedger \in Ledger /\ 0 \in 0..MaxFaults /\ Idle.pc = "idle"
  BY IdleType, BoundAssumption DEF Idle
<1>3. TypeOK
  BY <1>1, <1>2 DEF Init, TypeOK, Upload
<1>4. RowsAgree /\ ObjectsAgree /\ \A c \in Clients : TaskAgrees(c)
  BY <1>2 DEF Init, RowsAgree, ObjectsAgree, TaskAgrees
<1> QED
  BY <1>3, <1>4 DEF IInv

\* The invariant is inductive.
LEMMA InvStep == IInv /\ [Next]_vars => IInv'
<1>1. ASSUME IInv, Next PROVE IInv'
  <2>1. RowsStep /\ StorageStep
    BY <1>1, RowsStepLemma, StorageStepLemma
  <2>2. active' \in BOOLEAN /\ faults' \in 0..MaxFaults
    <3>1. active \in BOOLEAN /\ faults \in 0..MaxFaults
      BY <1>1 DEF IInv, TypeOK
    <3>2. active' \in BOOLEAN
      BY <1>1, <3>1, FaultStep, Zenon
    <3>3. NoFault \/ Fault
      BY <1>1, FaultStep
    <3>4. faults' \in 0..MaxFaults
      BY <3>1, <3>3, BoundAssumption DEF Fault, NoFault
    <3> QED
      BY <3>2, <3>4
  <2>3. TypeOK'
    BY <1>1, <2>1, <2>2, RowsType, ObjectsStep, UploadsType, TasksStep DEF TypeOK
  <2> QED
    BY <1>1, <2>1, <2>3, RowsAgreeStep, ObjectsStep, TasksStep DEF IInv
<1>2. ASSUME IInv, UNCHANGED vars PROVE IInv'
  BY <1>2 DEF vars, database, storage, IInv, TypeOK, RowsAgree, ObjectsAgree,
     TaskAgrees, Finalizing, Whole
<1> QED
  BY <1>1, <1>2

\* The inductive invariant holds of every upload.
LEMMA Invariance == Spec => []IInv
  BY InvInit, InvStep, PTL DEF Spec

\* Every row, object and client has its type, for any numbers of them.
THEOREM TypeCorrect == Spec => []TypeOK
<1>1. IInv => TypeOK
  BY DEF IInv
<1> QED
  BY <1>1, Invariance, PTL

\* complete_creator_upload attests to the bytes of the ledger only: whatever
\* the clients race for, an asset has the checksum of the recorded parts and of
\* the declaration, and a stored object is those parts.
THEOREM TrueAsset == Spec => []TrueToTheLedger
<1>1. IInv => TrueToTheLedger
  BY DEF IInv, RowsAgree, ObjectsAgree, TrueToTheLedger, Whole
<1> QED
  BY <1>1, Invariance, PTL

\* Nobody deletes the object of a session that awaits attestation or is completed
\* but a finalizer that failed to verify it: the removal after a denied or lost
\* commit only meets aborted sessions, although it was decided on an earlier read.
THEOREM BytesKept == Spec => ReferencedBytesAreKept
<1> DEFINE Kept(h) ==
       /\ h = session.handle
       /\ session.status \in {"awaiting_attestation", "completed"}
       /\ objects[h] # NoContent
       /\ objects'[h] = NoContent
       => \E c \in Clients : At(c, "deleteBroken") /\ task[c].handle = h
<1>1. ASSUME IInv, Next, NEW h \in Handles PROVE Kept(h)
  <2>1. objects \in [Handles -> Content \cup {NoContent}]
    BY <1>1 DEF IInv, TypeOK
  <2>2. ASSUME NEW c \in Clients, Assembles(c) PROVE Kept(h)
    BY <2>1, <2>2 DEF Assembles
  <2>3. ASSUME NEW c \in Clients, Removes(c) PROVE Kept(h)
    BY <1>1, <2>1, <2>3 DEF Removes, At, IInv, TaskAgrees
  <2> QED
    BY <1>1, <2>2, <2>3, StorageStepLemma DEF StorageStep
<1>2. IInv /\ [Next]_vars => [\A h \in Handles : Kept(h)]_vars
  BY <1>1
<1>3. [][\A h \in Handles : Kept(h)]_vars => ReferencedBytesAreKept
  BY PTL DEF ReferencedBytesAreKept
<1> QED
  BY <1>2, <1>3, Invariance, PTL DEF Spec

\* A completed or aborted session is final, with its job and its asset: no late
\* part, finalizer or compensation writes to it again.
THEOREM Ends == Spec => EndsOnce
<1> DEFINE Once == /\ session.status \in TerminalStates => UNCHANGED database
                   /\ session'.status = "completed" <=> asset' # NoContent
<1>1. ASSUME IInv, IInv', Next PROVE Once
  <2>1. RowsStep
    BY <1>1, RowsStepLemma
  <2>2. session.status \in TerminalStates => UNCHANGED database
    BY <2>1 DEF RowsStep, Creates, Attaches, Aborts, Records, Recordable, Completes,
       Elapses, ActiveStates, TerminalStates
  <2> QED
    BY <1>1, <2>2 DEF IInv, RowsAgree
<1>2. IInv /\ IInv' /\ [Next]_vars => [Once]_vars
  BY <1>1
<1>3. [][Once]_vars => EndsOnce
  BY PTL DEF EndsOnce
<1> QED
  BY <1>2, <1>3, Invariance, PTL DEF Spec

-----------------------------------------------------------------------------
(* What races leave behind.                                                *)
(*                                                                         *)
(* As long as no call fails and the session lives, a session is created by *)
(* one client alone, and from then on whoever finds the session ended      *)
(* removes what the end has left.                                          *)

Calm == faults = 0 /\ ~session.elapsed

NotCreated ==
    /\ session.version = 0
    /\ \A c \in Clients : task[c] = Idle
    /\ \A h \in Handles : uploads[h].state = "unused"

\* One client creates the session, and no other has begun anything.
Creator(c) ==
    /\ task[c].op = "create" /\ task[c].version = session.version
    /\ \A d \in Clients \ {c} : task[d] = Idle
    /\ \/ /\ At(c, "createMultipart")
          /\ \A h \in Handles : uploads[h].state = "unused"
       \/ /\ At(c, "attach")
          /\ \A h \in Handles :
                uploads[h].state = IF h = task[c].handle THEN "open" ELSE "unused"

\* The recorded parts are not what was declared.
Bad == session.checksum /\ session.parts # Declared

Open == uploads[session.handle].state = "open"
Closed == uploads[session.handle].state = "closed"
Stored == objects[session.handle] # NoContent

\* A client that has found the upload closed, and sees to the object.
Tending == {"verify", "deleteBroken", "commit", "resolve", "deleteStored"}
Tends(c) == task[c].pc \in Tending \/ task[c].op = "denied"

PartPlaces == {"put", "record", "abortSession", "abortTransport"}
FinalizePlaces == {"complete", "abortSession", "abortTransport"} \cup Tending

\* Where the client of a call can be, and what it knows of the session there.
Calls(c) ==
    /\ task[c].handle = session.handle
    /\ \/ task[c].op = "part" /\ task[c].pc \in PartPlaces
       \/ /\ task[c].op = "finalize" /\ task[c].pc \in FinalizePlaces
          /\ session.status # "uploading"
          /\ session.status = "awaiting_attestation" => task[c].version = session.version
       \/ task[c].op = "denied" /\ task[c].pc \in {"abortSession", "deleteStored"}
          /\ session.status # "uploading"
    /\ task[c].pc \in {"resolve", "abortTransport"} => session.status \in TerminalStates
    /\ task[c].pc = "deleteBroken" => session.status = "aborted" \/ Bad
    /\ Tends(c) => Closed

\* Where the upload and the object are, and who is to remove them.
Kept ==
    /\ session.handle \in Handles
    /\ \A h \in Handles : uploads[h].state = "unused" <=> h # session.handle
    /\ session.status = "uploading" => Open /\ ~Stored
    /\ session.status = "awaiting_attestation" => Open \/ Stored \/ Bad
    /\ session.status = "completed" => Stored
    /\ session.status = "aborted" /\ Open => \E c \in Clients : At(c, "abortTransport")
    /\ session.status \in {"awaiting_attestation", "aborted"} /\ Stored =>
          \E c \in Clients : Tends(c)

Underway == Kept /\ \A c \in Clients : task[c] # Idle => Calls(c)

Tidy ==
    /\ session.status = "none" => NotCreated
    /\ session.status = "initiated" => \E c \in Clients : Creator(c)
    /\ session.status \notin {"none", "initiated"} => Underway

TidyInv == IInv /\ (Calm => Tidy)

\* No step mends a failed call or an elapsed session.
LEMMA CalmStep ==
  ASSUME IInv, Next, Calm'
  PROVE  Calm /\ ~Fault
<1>1. faults \in Nat /\ faults' = 0 /\ ~session'.elapsed
  BY BoundAssumption DEF IInv, TypeOK, Calm
<1>2. ~Fault
  BY <1>1 DEF Fault
<1>3. NoFault
  BY <1>2, FaultStep
<1>4. session.elapsed => session'.elapsed
  <2>1. session \in Session
    BY DEF IInv, TypeOK
  <2>2. RowsStep
    BY RowsStepLemma
  <2> QED
    BY <2>1, <2>2 DEF RowsStep, database, Creates, Attaches, Records, Recorded, Aborts,
       Completes, Elapses, Session
<1> QED
  BY <1>1, <1>2, <1>3, <1>4 DEF Calm, NoFault

\* The session has been created and has its multipart upload.
Begun == session.status \notin {"none", "initiated"}

\* A session that has begun keeps its upload, and its parts once it has all.
LEMMA BegunStays ==
  ASSUME IInv, RowsStep, Begun
  PROVE  /\ Begun' /\ session'.handle = session.handle
         /\ session'.checksum = session.checksum
         /\ session.status # "uploading" =>
               session'.status # "uploading" /\ session'.parts = session.parts
         /\ session.status # "uploading" /\ session'.status = "awaiting_attestation" =>
               session.status = "awaiting_attestation" /\ session'.version = session.version
         /\ session.status \in TerminalStates => session'.status = session.status
<1>1. session \in Session
  BY DEF IInv, TypeOK
<1>2. CASE UNCHANGED database
  BY <1>2 DEF database, Begun
<1>3. ASSUME NEW c \in Clients, Records(c)
      PROVE  /\ session.status = "uploading" /\ session'.handle = session.handle
             /\ session'.checksum = session.checksum
             /\ session'.status \in {"uploading", "awaiting_attestation"}
  BY <1>1, <1>3 DEF Records, Recordable, Recorded, Session
<1>4. ASSUME NEW c \in Clients, Completes(c)
      PROVE  /\ session.status = "awaiting_attestation"
             /\ session'.handle = session.handle /\ session'.parts = session.parts
             /\ session'.checksum = session.checksum /\ session'.status = "completed"
  BY <1>1, <1>4 DEF Completes, Session
<1>5. CASE Aborts
  <2>1. /\ session'.handle = session.handle /\ session'.parts = session.parts
        /\ session'.checksum = session.checksum /\ session'.status = "aborted"
        /\ session.status \in ActiveStates
    BY <1>1, <1>5 DEF Aborts, Session
  <2> QED
    BY <2>1 DEF Begun, ActiveStates, TerminalStates
<1>6. CASE Elapses
  <2>1. /\ session'.handle = session.handle /\ session'.parts = session.parts
        /\ session'.checksum = session.checksum /\ session'.status = session.status
        /\ session'.version = session.version
    BY <1>1, <1>6 DEF Elapses, Session
  <2> QED
    BY <2>1, <1>6 DEF Begun
<1> QED
  BY <1>2, <1>3, <1>4, <1>5, <1>6 DEF RowsStep, Creates, Attaches, Begun, TerminalStates

\* A client that goes on keeps its call.
LEMMA Goes ==
  ASSUME IInv, NEW c \in Clients, NEW x \in PC, Goto(c, x)
  PROVE  /\ task'[c].pc = x /\ task'[c].op = task[c].op
         /\ task'[c].handle = task[c].handle /\ task'[c].version = task[c].version
         /\ \A d \in Clients : d # c => task'[d] = task[d]
<1>1. task[c] \in Task
  BY DEF IInv, TypeOK
<1>2. task'[c] = [task[c] EXCEPT !.pc = x] /\ \A d \in Clients : d # c => task'[d] = task[d]
  BY GotoType DEF IInv
<1> QED
  BY <1>1, <1>2 DEF Task

\* A client that returns is idle, and no other moves.
LEMMA Leaves ==
  ASSUME IInv, NEW c \in Clients, Return(c)
  PROVE  task'[c] = Idle /\ \A d \in Clients : d # c => task'[d] = task[d]
  BY DEF Return, IInv, TypeOK

\* A client that is not idle is in a call.
LEMMA InCall ==
  ASSUME Underway, NEW c \in Clients, task[c].pc # "idle"
  PROVE  Calls(c)
  BY DEF Underway, Idle

\* What a client knows stays true while another one moves.
LEMMA UnderwayStep ==
  ASSUME IInv, Underway, RowsStep, Begun, NEW c \in Clients,
         \A d \in Clients : d # c => task'[d] = task[d],
         Closed => Closed',
         Kept', task'[c] = Idle \/ Calls(c)'
  PROVE  Underway'
<1>1. ASSUME NEW d \in Clients, d # c, task'[d] # Idle
      PROVE  Calls(d)'
  <2>1. Calls(d) /\ task'[d] = task[d]
    BY <1>1 DEF Underway
  <2>2. /\ task'[d].handle = session'.handle
        /\ task'[d].pc \in {"resolve", "abortTransport"} => session'.status \in TerminalStates
        /\ Tends(d)' => Closed'
    BY <2>1, BegunStays DEF Calls, Tends
  <2>3. CASE task[d].op = "part"
    <3>1. task[d].pc \in PartPlaces
      BY <2>1, <2>3 DEF Calls
    <3> QED
      BY <2>1, <2>2, <2>3, <3>1 DEF Calls, PartPlaces
  <2>4. CASE task[d].op # "part"
    <3>1. session.status # "uploading"
      BY <2>1, <2>4 DEF Calls
    <3>2. (session.status = "aborted" \/ Bad) => (session'.status = "aborted" \/ Bad')
      BY <3>1, BegunStays DEF Bad, TerminalStates
    <3> QED
      BY <2>1, <2>2, <2>4, <3>1, <3>2, BegunStays DEF Calls
  <2> QED
    BY <2>3, <2>4
<1> QED
  BY <1>1 DEF Underway

\* Nothing is left behind by a step that touches neither rows nor storage,
\* unless the client was to tidy up.
LEMMA KeptStays ==
  ASSUME Kept, UNCHANGED <<session, objects>>, NEW c \in Clients,
         \A h \in Handles : uploads'[h].state = uploads[h].state,
         \A d \in Clients : d # c => task'[d] = task[d],
         ~At(c, "abortTransport"),
         Tends(c) /\ session.status \in {"awaiting_attestation", "aborted"} /\ Stored =>
            Tends(c)'
  PROVE  Kept' /\ (Closed => Closed')
<1>1. /\ session' = session /\ objects' = objects /\ session.handle \in Handles
      /\ uploads'[session.handle].state = uploads[session.handle].state
  BY DEF Kept
<1>2. ASSUME NEW e \in Clients, At(e, "abortTransport") PROVE At(e, "abortTransport")'
  BY <1>2 DEF At
<1>3. ASSUME NEW e \in Clients, Tends(e),
             session.status \in {"awaiting_attestation", "aborted"}, Stored
      PROVE  Tends(e)'
  BY <1>3 DEF Tends
<1>4. /\ Open' <=> Open
      /\ Closed' <=> Closed
      /\ Stored' <=> Stored
      /\ Bad' <=> Bad
  BY <1>1 DEF Open, Closed, Stored, Bad
<1> QED
  BY <1>1, <1>2, <1>3, <1>4 DEF Kept

\* Calls that begin.
LEMMA TidyRequest ==
  ASSUME IInv, Underway, Begun, RowsStep, NEW c \in Clients,
         \/ FinalizeRequest(c)
         \/ \E p \in Parts, d \in Data, v \in 1..session.version : PartRequest(c, p, d, v)
  PROVE  Underway'
<1>1. At(c, "idle") /\ UNCHANGED <<session, objects, uploads>>
  BY DEF FinalizeRequest, PartRequest, database, storage
<1>2. ~Tends(c)
  BY <1>1 DEF At, Tends, Tending, Underway, Calls, PartPlaces, FinalizePlaces, Idle
<1>3. task \in [Clients -> Task] /\ Idle \in Task
  BY IdleType DEF IInv, TypeOK
<1>4. CASE FinalizeRequest(c)
  <2> DEFINE r == [Idle EXCEPT !.pc = "complete", !.op = "finalize",
                               !.handle = session.handle,
                               !.version = session.version, !.ledger = session.parts]
  <2>1. /\ r.pc = "complete" /\ r.op = "finalize" /\ r.handle = session.handle
        /\ r.version = session.version
    BY DEF Idle
  <2>2. task' = [task EXCEPT ![c] = r] /\ session.status = "awaiting_attestation"
    BY <1>4 DEF FinalizeRequest
  <2> HIDE DEF r
  <2>3. task'[c] = r /\ \A d \in Clients : d # c => task'[d] = task[d]
    BY <1>3, <2>2
  <2>4. Calls(c)'
    BY <1>1, <2>1, <2>2, <2>3 DEF Calls, FinalizePlaces, Tends, Tending
  <2>5. Kept' /\ (Closed => Closed')
    BY <1>1, <1>2, <2>3, KeptStays DEF At, Underway
  <2> QED
    BY <2>3, <2>4, <2>5, UnderwayStep
<1>5. ASSUME NEW p \in Parts, NEW d \in Data, NEW v \in 1..session.version,
             PartRequest(c, p, d, v)
      PROVE  Underway'
  <2> DEFINE r == [Idle EXCEPT !.pc = "put", !.op = "part", !.handle = session.handle,
                               !.version = v, !.ledger = [EmptyLedger EXCEPT ![p] = d]]
  <2>1. r.pc = "put" /\ r.op = "part" /\ r.handle = session.handle
    BY DEF Idle
  <2>2. task' = [task EXCEPT ![c] = r]
    BY <1>5 DEF PartRequest
  <2> HIDE DEF r
  <2>3. task'[c] = r /\ \A e \in Clients : e # c => task'[e] = task[e]
    BY <1>3, <2>2
  <2>4. Calls(c)'
    BY <1>1, <2>1, <2>3 DEF Calls, PartPlaces, Tends, Tending
  <2>5. Kept' /\ (Closed => Closed')
    BY <1>1, <1>2, <2>3, KeptStays DEF At, Underway
  <2> QED
    BY <2>3, <2>4, <2>5, UnderwayStep
<1> QED
  BY <1>4, <1>5

\* A client goes on in its call, or returns, and nothing else changes.
LEMMA TidyGoto ==
  ASSUME IInv, Underway, Begun, RowsStep, NEW c \in Clients,
         UNCHANGED <<session, objects>>,
         \A h \in Handles : uploads'[h].state = uploads[h].state,
         task[c].pc \notin {"idle", "abortTransport"}
  PROVE  /\ \A x \in PC : Goto(c, x) /\ Calls(c)' /\ (Tends(c) => Tends(c)') => Underway'
         /\ Return(c) /\ ~(Tends(c) /\ Stored
                          /\ session.status \in {"awaiting_attestation", "aborted"})
               => Underway'
<1>1. ASSUME NEW x \in PC, Goto(c, x), Calls(c)', Tends(c) => Tends(c)' PROVE Underway'
  <2>1. \A d \in Clients : d # c => task'[d] = task[d]
    BY <1>1, Goes
  <2>2. Kept' /\ (Closed => Closed')
    BY <1>1, <2>1, KeptStays DEF At, Underway
  <2> QED
    BY <1>1, <2>1, <2>2, UnderwayStep
<1>2. ASSUME Return(c), ~(Tends(c) /\ Stored
                          /\ session.status \in {"awaiting_attestation", "aborted"})
      PROVE  Underway'
  <2>1. task'[c] = Idle /\ \A d \in Clients : d # c => task'[d] = task[d]
    BY <1>2, Leaves
  <2>2. Kept' /\ (Closed => Closed')
    BY <1>2, <2>1, KeptStays DEF At, Underway
  <2> QED
    BY <2>1, <2>2, UnderwayStep
<1> QED
  BY <1>1, <1>2

\* A part that is stored or refused changes neither upload nor object.
LEMMA TidyPut ==
  ASSUME IInv, Underway, Begun, RowsStep, ~Fault, NEW c \in Clients, PutPart(c)
  PROVE  Underway'
<1>1. task[c].pc = "put" /\ Calls(c) /\ UNCHANGED <<session, objects>>
  BY InCall DEF PutPart, At, database
<1>2. task[c].op = "part" /\ task[c].handle = session.handle /\ ~Tends(c)
  BY <1>1 DEF Calls, FinalizePlaces, Tends, Tending
<1>3. \A h \in Handles : uploads'[h].state = uploads[h].state
  BY DEF PutPart, IInv, TypeOK, Upload
<1>4. ASSUME Goto(c, "record") PROVE Underway'
  <2>1. "record" \in PC
    BY DEF PC
  <2>2. Calls(c)'
    BY <1>1, <1>2, <1>4, <2>1, Goes DEF Calls, PartPlaces, Tends, Tending
  <2> QED
    BY <1>1, <1>2, <1>3, <1>4, <2>1, <2>2, TidyGoto
<1>5. ASSUME Return(c) PROVE Underway'
  BY <1>1, <1>2, <1>3, <1>5, TidyGoto
<1> QED
  BY <1>4, <1>5 DEF PutPart, Effect

\* While parts are recorded there is no object.
LEMMA TidyRecord ==
  ASSUME IInv, Underway, Begun, RowsStep, ~Fault, NEW c \in Clients, RecordPart(c)
  PROVE  Underway'
<1>1. task[c].pc = "record" /\ Calls(c) /\ UNCHANGED <<uploads, objects>>
  BY InCall DEF RecordPart, At, storage
<1>2. task[c].op = "part" /\ task[c].handle = session.handle /\ ~Tends(c)
  BY <1>1 DEF Calls, FinalizePlaces, Tends, Tending
<1>3. CASE Recordable(c) /\ session' = Recorded(c) /\ Return(c)
  <2>1. session.status = "uploading" /\ Open /\ ~Stored
    BY <1>3 DEF Recordable, Underway, Kept
  <2>2. /\ session'.status \in {"uploading", "awaiting_attestation"}
        /\ session'.handle = session.handle
    <3>1. session \in Session
      BY DEF IInv, TypeOK
    <3> QED
      BY <1>3, <3>1 DEF Recorded, Session
  <2>3. Open' /\ ~Stored' /\ (Closed => Closed')
    BY <1>1, <2>1, <2>2 DEF Open, Stored, Closed
  <2>4. Kept'
    BY <1>1, <2>2, <2>3 DEF Kept, Underway
  <2>5. task'[c] = Idle /\ \A d \in Clients : d # c => task'[d] = task[d]
    BY <1>3, Leaves
  <2> QED
    BY <2>3, <2>4, <2>5, UnderwayStep
<1>4. ASSUME UNCHANGED session, Return(c) PROVE Underway'
  BY <1>1, <1>2, <1>4, TidyGoto
<1>5. ASSUME UNCHANGED session, Goto(c, "abortSession") PROVE Underway'
  <2>1. "abortSession" \in PC
    BY DEF PC
  <2>2. Calls(c)'
    BY <1>1, <1>2, <1>5, <2>1, Goes DEF Calls, PartPlaces, Tends, Tending
  <2> QED
    BY <1>1, <1>2, <1>5, <2>1, <2>2, TidyGoto
<1> QED
  BY <1>3, <1>4, <1>5 DEF RecordPart, Effect

\* A finalizer has begun its call on a session that was whole.
LEMMA Finalizer ==
  ASSUME IInv, Underway, NEW c \in Clients, task[c].pc \in FinalizePlaces,
         task[c].op = "finalize"
  PROVE  /\ Calls(c) /\ task[c].handle = session.handle /\ session.handle \in Handles
         /\ session.status # "uploading"
         /\ session.status = "awaiting_attestation" => task[c].version = session.version
         /\ session.status \notin {"none", "initiated"} =>
               session.status \in {"awaiting_attestation", "completed", "aborted"}
<1>1. Calls(c)
  BY InCall DEF FinalizePlaces, Tending
<1>2. session.handle \in Handles
  BY DEF Underway, Kept
<1>3. session \in Session
  BY DEF IInv, TypeOK
<1> QED
  BY <1>1, <1>2, <1>3 DEF Calls, Session, ActiveStates, TerminalStates

\* The object is assembled by a client that goes on to see to it, or was before.
LEMMA TidyComplete ==
  ASSUME IInv, Underway, Begun, RowsStep, ~Fault, NEW c \in Clients, CompleteUpload(c)
  PROVE  Underway'
<1> DEFINE h == task[c].handle
           object == Assembled(h, task[c].ledger)
<1>1. task[c].pc = "complete" /\ Calls(c) /\ UNCHANGED session
  BY InCall DEF CompleteUpload, At, database
<1>2. task[c].op = "finalize" /\ ~Tends(c)
  BY <1>1 DEF Calls, PartPlaces, Tends, Tending
<1>3. /\ h = session.handle /\ h \in Handles /\ session.status # "uploading"
      /\ session.status = "awaiting_attestation" => task[c].version = session.version
      /\ uploads \in [Handles -> Upload] /\ objects \in [Handles -> Content \cup {NoContent}]
  BY <1>1, <1>2, Finalizer DEF FinalizePlaces, IInv, TypeOK
<1>4. "verify" \in PC /\ "abortSession" \in PC
  BY DEF PC
<1>5. CASE /\ uploads' = [uploads EXCEPT ![h].state = "closed"]
           /\ objects' = [objects EXCEPT ![h] = object]
           /\ object # NoContent /\ Goto(c, "verify")
  <2>1. /\ uploads'[h].state = "closed" /\ objects'[h] # NoContent
        /\ \A k \in Handles : k # h => uploads'[k] = uploads[k]
    BY <1>3, <1>5 DEF Upload
  <2>2. Stored' /\ Closed' /\ ~Open'
    BY <1>1, <1>3, <2>1 DEF Stored, Closed, Open
  <2>3. /\ task'[c].pc = "verify" /\ task'[c].op = "finalize" /\ task'[c].handle = h
        /\ task'[c].version = task[c].version
        /\ \A d \in Clients : d # c => task'[d] = task[d]
    BY <1>2, <1>4, <1>5, Goes
  <2>4. Tends(c)'
    BY <2>3 DEF Tends, Tending
  <2>5. \A k \in Handles : uploads'[k].state = "unused" <=> k # session'.handle
    BY <1>1, <1>3, <2>1 DEF Underway, Kept
  <2>6. Kept'
    BY <1>1, <1>3, <2>2, <2>4, <2>5 DEF Kept
  <2>7. Calls(c)'
    BY <1>1, <1>3, <2>2, <2>3 DEF Calls, FinalizePlaces, Tending
  <2> QED
    BY <2>2, <2>3, <2>6, <2>7, UnderwayStep
<1>6. CASE UNCHANGED storage /\ Goto(c, "abortSession")
  <2>1. Calls(c)'
    BY <1>1, <1>2, <1>3, <1>4, <1>6, Goes DEF Calls, FinalizePlaces, Tends, Tending
  <2> QED
    BY <1>1, <1>2, <1>4, <1>6, <2>1, TidyGoto DEF storage
<1>7. CASE UNCHANGED storage /\ Goto(c, "verify") /\ uploads[h].state # "open"
  <2>1. Closed /\ Closed'
    BY <1>1, <1>3, <1>7 DEF Underway, Kept, Closed, Upload, storage
  <2>2. Calls(c)'
    BY <1>1, <1>2, <1>3, <1>4, <1>7, <2>1, Goes DEF Calls, FinalizePlaces, Tends, Tending
  <2> QED
    BY <1>1, <1>2, <1>4, <1>7, <2>2, TidyGoto DEF storage
<1> HIDE DEF object
<1> QED
  BY <1>5, <1>6, <1>7 DEF CompleteUpload, Effect, object

\* A verification fails only if the session is aborted or its parts are not
\* what was declared.
LEMMA TidyVerify ==
  ASSUME IInv, Underway, Begun, RowsStep, ~Fault, NEW c \in Clients, Verify(c)
  PROVE  Underway'
<1> DEFINE object == objects[task[c].handle]
<1>1. /\ task[c].pc = "verify" /\ Calls(c)
      /\ session' = session /\ uploads' = uploads /\ objects' = objects
  BY InCall DEF Verify, At, database, storage
<1>2. task[c].op = "finalize" /\ Tends(c) /\ Closed
  BY <1>1 DEF Calls, PartPlaces, Tends, Tending
<1>3. /\ task[c].handle = session.handle /\ session.handle \in Handles
      /\ session.status \in {"awaiting_attestation", "completed", "aborted"}
      /\ session.status = "awaiting_attestation" => task[c].version = session.version
  BY <1>1, <1>2, Finalizer DEF FinalizePlaces, Tending, Begun
<1>4. Closed'
  BY <1>1, <1>2 DEF Closed
<1>5. CASE task' = [task EXCEPT ![c].pc = "commit", ![c].digest = object]
  <2>1. /\ task'[c].pc = "commit" /\ task'[c].op = "finalize"
        /\ task'[c].handle = task[c].handle /\ task'[c].version = task[c].version
        /\ \A d \in Clients : d # c => task'[d] = task[d]
    BY <1>2, <1>5 DEF IInv, TypeOK, Task
  <2>2. Calls(c)' /\ Tends(c)'
    BY <1>1, <1>3, <1>4, <2>1 DEF Calls, FinalizePlaces, Tends, Tending
  <2>3. Kept'
    BY <1>1, <2>1, <2>2, KeptStays DEF At, Underway
  <2> QED
    BY <1>4, <2>1, <2>2, <2>3, UnderwayStep
<1>6. CASE ~Acceptable(object) /\ Goto(c, "deleteBroken")
  <2>1. session.status = "aborted" \/ Bad
    <3>1. CASE Stored
      BY <1>3, <1>6, <3>1 DEF Acceptable, Stored, Bad, IInv, ObjectsAgree
    <3>2. CASE ~Stored
      BY <1>2, <1>3, <3>2 DEF Underway, Kept, Open, Closed
    <3> QED
      BY <3>1, <3>2
  <2>2. "deleteBroken" \in PC
    BY DEF PC
  <2>3. Bad => Bad'
    BY <1>1 DEF Bad
  <2>4. Calls(c)' /\ Tends(c)'
    BY <1>1, <1>2, <1>3, <1>4, <1>6, <2>1, <2>2, <2>3, Goes
    DEF Calls, FinalizePlaces, Tends, Tending
  <2> QED
    BY <1>1, <1>6, <2>2, <2>4, TidyGoto
<1> QED
  BY <1>5, <1>6 DEF Verify

\* The object is removed by a client that is to remove it.
LEMMA TidyRemove ==
  ASSUME IInv, Underway, Begun, RowsStep, ~Fault, NEW c \in Clients,
         DeleteBroken(c) \/ DeleteStored(c)
  PROVE  Underway'
<1> DEFINE h == session.handle
<1>1. /\ task[c].pc \in {"deleteBroken", "deleteStored"} /\ Calls(c)
      /\ UNCHANGED <<session, uploads>>
  BY InCall DEF DeleteBroken, DeleteStored, Remove, At, database
<1>2. task[c].handle = h /\ Closed /\ h \in Handles
  BY <1>1 DEF Calls, Tends, Tending, Underway, Kept
<1>3. objects' = [objects EXCEPT ![h] = NoContent]
  BY <1>2 DEF DeleteBroken, DeleteStored, Remove
<1>4. session.status = "aborted" \/ Bad
  BY <1>1 DEF Calls, IInv, TaskAgrees
<1>5. session.status \notin {"uploading", "completed"}
  BY <1>1, <1>4 DEF Calls, PartPlaces, IInv, RowsAgree, Bad
<1>6. Closed' /\ ~Open' /\ ~Stored' /\ (Bad => Bad')
  <2>1. objects'[h] = NoContent
    BY <1>2, <1>3 DEF IInv, TypeOK
  <2> QED
    BY <1>1, <1>2, <2>1 DEF Closed, Open, Stored, Bad
<1>7. Kept'
  BY <1>1, <1>4, <1>5, <1>6 DEF Kept, Underway
<1>8. CASE At(c, "deleteBroken") /\ Goto(c, "abortSession")
  <2>1. "abortSession" \in PC
    BY DEF PC
  <2>2. task[c].op = "finalize"
    BY <1>1, <1>8 DEF At, Calls, PartPlaces
  <2>3. /\ session.status # "uploading"
        /\ session.status = "awaiting_attestation" => task[c].version = session.version
    BY <1>1, <2>2 DEF Calls
  <2>4. /\ task'[c].pc = "abortSession" /\ task'[c].op = "finalize"
        /\ task'[c].handle = h /\ task'[c].version = task[c].version
        /\ \A d \in Clients : d # c => task'[d] = task[d]
    BY <1>2, <1>8, <2>1, <2>2, Goes
  <2>5. Calls(c)'
    BY <1>1, <2>3, <2>4 DEF Calls, FinalizePlaces, Tends, Tending
  <2> QED
    BY <1>6, <1>7, <2>4, <2>5, UnderwayStep
<1>9. CASE Return(c)
  BY <1>6, <1>7, <1>9, Leaves, UnderwayStep
<1> QED
  BY <1>8, <1>9 DEF DeleteBroken, DeleteStored, Remove, Effect

\* A commit that is made has its object; one that is refused finds the review
\* or the session ended.
LEMMA TidyCommit ==
  ASSUME IInv, Underway, Begun, RowsStep, ~Fault, ~session.elapsed,
         NEW c \in Clients, Commit(c)
  PROVE  Underway'
<1>1. task[c].pc = "commit" /\ Calls(c) /\ UNCHANGED <<uploads, objects>>
  BY InCall DEF Commit, At, storage
<1>2. task[c].op = "finalize" /\ Tends(c) /\ Closed
  BY <1>1 DEF Calls, PartPlaces, Tends, Tending
<1>3. /\ task[c].handle = session.handle /\ session.handle \in Handles
      /\ session.status \in {"awaiting_attestation", "completed", "aborted"}
      /\ session.status = "awaiting_attestation" => task[c].version = session.version
  BY <1>1, <1>2, Finalizer DEF FinalizePlaces, Tending, Begun
<1>4. CASE /\ Current(c) /\ Return(c)
           /\ session' = [session EXCEPT !.status = "completed", !.version = @ + 1]
  <2>1. session'.status = "completed" /\ session'.handle = session.handle
    BY <1>4 DEF IInv, TypeOK, Session
  <2>2. ~Bad
    BY <1>1 DEF IInv, TaskAgrees, Bad
  <2>3. Stored
    BY <1>2, <1>4, <2>2 DEF Current, Underway, Kept, Open, Closed
  <2>4. Stored' /\ Closed'
    BY <1>1, <1>2, <2>1, <2>3 DEF Stored, Closed
  <2>5. Kept'
    BY <1>1, <1>3, <2>1, <2>4 DEF Kept, Underway
  <2> QED
    BY <1>4, <2>4, <2>5, Leaves, UnderwayStep
<1>5. CASE /\ UNCHANGED session
           /\ task' = [task EXCEPT ![c].pc = "abortSession", ![c].op = "denied"]
  <2>1. /\ task'[c].pc = "abortSession" /\ task'[c].op = "denied"
        /\ task'[c].handle = task[c].handle
        /\ \A d \in Clients : d # c => task'[d] = task[d]
    BY <1>5 DEF IInv, TypeOK, Task
  <2>2. Closed'
    BY <1>1, <1>2, <1>5 DEF Closed
  <2>3. Calls(c)' /\ Tends(c)'
    BY <1>3, <1>5, <2>1, <2>2 DEF Calls, Tends
  <2>4. Kept'
    BY <1>1, <1>5, <2>1, <2>3, KeptStays DEF At, Underway
  <2> QED
    BY <2>1, <2>2, <2>3, <2>4, UnderwayStep
<1>6. CASE UNCHANGED session /\ ~Current(c) /\ Goto(c, "resolve")
  <2>1. session.status \in TerminalStates
    BY <1>3, <1>6 DEF Current, TerminalStates
  <2>2. "resolve" \in PC
    BY DEF PC
  <2>3. Closed'
    BY <1>1, <1>2, <1>6 DEF Closed
  <2>4. Calls(c)' /\ Tends(c)'
    BY <1>2, <1>3, <1>6, <2>1, <2>2, <2>3, Goes DEF Calls, FinalizePlaces, Tends, Tending
  <2> QED
    BY <1>1, <1>6, <2>2, <2>4, TidyGoto
<1> QED
  BY <1>4, <1>5, <1>6 DEF Commit, Effect, database

\* The session a refused commit finds has ended, and its object goes if it is
\* aborted.
LEMMA TidyResolve ==
  ASSUME IInv, Underway, Begun, RowsStep, ~Fault, NEW c \in Clients, Resolve(c)
  PROVE  Underway'
<1>1. /\ task[c].pc = "resolve" /\ Calls(c)
      /\ UNCHANGED <<session, uploads, objects>>
  BY InCall DEF Resolve, At, database, storage
<1>2. task[c].op = "finalize" /\ Tends(c) /\ Closed
  BY <1>1 DEF Calls, PartPlaces, Tends, Tending
<1>3. /\ task[c].handle = session.handle /\ session.status \in TerminalStates
      /\ session.status # "uploading"
  BY <1>1, <1>2 DEF Calls
<1>4. CASE Goto(c, "deleteStored")
  <2>1. "deleteStored" \in PC
    BY DEF PC
  <2>2. Closed'
    BY <1>1, <1>2 DEF Closed
  <2>3. Calls(c)' /\ Tends(c)'
    BY <1>1, <1>2, <1>3, <1>4, <2>1, <2>2, Goes
    DEF Calls, FinalizePlaces, Tends, Tending, TerminalStates
  <2> QED
    BY <1>1, <1>4, <2>1, <2>3, TidyGoto
<1>5. CASE session.status # "aborted" /\ Return(c)
  <2>1. session.status = "completed"
    BY <1>3, <1>5 DEF TerminalStates
  <2> QED
    BY <1>1, <1>5, <2>1, TidyGoto
<1> QED
  BY <1>4, <1>5 DEF Resolve, Doomed

\* Of a session that has ended nothing is left behind by a compensation.
LEMMA TidyAbortTransport ==
  ASSUME IInv, Underway, Begun, RowsStep, ~Fault, NEW c \in Clients, AbortTransport(c)
  PROVE  Underway'
<1> DEFINE h == session.handle
<1>1. task[c].pc = "abortTransport" /\ Calls(c) /\ UNCHANGED <<session, objects>>
  BY InCall DEF AbortTransport, At, database
<1>2. /\ task[c].handle = h /\ h \in Handles /\ ~Tends(c) /\ task[c].op # "create"
      /\ session.status \in TerminalStates
  BY <1>1 DEF Calls, Tends, Tending, Underway, Kept
<1>3. uploads' = [uploads EXCEPT ![h].state = "closed"] /\ Return(c)
  BY <1>2 DEF AbortTransport, Effect
<1>4. /\ uploads'[h].state = "closed"
      /\ \A k \in Handles : k # h => uploads'[k] = uploads[k]
  BY <1>2, <1>3 DEF IInv, TypeOK, Upload
<1>5. Closed' /\ ~Open' /\ (Stored' <=> Stored)
  BY <1>1, <1>4 DEF Closed, Open, Stored
<1>6. task'[c] = Idle /\ \A d \in Clients : d # c => task'[d] = task[d]
  BY <1>3, Leaves
<1>7. Stored /\ session.status = "aborted" => \E d \in Clients : Tends(d)'
  BY <1>2, <1>6 DEF Underway, Kept, Tends
<1>8. \A k \in Handles : uploads'[k].state = "unused" <=> k # session'.handle
  BY <1>1, <1>2, <1>4 DEF Underway, Kept
<1>9. Kept'
  BY <1>1, <1>2, <1>5, <1>7, <1>8 DEF Underway, Kept, TerminalStates
<1> QED
  BY <1>5, <1>6, <1>9, UnderwayStep

\* Who aborts the session goes on to its upload or its object.
LEMMA TidyAbortSession ==
  ASSUME IInv, Underway, Begun, RowsStep, ~Fault, NEW c \in Clients, AbortSession(c)
  PROVE  Underway'
<1>1. task[c].pc = "abortSession" /\ Calls(c) /\ UNCHANGED <<uploads, objects>>
  BY InCall DEF AbortSession, At, storage
<1>2. /\ task[c].handle = session.handle /\ session.handle \in Handles
      /\ task[c].op \in {"part", "finalize", "denied"}
      /\ task[c].op \in {"finalize", "denied"} => session.status # "uploading"
      /\ Tends(c) <=> task[c].op = "denied"
      /\ task[c].op = "denied" => Closed
  BY <1>1 DEF Calls, Tends, Tending, Underway, Kept
<1>3. "deleteStored" \in PC /\ "abortTransport" \in PC
  BY DEF PC
<1>4. CASE /\ session.status \in ActiveStates
           /\ session' = [session EXCEPT !.status = "aborted", !.version = @ + 1]
           /\ AfterSessionAbort(c, TRUE)
  <2>1. session'.status = "aborted" /\ session'.handle = session.handle
    BY <1>4 DEF IInv, TypeOK, Session
  <2>2. (Closed' <=> Closed) /\ (Open' <=> Open) /\ (Stored' <=> Stored)
    BY <1>1, <2>1 DEF Closed, Open, Stored
  <2>3. /\ task[c].op = "denied" => Goto(c, "deleteStored")
        /\ task[c].op # "denied" => Goto(c, "abortTransport")
    BY <1>2, <1>4 DEF AfterSessionAbort
  <2>4. /\ task'[c].pc = IF task[c].op = "denied" THEN "deleteStored" ELSE "abortTransport"
        /\ task'[c].op = task[c].op /\ task'[c].handle = task[c].handle
        /\ \A d \in Clients : d # c => task'[d] = task[d]
    BY <1>3, <2>3, Goes
  <2>5. Calls(c)' /\ (Tends(c) => Tends(c)')
    BY <1>2, <2>1, <2>2, <2>4
    DEF Calls, PartPlaces, FinalizePlaces, Tends, Tending, TerminalStates
  <2>6. Open => At(c, "abortTransport")'
    BY <1>2, <2>4 DEF Open, Closed, At
  <2>7. ASSUME Stored PROVE \E d \in Clients : Tends(d)'
    <3>1. session.status = "awaiting_attestation"
      BY <1>4, <2>7 DEF ActiveStates, Begun, Underway, Kept
    <3>2. PICK d \in Clients : Tends(d)
      BY <2>7, <3>1 DEF Underway, Kept
    <3> QED
      BY <2>4, <2>5, <3>2 DEF Tends
  <2>8. Kept'
    BY <1>1, <1>2, <2>1, <2>2, <2>6, <2>7 DEF Kept, Underway
  <2> QED
    BY <2>2, <2>4, <2>5, <2>8, UnderwayStep
<1>5. CASE ~Abortable /\ UNCHANGED session
           /\ AfterSessionAbort(c, session.status = "aborted")
  <2>1. session.status \in TerminalStates
    <3>1. session \in Session
      BY DEF IInv, TypeOK
    <3> QED
      BY <1>5, <3>1 DEF Abortable, IInv, RowsAgree, Begun, Session, ActiveStates,
         TerminalStates
  <2>2. (Closed' <=> Closed) /\ session.status # "uploading"
        /\ session.status # "awaiting_attestation"
    BY <1>1, <1>5, <2>1 DEF Closed, TerminalStates
  <2>3. CASE task[c].op = "denied" /\ Goto(c, "deleteStored")
    <3>1. Calls(c)' /\ Tends(c)'
      BY <1>2, <1>3, <1>5, <2>1, <2>2, <2>3, Goes
      DEF Calls, Tends, Tending
    <3> QED
      BY <1>1, <1>3, <1>5, <2>3, <3>1, TidyGoto
  <2>4. CASE task[c].op = "denied" /\ session.status # "aborted" /\ Return(c)
    BY <1>1, <1>5, <2>2, <2>4, TidyGoto
  <2>5. CASE task[c].op # "denied" /\ Goto(c, "abortTransport")
    <3>1. Calls(c)'
      BY <1>2, <1>3, <1>5, <2>1, <2>2, <2>5, Goes
      DEF Calls, PartPlaces, FinalizePlaces, Tends, Tending
    <3> QED
      BY <1>1, <1>2, <1>3, <1>5, <2>5, <3>1, TidyGoto
  <2> QED
    BY <1>2, <1>5, <2>3, <2>4, <2>5 DEF AfterSessionAbort
<1> QED
  BY <1>4, <1>5 DEF AbortSession, Abortable, Effect

\* After a step that touches none of it, all is as tidy as before.
LEMMA TidyStays ==
  ASSUME Tidy, UNCHANGED <<session, storage, task>>
  PROVE  Tidy'
<1>1. /\ NotCreated => NotCreated'
      /\ \A c \in Clients : Creator(c) => Creator(c)'
  BY DEF NotCreated, Creator, At, storage
<1>2. Kept => Kept'
  BY DEF Kept, Open, Stored, Bad, At, Tends, storage
<1>3. \A c \in Clients : Calls(c) => Calls(c)'
  BY DEF Calls, Bad, Closed, Tends, storage
<1> QED
  BY <1>1, <1>2, <1>3 DEF Tidy, Underway

\* No client moves that is idle before there is a session, but the creator.
LEMMA TidyCreate ==
  ASSUME IInv, Next, ~Fault, NotCreated, session.status = "none",
         ~UNCHANGED <<session, storage, task>>
  PROVE  session'.status = "initiated" /\ \E c \in Clients : Creator(c)'
<1>1. \A c \in Clients : task[c] = Idle /\ At(c, "idle")
  BY DEF NotCreated, At, Idle
<1>2. PICK c \in Clients, b \in BOOLEAN : Create(c, b)
  <2>1. ASSUME NEW c \in Clients, Start(c) PROVE \E b \in BOOLEAN : Create(c, b)
    BY <1>1, <2>1 DEF Start, StartRequest, CreateMultipart, AttachManifest, Known, At
  <2>2. ASSUME NEW c \in Clients, UploadPart(c) \/ Finalize(c) PROVE FALSE
    BY <1>1, <2>2 DEF UploadPart, PartRequest, PutPart, RecordPart, Finalize,
       FinalizeRequest, CompleteUpload, Verify, DeleteBroken, Commit, Resolve,
       DeleteStored, Known, At
  <2>3. ASSUME NEW c \in Clients, AbortSession(c) \/ AbortTransport(c) \/ ClientDies(c)
        PROVE  FALSE
    BY <1>1, <2>3 DEF AbortSession, AbortTransport, ClientDies, At
  <2>4. ~ReviewEnds /\ ~SessionElapses
    BY DEF ReviewEnds, SessionElapses, database, ActiveStates
  <2> QED
    BY <2>1, <2>2, <2>3, <2>4 DEF Next
<1>3. /\ session' = [session EXCEPT !.status = "initiated", !.checksum = b]
      /\ task' = [task EXCEPT ![c].pc = "createMultipart", ![c].op = "create"]
      /\ uploads' = uploads
  BY <1>2 DEF Create, Effect, storage
<1>4. session'.status = "initiated" /\ session'.version = 0
  BY <1>3 DEF NotCreated, IInv, TypeOK, Session
<1>5. /\ task'[c].pc = "createMultipart" /\ task'[c].op = "create"
      /\ task'[c].version = 0
      /\ \A d \in Clients : d # c => task'[d] = Idle
  BY <1>1, <1>3, IdleType DEF IInv, TypeOK, Task, Idle
<1>6. Creator(c)'
  BY <1>3, <1>4, <1>5 DEF Creator, NotCreated, At
<1> QED
  BY <1>4, <1>6

\* The creator is alone until its session has an upload.
LEMMA TidyAttach ==
  ASSUME IInv, Next, RowsStep, ~Fault, ~session.elapsed, ~session'.elapsed,
         NEW c \in Clients, Creator(c), session.status = "initiated",
         ~UNCHANGED <<session, storage, task>>
  PROVE  \/ session'.status = "initiated" /\ Creator(c)'
         \/ Begun' /\ Underway'
<1>1. /\ task[c].op = "create" /\ task[c].version = session.version
      /\ task[c].pc \in {"createMultipart", "attach"}
      /\ \A d \in Clients : d # c => task[d] = Idle /\ At(d, "idle")
      /\ session \in Session /\ uploads \in [Handles -> Upload]
      /\ task \in [Clients -> Task] /\ task[c] \in Task
  BY DEF Creator, At, Idle, IInv, TypeOK
<1>2. CreateMultipart(c) \/ AttachManifest(c)
  <2>1. ASSUME NEW d \in Clients, Start(d)
        PROVE  d = c /\ (CreateMultipart(d) \/ AttachManifest(d))
    BY <1>1, <2>1 DEF Start, Create, StartRequest, CreateMultipart, AttachManifest,
       Known, At
  <2>2. ASSUME NEW d \in Clients, UploadPart(d) \/ Finalize(d) PROVE FALSE
    BY <1>1, <2>2 DEF UploadPart, PartRequest, PutPart, RecordPart, Finalize,
       FinalizeRequest, CompleteUpload, Verify, DeleteBroken, Commit, Resolve,
       DeleteStored, Known, At
  <2>3. ASSUME NEW d \in Clients, AbortSession(d) \/ AbortTransport(d) \/ ClientDies(d)
        PROVE  FALSE
    BY <1>1, <2>3 DEF AbortSession, AbortTransport, ClientDies, At
  <2>4. ~ReviewEnds
    BY DEF ReviewEnds, database
  <2>5. ~SessionElapses
    BY <1>1 DEF SessionElapses, Session
  <2> QED
    BY <2>1, <2>2, <2>3, <2>4, <2>5 DEF Next
<1>3. CASE CreateMultipart(c)
  <2>1. PICK h \in Handles :
           /\ uploads' = [uploads EXCEPT ![h].state = "open"]
           /\ task' = [task EXCEPT ![c].pc = "attach", ![c].handle = h]
    BY <1>3 DEF CreateMultipart, Effect
  <2>2. session' = session /\ \A k \in Handles : uploads[k].state = "unused"
    BY <1>3 DEF CreateMultipart, database, Creator, At
  <2>3. /\ task'[c].pc = "attach" /\ task'[c].handle = h
        /\ task'[c].op = "create" /\ task'[c].version = task[c].version
        /\ \A d \in Clients : d # c => task'[d] = task[d]
    BY <1>1, <2>1 DEF Task
  <2>4. \A k \in Handles : uploads'[k].state = IF k = h THEN "open" ELSE "unused"
    BY <1>1, <2>1, <2>2 DEF Upload
  <2> QED
    BY <1>1, <2>2, <2>3, <2>4 DEF Creator, At
<1>4. CASE AttachManifest(c)
  <2> DEFINE h == task[c].handle
  <2>1. /\ At(c, "attach") /\ h \in Handles /\ UNCHANGED storage
        /\ \A k \in Handles : uploads[k].state = IF k = h THEN "open" ELSE "unused"
    BY <1>4 DEF AttachManifest, At, Creator, IInv, TaskAgrees
  <2>2. Attachable(c)
    BY <1>1 DEF Attachable, IInv, RowsAgree
  <2>3. /\ session' = [session EXCEPT !.status = "uploading", !.version = @ + 1,
                                      !.handle = h]
        /\ Return(c)
    BY <1>4, <2>2 DEF AttachManifest, Effect
  <2>4. session'.status = "uploading" /\ session'.handle = h
    BY <1>1, <2>3 DEF Session
  <2>5. objects[h] = NoContent
    BY <2>1, NullsAssumption DEF IInv, ObjectsAgree, RowsAgree
  <2>6. \A d \in Clients : task'[d] = Idle
    BY <1>1, <2>3, Leaves
  <2>7. Open' /\ ~Stored'
    BY <2>1, <2>4, <2>5 DEF Open, Stored, storage
  <2>8. Kept'
    BY <2>1, <2>4, <2>7 DEF Kept, storage
  <2> QED
    BY <2>4, <2>6, <2>8 DEF Begun, Underway
<1> QED
  BY <1>2, <1>3, <1>4

\* Every step of a session that has begun.
LEMMA TidyCall ==
  ASSUME IInv, Underway, Begun, RowsStep, Next, ~Fault, ~session.elapsed,
         ~session'.elapsed, ~UNCHANGED <<session, storage, task>>
  PROVE  Underway'
<1>1. ASSUME NEW c \in Clients, Start(c) PROVE FALSE
  BY <1>1, InCall DEF Start, Create, StartRequest, CreateMultipart, AttachManifest, At,
     Begun, Calls, PartPlaces, FinalizePlaces, Tending
<1>2. ASSUME NEW c \in Clients, UploadPart(c) PROVE Underway'
  BY <1>2, TidyRequest, TidyPut, TidyRecord DEF UploadPart
<1>3. ASSUME NEW c \in Clients, Finalize(c) PROVE Underway'
  BY <1>3, TidyRequest, TidyComplete, TidyVerify, TidyRemove, TidyCommit, TidyResolve
  DEF Finalize
<1>4. ASSUME NEW c \in Clients, AbortSession(c) \/ AbortTransport(c) PROVE Underway'
  BY <1>4, TidyAbortSession, TidyAbortTransport
<1>5. ASSUME NEW c \in Clients, ClientDies(c) PROVE FALSE
  BY <1>5 DEF ClientDies
<1>6. ~ReviewEnds
  BY DEF ReviewEnds, database
<1>7. ~SessionElapses
  BY DEF SessionElapses, IInv, TypeOK, Session
<1> QED
  BY <1>1, <1>2, <1>3, <1>4, <1>5, <1>6, <1>7 DEF Next

\* The invariant of what is left behind is inductive.
LEMMA TidyStep ==
  ASSUME TidyInv, [Next]_vars
  PROVE  TidyInv'
<1>1. IInv /\ IInv'
  BY InvStep DEF TidyInv
<1>2. CASE UNCHANGED vars
  <2>1. UNCHANGED <<session, storage, task>>
    BY <1>2 DEF vars, storage
  <2>2. Calm' => Calm
    BY <1>2 DEF vars, Calm
  <2> QED
    BY <1>1, <2>1, <2>2, TidyStays DEF TidyInv
<1>3. ASSUME Next, Calm' PROVE Tidy'
  <2>1. Calm /\ ~Fault /\ Tidy /\ RowsStep /\ ~session.elapsed /\ ~session'.elapsed
    BY <1>1, <1>3, CalmStep, RowsStepLemma DEF TidyInv, Calm
  <2>2. CASE UNCHANGED <<session, storage, task>>
    BY <2>1, <2>2, TidyStays
  <2>3. CASE ~UNCHANGED <<session, storage, task>> /\ session.status = "none"
    <3>1. NotCreated
      BY <2>1, <2>3 DEF Tidy
    <3> QED
      BY <1>1, <1>3, <2>1, <2>3, <3>1, TidyCreate DEF Tidy
  <2>4. CASE ~UNCHANGED <<session, storage, task>> /\ session.status = "initiated"
    <3>1. PICK c \in Clients : Creator(c)
      BY <2>1, <2>4 DEF Tidy
    <3>2. \/ session'.status = "initiated" /\ Creator(c)'
          \/ Begun' /\ Underway'
      BY <1>1, <1>3, <2>1, <2>4, <3>1, TidyAttach
    <3> QED
      BY <3>2 DEF Tidy, Begun
  <2>5. CASE ~UNCHANGED <<session, storage, task>> /\ Begun
    <3>1. Underway /\ Begun'
      BY <1>1, <2>1, <2>5, BegunStays DEF Tidy, Begun
    <3>2. Underway'
      BY <1>1, <1>3, <2>1, <2>5, <3>1, TidyCall
    <3> QED
      BY <3>1, <3>2 DEF Tidy, Begun
  <2> QED
    BY <2>2, <2>3, <2>4, <2>5 DEF Begun
<1> QED
  BY <1>1, <1>2, <1>3 DEF TidyInv

\* Nothing is there before anything has begun.
LEMMA TidyInit == Init => TidyInv
  BY InvInit DEF Init, TidyInv, Tidy, NotCreated

\* When everybody is idle, nobody is left who was to tidy up.
LEMMA TidySettles ==
  ASSUME IInv, Tidy
  PROVE  /\ session.status = "completed" => objects[session.handle] # NoContent
         /\ session.status = "aborted" /\ (\A c \in Clients : At(c, "idle")) =>
               \A h \in Handles : objects[h] = NoContent /\ uploads[h].state # "open"
<1>1. ASSUME session.status = "completed" PROVE objects[session.handle] # NoContent
  BY <1>1 DEF Tidy, Underway, Kept, Stored
<1>2. ASSUME session.status = "aborted", \A c \in Clients : At(c, "idle"),
             NEW h \in Handles
      PROVE  objects[h] = NoContent /\ uploads[h].state # "open"
  <2>1. Underway
    BY <1>2 DEF Tidy
  <2>2. ASSUME NEW c \in Clients PROVE ~At(c, "abortTransport") /\ ~Tends(c)
    BY <1>2, <2>1 DEF At, Tends, Tending, Underway, Calls, PartPlaces, FinalizePlaces, Idle
  <2>3. ~Open /\ ~Stored
    BY <1>2, <2>1, <2>2 DEF Underway, Kept
  <2>4. h # session.handle => uploads[h].state = "unused" /\ objects[h] = NoContent
    BY <2>1 DEF Underway, Kept, IInv, ObjectsAgree
  <2> QED
    BY <2>3, <2>4 DEF Open, Stored
<1> QED
  BY <1>1, <1>2

\* Whatever the order in which clients race: as long as no call fails and the
\* session lives, a completed session has its bytes, and of an aborted one no
\* object and no open upload is left when its clients are done (the
\* compensations of creator_upload_finalization.py and of the coordinator).
THEOREM NothingIsLeftBehind == Spec => []RacesSettle
<1>1. TidyInv => RacesSettle
  BY TidySettles DEF TidyInv, Calm, RacesSettle
<1>2. TidyInv /\ [Next]_vars => TidyInv'
  BY TidyStep
<1> QED
  BY <1>1, <1>2, TidyInit, PTL DEF Spec
=============================================================================
