-------------------------- MODULE SetReview_proofs --------------------------
(***************************************************************************)
(* Curation leaves merges alone, and what a set shows follows the          *)
(* decisions on it, for any sets, candidates and texts.                    *)
(***************************************************************************)
EXTENDS SetReview, MergeReview_proofs

-----------------------------------------------------------------------------
(* Curation as MergeReview sees it. *)

LEMMA CandidateFacts ==
  ASSUME NEW c \in FieldCandidates
  PROVE  /\ c.set \in Sets /\ Written(c) # NoValue
         /\ c \in EventCandidates => Column(c) \in Columns
         /\ c \in EventCandidates \/ c \in ArtistCandidates
         /\ Column(c) = "starts_on" /\ c \in EventCandidates => Written(c) \in Dates
         /\ c \in ArtistCandidates <=> c \notin EventCandidates
  <1>1. /\ c.set \in Sets
        /\ c.field \in {"event", "date", "year", "venue", "city", "artist"}
        /\ c.value # NoValue
    BY FieldCandidatesAssumption
  <1>2. c \in ArtistCandidates <=> c \notin EventCandidates
    BY DEF ArtistCandidates, EventCandidates
  <1>3. CASE c.field = "year"
    <2>1. c \in {d \in EventCandidates : d.field = "year"}
      BY <1>3 DEF EventCandidates
    <2>2. <<c.value, FirstDay>> \in
            {d.value : d \in {d \in EventCandidates : d.field = "year"}} \X {FirstDay}
      BY <2>1
    <2>3. Written(c) = <<c.value, FirstDay>> /\ Written(c) \in Dates
      BY <2>2, <1>3 DEF Written, Dates
    <2> QED BY <2>3, <1>1, <1>2, <1>3, DatesAssumption DEF Column, Columns
  <1>4. CASE c.field = "date"
    <2>1. c \in DateCandidates
      BY <1>4 DEF DateCandidates, EventCandidates
    <2>2. Written(c) = c.value /\ Written(c) \in Dates
      BY <2>1, <1>4 DEF Written, Dates
    <2> QED BY <2>2, <1>1, <1>2, <1>4 DEF Column, Columns
  <1>5. CASE c.field \notin {"year", "date"}
    <2>1. CASE c.field = "event"
      BY <2>1, <1>1, <1>2 DEF Column, Columns, Written
    <2>2. CASE c.field \in {"venue", "city"}
      BY <2>2, <1>1, <1>2 DEF Column, Columns, Written
    <2>3. CASE c.field = "artist"
      <3>1. c \notin EventCandidates
        BY <2>3 DEF EventCandidates
      <3>2. Written(c) # NoValue
        BY <1>1, <2>3 DEF Written
      <3> QED BY <2>3, <1>1, <1>2, <3>1, <3>2 DEF Column, Columns
    <2> QED BY <1>1, <1>5, <2>1, <2>2, <2>3
  <1> QED BY <1>3, <1>4, <1>5

\* A decision on a candidate is, for the merges, an editor's patch or nothing.
LEMMA LeaveInboxIsPatch ==
  ASSUME IInv, NEW s \in Sets, Imported(s), LeaveInbox(s)
  PROVE  [MergeNext]_vars
  <1>1. status \in [Sets -> ReviewStatus \cup {"none"}]
    BY DEF IInv, TypeOK
  <1>2. CASE status[s] = "inbox"
    <2>1. status' = [status EXCEPT ![s] = "reviewing"]
      BY <1>1, <1>2 DEF LeaveInbox
    <2>2. SetStatus(s, "reviewing")
      BY <2>1 DEF SetStatus, LeaveInbox, decisions, history
    <2> QED BY <2>2, InboxAssumption DEF MergeNext, Patch
  <1>3. CASE status[s] # "inbox"
    <2>1. status' = status
      BY <1>1, <1>3 DEF LeaveInbox
    <2> QED BY <2>1 DEF LeaveInbox, vars, decisions, history
  <1> QED BY <1>2, <1>3

LEMMA CurateIsMerge ==
  ASSUME IInv, Curate
  PROVE  [MergeNext]_vars
  <1>1. ASSUME NEW c \in FieldCandidates, Accept(c) \/ RejectCandidate(c)
        PROVE  [MergeNext]_vars
    <2>1. c.set \in Sets /\ Imported(c.set) /\ LeaveInbox(c.set)
      BY <1>1, CandidateFacts DEF Accept, RejectCandidate
    <2> QED BY <2>1, LeaveInboxIsPatch
  <1>2. ASSUME NEW e \in Typed, PatchText(e)
        PROVE  [MergeNext]_vars
    BY <1>2 DEF PatchText
  <1>3. ASSUME NEW e \in Years, PatchYear(e.set, e.year)
        PROVE  [MergeNext]_vars
    BY <1>3 DEF PatchYear
  <1> QED BY <1>1, <1>2, <1>3 DEF Curate

LEMMA NextIsMerge ==
  ASSUME IInv, [Next]_<<vars, curation>>
  PROVE  [MergeNext]_vars
  BY CurateIsMerge DEF Next

LEMMA InvarianceOfMerges == Spec => []IInv
  <1>1. Init => IInv
    BY InitIInv
  <1>2. IInv /\ [Next]_<<vars, curation>> => IInv'
    BY NextIsMerge, NextIInv
  <1> QED BY <1>1, <1>2, PTL DEF Spec

\* The curation of sets implements merge review: whatever editors do to the
\* fields of sets, the merges, the links and the suggestions run as if they
\* had patched review statuses only.
THEOREM CurationRefines == Spec => MergeSpec
  <1>1. IInv /\ [Next]_<<vars, curation>> => [MergeNext]_vars
    BY NextIsMerge
  <1> QED BY <1>1, InvarianceOfMerges, PTL DEF Spec, MergeSpec

-----------------------------------------------------------------------------
(* Curation itself. *)

\* What FieldsFollowDecisions says of a column and of the artists of a set.
ColumnFollows(s, col) ==
    /\ \A c, d \in AcceptedFor(s, col) : c = d
    /\ col \notin typed[s] =>
          /\ \A c \in AcceptedFor(s, col) : event[s][col] = Written(c)
          /\ AcceptedFor(s, col) = {} => event[s][col] = NoValue

ArtistsFollow(s) ==
    artists[s] = {c.value : c \in {d \in ArtistCandidates : d.set = s /\ accepted[d] = "true"}}

SetFollows(s) == ArtistsFollow(s) /\ \A col \in Columns : ColumnFollows(s, col)

LEMMA FollowsPerSet == FieldsFollowDecisions <=> \A s \in Sets : SetFollows(s)
  BY DEF FieldsFollowDecisions, SetFollows, ArtistsFollow, ColumnFollows

SaysSomething(s) == s \in linked <=> event[s] # NoEvent

CInv == IInv /\ CurationTypeOK /\ FieldsFollowDecisions /\ EventsSaySomething

LEMMA ImportsStay ==
  ASSUME IInv, [MergeNext]_vars, NEW s \in Sets, Imported(s)
  PROVE  Imported(s)'
  <1> USE DEF Imported
  <1>0. status \in [Sets -> ReviewStatus \cup {"none"}] /\ "none" \notin ReviewStatus
    BY DEF IInv, TypeOK, ReviewStatus
  <1>1. ASSUME NEW w \in Workers, Import(w) PROVE Imported(s)'
    BY <1>0, <1>1 DEF Import, Admit, Compare, Persist, List, Finish, Abandon, sets, history
  <1>2. ASSUME NEW p \in Pairs, Decide(p) PROVE Imported(s)'
    <2>1. CASE Approve(p)
      BY <1>0, <2>1 DEF Approve
    <2>2. CASE Reject(p)
      BY <2>2 DEF Reject, sets
    <2>3. CASE Restore(p)
      <3>1. before[p] \in BeforeState
        BY <2>3 DEF Restore, IInv, TypeOK
      <3>2. before[p].status # "none"
        BY <3>1, <1>0 DEF BeforeState
      <3> QED BY <1>0, <3>2, <2>3 DEF Restore
    <2> QED BY <1>2, <2>1, <2>2, <2>3 DEF Decide
  <1>3. ASSUME NEW t \in Sets, Patch(t) PROVE Imported(s)'
    BY <1>0, <1>3, PatchesAssumption DEF Patch, SetStatus
  <1> QED BY <1>1, <1>2, <1>3 DEF MergeNext, vars

\* A set none of whose curation changes goes on following its decisions.
LEMMA SameSet ==
  ASSUME NEW s \in Sets, SetFollows(s), SaysSomething(s),
         \A c \in FieldCandidates : c.set = s => accepted'[c] = accepted[c],
         event'[s] = event[s], typed'[s] = typed[s], artists'[s] = artists[s],
         s \in linked' <=> s \in linked
  PROVE  SetFollows(s)' /\ SaysSomething(s)'
  <1>1. EventCandidates \subseteq FieldCandidates /\ ArtistCandidates \subseteq FieldCandidates
    BY DEF EventCandidates, ArtistCandidates
  <1>2. \A col : AcceptedFor(s, col)' = AcceptedFor(s, col)
    BY <1>1 DEF AcceptedFor
  <1>3. {d \in ArtistCandidates : d.set = s /\ accepted[d] = "true"}'
          = {d \in ArtistCandidates : d.set = s /\ accepted[d] = "true"}
    BY <1>1
  <1>4. ArtistsFollow(s)'
    BY <1>3 DEF SetFollows, ArtistsFollow
  <1>5. \A col \in Columns : ColumnFollows(s, col)'
    BY <1>2 DEF SetFollows, ColumnFollows
  <1> QED BY <1>4, <1>5 DEF SetFollows, SaysSomething

LEMMA CurationInitInv ==
  ASSUME CurationInit
  PROVE  CurationTypeOK /\ FieldsFollowDecisions /\ EventsSaySomething
  <1> USE DEF CurationInit
  <1>1. CurationTypeOK
    BY DEF CurationTypeOK, NoEvent, Columns
  <1>2. EventsSaySomething
    BY DEF EventsSaySomething
  <1>3. EventCandidates \subseteq FieldCandidates /\ ArtistCandidates \subseteq FieldCandidates
    BY DEF EventCandidates, ArtistCandidates
  <1>4. \A s, col : AcceptedFor(s, col) = {}
    BY <1>3 DEF AcceptedFor
  <1>5. \A s : {d \in ArtistCandidates : d.set = s /\ accepted[d] = "true"} = {}
    BY <1>3
  <1>6. ASSUME NEW s \in Sets PROVE SetFollows(s)
    BY <1>4, <1>5 DEF SetFollows, ColumnFollows, ArtistsFollow, NoEvent
  <1> QED BY <1>1, <1>2, <1>6, FollowsPerSet

\* A value in a column is an event that says something.
LEMMA ValueIsEvent ==
  ASSUME NEW s, NEW col \in Columns, event[s][col] # NoValue
  PROVE  event[s] # NoEvent
  BY DEF NoEvent

\* What a write leaves.
LEMMA WriteFacts ==
  ASSUME CurationTypeOK, NEW s \in Sets, NEW col \in Columns, NEW value, Write(s, col, value)
  PROVE  /\ DOMAIN event' = Sets /\ DOMAIN event'[s] = Columns
         /\ event'[s][col] = value
         /\ \A k \in Columns \ {col} : event'[s][k] = event[s][k]
         /\ \A t \in Sets \ {s} : event'[t] = event[t]
         /\ linked' = linked \cup {s}
  BY DEF CurationTypeOK, Write

LEMMA ClearFacts ==
  ASSUME CurationTypeOK, NEW s \in Sets, NEW col \in Columns, Clear(s, col)
  PROVE  /\ DOMAIN event' = Sets /\ DOMAIN event'[s] = Columns
         /\ event'[s][col] = NoValue
         /\ \A k \in Columns \ {col} : event'[s][k] = event[s][k]
         /\ \A t \in Sets \ {s} : event'[t] = event[t]
         /\ linked' = IF event'[s] = NoEvent THEN linked \ {s} ELSE linked
  BY DEF CurationTypeOK, Clear

\* Merges do not touch the curation of a set.
LEMMA MergeStep ==
  ASSUME CInv, MergeNext, UNCHANGED curation
  PROVE  CurationTypeOK' /\ FieldsFollowDecisions' /\ EventsSaySomething'
  <1> USE DEF CInv, curation
  <1>1. \A s \in Sets : Imported(s) => Imported(s)'
    BY ImportsStay
  <1>2. CurationTypeOK'
    BY <1>1, FieldCandidatesAssumption DEF CurationTypeOK
  <1>3. ASSUME NEW s \in Sets PROVE SetFollows(s)' /\ SaysSomething(s)'
    <2>1. SetFollows(s) /\ SaysSomething(s)
      BY FollowsPerSet DEF EventsSaySomething, SaysSomething
    <2> QED BY <2>1, SameSet
  <1>4. FieldsFollowDecisions'
    BY <1>3 DEF FieldsFollowDecisions, SetFollows, ArtistsFollow, ColumnFollows
  <1>5. EventsSaySomething'
    BY <1>3 DEF EventsSaySomething, SaysSomething
  <1> QED BY <1>2, <1>4, <1>5

\* The rest of a set, when one candidate or column of it changes.
LEMMA OtherSets ==
  ASSUME CInv, NEW t \in Sets,
         \A c \in FieldCandidates : c.set # t => accepted'[c] = accepted[c],
         \A s \in Sets \ {t} : /\ event'[s] = event[s] /\ typed'[s] = typed[s]
                               /\ artists'[s] = artists[s]
                               /\ s \in linked' <=> s \in linked,
         SetFollows(t)' /\ SaysSomething(t)'
  PROVE  FieldsFollowDecisions' /\ EventsSaySomething'
  <1>1. ASSUME NEW s \in Sets PROVE SetFollows(s)' /\ SaysSomething(s)'
    <2>1. SetFollows(s) /\ SaysSomething(s)
      BY FollowsPerSet DEF CInv, EventsSaySomething, SaysSomething
    <2> QED BY <2>1, SameSet
  <1>2. FieldsFollowDecisions'
    BY <1>1 DEF FieldsFollowDecisions, SetFollows, ArtistsFollow, ColumnFollows
  <1> QED BY <1>1, <1>2 DEF EventsSaySomething, SaysSomething

\* The other columns of a set, when one of them changes.
LEMMA OtherColumn ==
  ASSUME NEW s \in Sets, NEW col \in Columns, ColumnFollows(s, col),
         \A c \in EventCandidates : c.set = s /\ Column(c) = col => accepted'[c] = accepted[c],
         event'[s][col] = event[s][col],
         col \in typed'[s] <=> col \in typed[s]
  PROVE  ColumnFollows(s, col)'
  <1>1. AcceptedFor(s, col)' = AcceptedFor(s, col)
    BY DEF AcceptedFor
  <1> QED BY <1>1 DEF ColumnFollows

\* The artists of a set, when none of them is decided on.
LEMMA SameArtists ==
  ASSUME NEW s \in Sets, ArtistsFollow(s), artists'[s] = artists[s],
         \A c \in ArtistCandidates : c.set = s => accepted'[c] = accepted[c]
  PROVE  ArtistsFollow(s)'
  <1>1. {d \in ArtistCandidates : d.set = s /\ accepted[d] = "true"}'
          = {d \in ArtistCandidates : d.set = s /\ accepted[d] = "true"}
    OBVIOUS
  <1> QED BY <1>1 DEF ArtistsFollow

\* Accepting an artist.
LEMMA AcceptArtist ==
  ASSUME CInv, NEW c \in ArtistCandidates, Accept(c)
  PROVE  CurationTypeOK' /\ FieldsFollowDecisions' /\ EventsSaySomething'
  <1> USE DEF CInv
  <1>1. /\ c \in FieldCandidates /\ c \notin EventCandidates /\ c.set \in Sets
        /\ Rivals(c) = {}
    BY CandidateFacts DEF ArtistCandidates, Rivals
  <1>2. /\ accepted' = [d \in FieldCandidates |-> IF d = c THEN "true" ELSE accepted[d]]
        /\ artists' = [artists EXCEPT ![c.set] = @ \cup {c.value}]
        /\ UNCHANGED <<linked, event, typed>>
    BY <1>1 DEF Accept
  <1>3. CurationTypeOK'
    <2>1. \A s \in Sets : Imported(s) => Imported(s)'
      BY <1>1, LeaveInboxIsPatch, ImportsStay DEF Accept
    <2>2. Imported(c.set)
      BY DEF Accept
    <2>3. c.value \in {d.value : d \in ArtistCandidates}
      OBVIOUS
    <2>4. artists' \in [Sets -> SUBSET {d.value : d \in ArtistCandidates}]
      BY <1>2, <2>3 DEF CurationTypeOK
    <2>5. accepted' \in [FieldCandidates -> {"null", "true", "false"}]
      BY <1>2 DEF CurationTypeOK
    <2>6. \A d \in FieldCandidates : accepted'[d] # "null" => Imported(d.set)'
      BY <1>2, <2>1, <2>2, FieldCandidatesAssumption DEF CurationTypeOK
    <2> QED BY <1>2, <2>1, <2>4, <2>5, <2>6 DEF CurationTypeOK
  <1>4. SetFollows(c.set)'
    <2>1. SetFollows(c.set)
      BY <1>1, FollowsPerSet
    <2>2. \A col \in Columns : ColumnFollows(c.set, col)'
      BY <1>1, <1>2, <2>1, OtherColumn DEF SetFollows, EventCandidates
    <2>3. {d \in ArtistCandidates : d.set = c.set /\ accepted[d] = "true"}'
            = {d \in ArtistCandidates : d.set = c.set /\ accepted[d] = "true"} \cup {c}
      BY <1>2 DEF ArtistCandidates
    <2>4. artists'[c.set] = artists[c.set] \cup {c.value}
      BY <1>1, <1>2 DEF CurationTypeOK
    <2>5. ArtistsFollow(c.set)'
      BY <2>1, <2>3, <2>4 DEF SetFollows, ArtistsFollow
    <2> QED BY <2>2, <2>5 DEF SetFollows
  <1>5. SaysSomething(c.set)'
    BY <1>1, <1>2 DEF EventsSaySomething, SaysSomething
  <1>6. \A d \in FieldCandidates : d.set # c.set => accepted'[d] = accepted[d]
    BY <1>2
  <1>7. \A s \in Sets \ {c.set} : artists'[s] = artists[s]
    BY <1>2 DEF CurationTypeOK
  <1> QED BY <1>1, <1>2, <1>3, <1>4, <1>5, <1>6, <1>7, OtherSets

\* Accepting a value for a column of the event: its rivals are out.
LEMMA AcceptValue ==
  ASSUME CInv, NEW c \in EventCandidates, Accept(c)
  PROVE  CurationTypeOK' /\ FieldsFollowDecisions' /\ EventsSaySomething'
  <1> USE DEF CInv
  <1>1. /\ c \in FieldCandidates /\ c \notin ArtistCandidates /\ c.set \in Sets
        /\ Column(c) \in Columns /\ Written(c) # NoValue
        /\ Column(c) = "starts_on" => Written(c) \in Dates
        /\ Rivals(c) = {d \in EventCandidates \ {c} : d.set = c.set /\ Column(d) = Column(c)}
    BY CandidateFacts DEF EventCandidates, Rivals
  <1>2. /\ Imported(c.set)
        /\ accepted' = [d \in FieldCandidates |->
             IF d = c THEN "true" ELSE IF d \in Rivals(c) THEN "false" ELSE accepted[d]]
        /\ Write(c.set, Column(c), Written(c))
        /\ typed' = [typed EXCEPT ![c.set] = @ \ {Column(c)}]
        /\ artists' = artists
    BY <1>1 DEF Accept
  <1>3. /\ DOMAIN event' = Sets /\ DOMAIN event'[c.set] = Columns
        /\ event'[c.set][Column(c)] = Written(c)
        /\ \A k \in Columns \ {Column(c)} : event'[c.set][k] = event[c.set][k]
        /\ \A t \in Sets \ {c.set} : event'[t] = event[t]
        /\ linked' = linked \cup {c.set}
    BY <1>1, <1>2, WriteFacts
  <1>4. /\ \A s \in Sets \ {c.set} : typed'[s] = typed[s]
        /\ typed'[c.set] = typed[c.set] \ {Column(c)}
    BY <1>1, <1>2 DEF CurationTypeOK
  <1>5. CurationTypeOK'
    <2>1. \A s \in Sets : Imported(s) => Imported(s)'
      BY <1>1, LeaveInboxIsPatch, ImportsStay DEF Accept
    <2>2. accepted' \in [FieldCandidates -> {"null", "true", "false"}]
      BY <1>2 DEF CurationTypeOK
    <2>3. \A d \in FieldCandidates : accepted'[d] # "null" => Imported(d.set)'
      BY <1>1, <1>2, <2>1, FieldCandidatesAssumption DEF CurationTypeOK
    <2>4. \A s \in Sets : /\ DOMAIN event'[s] = Columns
                          /\ event'[s]["starts_on"] \in Dates \cup {NoValue}
      BY <1>1, <1>3 DEF CurationTypeOK, Columns
    <2>5. typed' \in [Sets -> SUBSET Columns]
      BY <1>2 DEF CurationTypeOK
    <2> QED BY <1>1, <1>2, <1>3, <2>1, <2>2, <2>3, <2>4, <2>5 DEF CurationTypeOK
  <1>6. SetFollows(c.set)'
    <2>1. SetFollows(c.set)
      BY <1>1, FollowsPerSet
    <2>2. ASSUME NEW col \in Columns \ {Column(c)} PROVE ColumnFollows(c.set, col)'
      <3>1. \A d \in EventCandidates : Column(d) = col => accepted'[d] = accepted[d]
        BY <1>1, <1>2 DEF EventCandidates
      <3>2. col \in typed'[c.set] <=> col \in typed[c.set]
        BY <1>4
      <3> QED BY <1>1, <1>3, <2>1, <3>1, <3>2, OtherColumn DEF SetFollows
    <2>3. AcceptedFor(c.set, Column(c))' = {c}
      BY <1>1, <1>2 DEF AcceptedFor, EventCandidates
    <2>4. ColumnFollows(c.set, Column(c))'
      BY <1>3, <2>3 DEF ColumnFollows
    <2>5. ArtistsFollow(c.set)'
      <3>1. \A d \in ArtistCandidates : accepted'[d] = accepted[d]
        BY <1>1, <1>2 DEF ArtistCandidates
      <3> QED BY <1>1, <1>2, <2>1, <3>1, SameArtists DEF SetFollows
    <2> QED BY <2>2, <2>4, <2>5 DEF SetFollows
  <1>7. SaysSomething(c.set)'
    <2>1. event'[c.set] # NoEvent
      BY <1>1, <1>3 DEF NoEvent
    <2> QED BY <1>3, <2>1 DEF SaysSomething
  <1>8. \A d \in FieldCandidates : d.set # c.set => accepted'[d] = accepted[d]
    BY <1>1, <1>2
  <1>9. \A s \in Sets \ {c.set} : s \in linked' <=> s \in linked
    BY <1>3
  <1> QED BY <1>1, <1>2, <1>3, <1>4, <1>5, <1>6, <1>7, <1>8, <1>9, OtherSets

\* Rejecting: what a decision leaves of the accepted candidates.
LEMMA RejectFacts ==
  ASSUME CInv, NEW c \in FieldCandidates, RejectCandidate(c)
  PROVE  /\ c.set \in Sets
         /\ accepted' = [accepted EXCEPT ![c] = "false"]
         /\ accepted' \in [FieldCandidates -> {"null", "true", "false"}]
         /\ \A d \in FieldCandidates \ {c} : accepted'[d] = accepted[d]
         /\ accepted'[c] = "false"
         /\ \A d \in FieldCandidates : accepted'[d] # "null" => Imported(d.set)'
         /\ \A s \in Sets : Imported(s) => Imported(s)'
         /\ \A s, col : AcceptedFor(s, col)' = AcceptedFor(s, col) \ {c}
  <1>1. /\ c.set \in Sets /\ Imported(c.set) /\ LeaveInbox(c.set)
        /\ accepted' = [accepted EXCEPT ![c] = "false"]
    BY CandidateFacts DEF RejectCandidate
  <1>2. \A s \in Sets : Imported(s) => Imported(s)'
    BY <1>1, LeaveInboxIsPatch, ImportsStay DEF CInv
  <1>3. /\ accepted' \in [FieldCandidates -> {"null", "true", "false"}]
        /\ \A d \in FieldCandidates \ {c} : accepted'[d] = accepted[d]
        /\ accepted'[c] = "false"
    BY <1>1 DEF CInv, CurationTypeOK
  <1>4. \A d \in FieldCandidates : accepted'[d] # "null" => Imported(d.set)'
    BY <1>1, <1>2, <1>3, FieldCandidatesAssumption DEF CInv, CurationTypeOK
  <1>5. \A s, col : AcceptedFor(s, col)' = AcceptedFor(s, col) \ {c}
    BY <1>3 DEF AcceptedFor, EventCandidates
  <1> QED BY <1>1, <1>2, <1>3, <1>4, <1>5

\* A rejected candidate whose value its column no longer shows changes no
\* field: if it was accepted, an editor has typed over it.
LEMMA RejectNothing ==
  ASSUME CInv, NEW c \in FieldCandidates, RejectCandidate(c),
         accepted[c] # "true" \/ (c \in EventCandidates /\ ~Reversed(c)),
         UNCHANGED <<linked, event, artists, typed>>
  PROVE  CurationTypeOK' /\ FieldsFollowDecisions' /\ EventsSaySomething'
  <1> USE DEF CInv
  <1>1. CurationTypeOK'
    BY RejectFacts DEF CurationTypeOK
  <1>2. SetFollows(c.set)'
    <2>1. SetFollows(c.set)
      BY RejectFacts, FollowsPerSet
    <2>2. ASSUME NEW col \in Columns PROVE ColumnFollows(c.set, col)'
      <3>1. CASE c \notin AcceptedFor(c.set, col)
        <4>1. AcceptedFor(c.set, col)' = AcceptedFor(c.set, col)
          BY <3>1, RejectFacts
        <4> QED BY <2>1, <4>1 DEF SetFollows, ColumnFollows
      <3>2. CASE c \in AcceptedFor(c.set, col)
        <4>1. c \in EventCandidates /\ col = Column(c) /\ accepted[c] = "true"
          BY <3>2 DEF AcceptedFor
        <4>2. event[c.set][col] # Written(c)
          <5>1. \A d \in AcceptedFor(c.set, col) : d = c
            BY <2>1, <3>2 DEF SetFollows, ColumnFollows
          <5> QED BY <4>1, <5>1 DEF Reversed
        <4>3. col \in typed[c.set]
          BY <2>1, <3>2, <4>2 DEF SetFollows, ColumnFollows
        <4>4. AcceptedFor(c.set, col)' = {}
          BY <2>1, <3>2, RejectFacts DEF SetFollows, ColumnFollows
        <4> QED BY <4>3, <4>4 DEF ColumnFollows
      <3> QED BY <3>1, <3>2
    <2>3. ArtistsFollow(c.set)'
      <3>1. {d \in ArtistCandidates : d.set = c.set /\ accepted[d] = "true"}'
              = {d \in ArtistCandidates : d.set = c.set /\ accepted[d] = "true"}
        BY RejectFacts, CandidateFacts DEF ArtistCandidates
      <3> QED BY <2>1, <3>1 DEF SetFollows, ArtistsFollow
    <2> QED BY <2>2, <2>3 DEF SetFollows
  <1>3. SaysSomething(c.set)'
    BY RejectFacts DEF EventsSaySomething, SaysSomething
  <1>4. \A d \in FieldCandidates : d.set # c.set => accepted'[d] = accepted[d]
    BY RejectFacts
  <1> QED BY RejectFacts, <1>1, <1>2, <1>3, <1>4, OtherSets

\* The artist of a rejected candidate is no other accepted one.
LEMMA RejectArtist ==
  ASSUME CInv, NEW c \in ArtistCandidates, RejectCandidate(c), accepted[c] = "true",
         artists' = [artists EXCEPT ![c.set] = @ \ {c.value}],
         UNCHANGED <<linked, event, typed>>
  PROVE  CurationTypeOK' /\ FieldsFollowDecisions' /\ EventsSaySomething'
  <1> USE DEF CInv
  <1>1. c \in FieldCandidates /\ c \notin EventCandidates
    BY CandidateFacts DEF ArtistCandidates
  <1>2. CurationTypeOK'
    <2>1. artists' \in [Sets -> SUBSET {d.value : d \in ArtistCandidates}]
      BY DEF CurationTypeOK
    <2> QED BY <1>1, <2>1, RejectFacts DEF CurationTypeOK
  <1>3. SetFollows(c.set)'
    <2>1. SetFollows(c.set)
      BY <1>1, RejectFacts, FollowsPerSet
    <2>2. ASSUME NEW col \in Columns PROVE ColumnFollows(c.set, col)'
      <3>1. AcceptedFor(c.set, col)' = AcceptedFor(c.set, col)
        BY <1>1, RejectFacts DEF AcceptedFor
      <3> QED BY <2>1, <3>1 DEF SetFollows, ColumnFollows
    <2>3. {d \in ArtistCandidates : d.set = c.set /\ accepted[d] = "true"}'
            = {d \in ArtistCandidates : d.set = c.set /\ accepted[d] = "true"} \ {c}
      BY <1>1, RejectFacts DEF ArtistCandidates
    <2>4. artists'[c.set] = artists[c.set] \ {c.value}
      BY <1>1, RejectFacts DEF CurationTypeOK
    <2>5. \A d \in ArtistCandidates : d.set = c.set /\ d.value = c.value => d = c
      BY FieldCandidatesAssumption
    <2>6. ArtistsFollow(c.set)'
      BY <2>1, <2>3, <2>4, <2>5 DEF SetFollows, ArtistsFollow
    <2> QED BY <2>2, <2>6 DEF SetFollows
  <1>4. SaysSomething(c.set)'
    BY <1>1, RejectFacts DEF EventsSaySomething, SaysSomething
  <1>5. \A d \in FieldCandidates : d.set # c.set => accepted'[d] = accepted[d]
    BY <1>1, RejectFacts
  <1>6. \A s \in Sets \ {c.set} : artists'[s] = artists[s]
    BY DEF CurationTypeOK
  <1> QED BY <1>1, <1>2, <1>3, <1>4, <1>5, <1>6, RejectFacts, OtherSets

\* The column of a rejected candidate is cleared.
LEMMA RejectValue ==
  ASSUME CInv, NEW c \in EventCandidates, RejectCandidate(c), accepted[c] = "true",
         Reversed(c), Clear(c.set, Column(c)),
         typed' = [typed EXCEPT ![c.set] = @ \ {Column(c)}], artists' = artists
  PROVE  CurationTypeOK' /\ FieldsFollowDecisions' /\ EventsSaySomething'
  <1> USE DEF CInv
  <1>1. /\ c \in FieldCandidates /\ c \notin ArtistCandidates /\ c.set \in Sets
        /\ Column(c) \in Columns /\ Written(c) # NoValue
    BY CandidateFacts DEF EventCandidates
  <1>2. /\ DOMAIN event' = Sets /\ DOMAIN event'[c.set] = Columns
        /\ event'[c.set][Column(c)] = NoValue
        /\ \A k \in Columns \ {Column(c)} : event'[c.set][k] = event[c.set][k]
        /\ \A t \in Sets \ {c.set} : event'[t] = event[t]
        /\ linked' = IF event'[c.set] = NoEvent THEN linked \ {c.set} ELSE linked
    BY <1>1, ClearFacts
  <1>3. /\ \A s \in Sets \ {c.set} : typed'[s] = typed[s]
        /\ typed'[c.set] = typed[c.set] \ {Column(c)}
    BY <1>1 DEF CurationTypeOK
  <1>4. CurationTypeOK'
    <2>1. \A s \in Sets : /\ DOMAIN event'[s] = Columns
                          /\ event'[s]["starts_on"] \in Dates \cup {NoValue}
      BY <1>1, <1>2 DEF CurationTypeOK, Columns
    <2>2. typed' \in [Sets -> SUBSET Columns]
      BY DEF CurationTypeOK
    <2> QED BY <1>1, <1>2, <2>1, <2>2, RejectFacts DEF CurationTypeOK
  <1>5. SetFollows(c.set)'
    <2>1. SetFollows(c.set)
      BY <1>1, FollowsPerSet
    <2>2. ASSUME NEW col \in Columns \ {Column(c)} PROVE ColumnFollows(c.set, col)'
      <3>1. \A d \in EventCandidates : Column(d) = col => accepted'[d] = accepted[d]
        BY <1>1, RejectFacts DEF EventCandidates
      <3>2. col \in typed'[c.set] <=> col \in typed[c.set]
        BY <1>3
      <3> QED BY <1>1, <1>2, <2>1, <3>1, <3>2, OtherColumn DEF SetFollows
    <2>3. AcceptedFor(c.set, Column(c))' = {}
      <3>1. c \in AcceptedFor(c.set, Column(c))
        BY DEF AcceptedFor
      <3> QED BY <1>1, <2>1, <3>1, RejectFacts DEF SetFollows, ColumnFollows
    <2>4. ColumnFollows(c.set, Column(c))'
      BY <1>2, <2>3 DEF ColumnFollows
    <2>5. ArtistsFollow(c.set)'
      <3>1. \A d \in ArtistCandidates : accepted'[d] = accepted[d]
        BY <1>1, RejectFacts DEF ArtistCandidates
      <3> QED BY <1>1, <2>1, <3>1, SameArtists DEF SetFollows
    <2> QED BY <2>2, <2>4, <2>5 DEF SetFollows
  <1>6. SaysSomething(c.set)'
    <2>1. event[c.set][Column(c)] # NoValue
      BY <1>1 DEF Reversed
    <2>2. c.set \in linked
      BY <1>1, <2>1, ValueIsEvent DEF EventsSaySomething
    <2> QED BY <1>2, <2>2 DEF SaysSomething
  <1>7. \A d \in FieldCandidates : d.set # c.set => accepted'[d] = accepted[d]
    BY <1>1, RejectFacts
  <1>8. \A s \in Sets \ {c.set} : s \in linked' <=> s \in linked
    BY <1>2
  <1> QED BY <1>1, <1>2, <1>3, <1>4, <1>5, <1>6, <1>7, <1>8, OtherSets

\* A column an editor types.
LEMMA TypeStep ==
  ASSUME CInv, NEW s \in Sets, NEW col \in Columns, NEW value, value # NoValue,
         col = "starts_on" => value \in Dates,
         Imported(s), Write(s, col, value),
         typed' = [typed EXCEPT ![s] = @ \cup {col}],
         UNCHANGED <<vars, accepted, artists>>
  PROVE  CurationTypeOK' /\ FieldsFollowDecisions' /\ EventsSaySomething'
  <1> USE DEF CInv
  <1>1. /\ DOMAIN event' = Sets /\ DOMAIN event'[s] = Columns
        /\ event'[s][col] = value
        /\ \A k \in Columns \ {col} : event'[s][k] = event[s][k]
        /\ \A t \in Sets \ {s} : event'[t] = event[t]
        /\ linked' = linked \cup {s}
    BY WriteFacts
  <1>2. /\ \A t \in Sets \ {s} : typed'[t] = typed[t]
        /\ typed'[s] = typed[s] \cup {col}
    BY DEF CurationTypeOK
  <1>3. \A t \in Sets : Imported(t)' = Imported(t)
    BY DEF Imported, vars
  <1>4. CurationTypeOK'
    <2>1. \A t \in Sets : /\ DOMAIN event'[t] = Columns
                          /\ event'[t]["starts_on"] \in Dates \cup {NoValue}
      BY <1>1 DEF CurationTypeOK, Columns
    <2>2. typed' \in [Sets -> SUBSET Columns]
      BY DEF CurationTypeOK
    <2> QED BY <1>1, <1>3, <2>1, <2>2, FieldCandidatesAssumption DEF CurationTypeOK
  <1>5. SetFollows(s)'
    <2>1. SetFollows(s)
      BY FollowsPerSet
    <2>2. \A k \in Columns \ {col} : ColumnFollows(s, k)'
      BY <1>1, <1>2, <2>1, OtherColumn DEF SetFollows
    <2>3. AcceptedFor(s, col)' = AcceptedFor(s, col)
      BY DEF AcceptedFor
    <2>4. ColumnFollows(s, col)'
      BY <1>2, <2>1, <2>3 DEF SetFollows, ColumnFollows
    <2>5. ArtistsFollow(s)'
      BY <2>1, SameArtists DEF SetFollows
    <2> QED BY <2>2, <2>4, <2>5 DEF SetFollows
  <1>6. SaysSomething(s)'
    <2>1. event'[s] # NoEvent
      BY <1>1 DEF NoEvent
    <2> QED BY <1>1, <2>1 DEF SaysSomething
  <1>7. \A t \in Sets \ {s} : t \in linked' <=> t \in linked
    BY <1>1
  <1> QED BY <1>1, <1>2, <1>4, <1>5, <1>6, <1>7, OtherSets

\* The value that PatchYear writes is a date: the day is that of a date.
LEMMA YearIsDate ==
  ASSUME CInv, NEW e \in Years,
         NEW day, day = IF event[e.set]["starts_on"] = NoValue THEN FirstDay
                        ELSE event[e.set]["starts_on"][2]
  PROVE  <<e.year, day>> \in Dates
  <1>1. event[e.set]["starts_on"] \in Dates \cup {NoValue}
    BY TypedAssumption DEF CInv, CurationTypeOK
  <1>2. day \in Days
    <2>1. CASE event[e.set]["starts_on"] = NoValue
      BY <2>1 DEF Days
    <2>2. ASSUME NEW c \in DateCandidates, event[e.set]["starts_on"] = c.value,
                 c.value # NoValue
          PROVE  day \in Days
      BY <2>2 DEF Days
    <2>3. ASSUME NEW x, NEW y \in Days, event[e.set]["starts_on"] = <<x, y>>,
                 event[e.set]["starts_on"] # NoValue
          PROVE  day \in Days
      BY <2>3
    <2>4. CASE event[e.set]["starts_on"] # NoValue
      <3>1. event[e.set]["starts_on"] \in Dates
        BY <1>1, <2>4
      <3>2. \/ \E c \in DateCandidates : event[e.set]["starts_on"] = c.value
            \/ \E x \in {c.value : c \in {d \in EventCandidates : d.field = "year"}} :
                  event[e.set]["starts_on"] = <<x, FirstDay>>
            \/ \E x \in {f.year : f \in Years} : \E y \in Days :
                  event[e.set]["starts_on"] = <<x, y>>
        BY <3>1 DEF Dates
      <3>3. FirstDay \in Days
        BY DEF Days
      <3> QED BY <2>2, <2>3, <2>4, <3>2, <3>3
    <2> QED BY <2>1, <2>4
  <1>3. <<e.year, day>> \in {f.year : f \in Years} \X Days
    BY <1>2
  <1> QED BY <1>3 DEF Dates

LEMMA CurationStep ==
  ASSUME CInv, [Next]_<<vars, curation>>
  PROVE  CInv'
  <1> SUFFICES CurationTypeOK' /\ FieldsFollowDecisions' /\ EventsSaySomething'
    BY NextIsMerge, NextIInv DEF CInv
  <1>1. CASE MergeNext /\ UNCHANGED curation
    BY <1>1, MergeStep
  <1>2. ASSUME NEW c \in FieldCandidates, Accept(c)
        PROVE  CurationTypeOK' /\ FieldsFollowDecisions' /\ EventsSaySomething'
    BY <1>2, CandidateFacts, AcceptArtist, AcceptValue
  <1>3. ASSUME NEW c \in FieldCandidates, RejectCandidate(c)
        PROVE  CurationTypeOK' /\ FieldsFollowDecisions' /\ EventsSaySomething'
    <2>1. CASE /\ accepted[c] = "true" /\ Reversed(c) /\ Clear(c.set, Column(c))
               /\ typed' = [typed EXCEPT ![c.set] = @ \ {Column(c)}]
               /\ UNCHANGED artists
      BY <1>3, <2>1, RejectValue DEF Reversed
    <2>2. CASE /\ accepted[c] = "true" /\ c \in ArtistCandidates
               /\ artists' = [artists EXCEPT ![c.set] = @ \ {c.value}]
               /\ UNCHANGED <<linked, event, typed>>
      BY <1>3, <2>2, RejectArtist
    <2>3. CASE /\ accepted[c] # "true" \/ (c \in EventCandidates /\ ~Reversed(c))
               /\ UNCHANGED <<linked, event, artists, typed>>
      BY <1>3, <2>3, RejectNothing
    <2> QED BY <1>3, <2>1, <2>2, <2>3 DEF RejectCandidate
  <1>4. ASSUME NEW e \in Typed, PatchText(e)
        PROVE  CurationTypeOK' /\ FieldsFollowDecisions' /\ EventsSaySomething'
    BY <1>4, TypeStep, TypedAssumption DEF PatchText, Columns
  <1>5. ASSUME NEW e \in Years, PatchYear(e.set, e.year)
        PROVE  CurationTypeOK' /\ FieldsFollowDecisions' /\ EventsSaySomething'
    <2>1. ASSUME NEW day, day = IF event[e.set]["starts_on"] = NoValue THEN FirstDay
                                ELSE event[e.set]["starts_on"][2],
                 Write(e.set, "starts_on", <<e.year, day>>)
          PROVE  CurationTypeOK' /\ FieldsFollowDecisions' /\ EventsSaySomething'
      <3>1. <<e.year, day>> \in Dates /\ <<e.year, day>> # NoValue
        BY <2>1, YearIsDate, DatesAssumption
      <3>2. "starts_on" \in Columns /\ e.set \in Sets
        BY TypedAssumption DEF Columns
      <3> QED BY <1>5, <2>1, <3>1, <3>2, TypeStep DEF PatchYear
    <2> QED BY <1>5, <2>1 DEF PatchYear
  <1>6. CASE UNCHANGED <<vars, curation>>
    <2>1. ASSUME NEW s \in Sets PROVE SetFollows(s)' /\ SaysSomething(s)'
      BY <1>6, SameSet, FollowsPerSet DEF CInv, curation, EventsSaySomething, SaysSomething
    <2>2. FieldsFollowDecisions' /\ EventsSaySomething'
      BY <2>1 DEF FieldsFollowDecisions, SetFollows, ArtistsFollow, ColumnFollows,
                  EventsSaySomething, SaysSomething
    <2> QED BY <1>6, <2>2 DEF CInv, CurationTypeOK, curation, vars, Imported
  <1> QED BY <1>1, <1>2, <1>3, <1>4, <1>5, <1>6 DEF Next, Curate

LEMMA CurationInvariance == Spec => []CInv
  <1>1. Init /\ CurationInit => CInv
    BY InitIInv, CurationInitInv DEF CInv
  <1>2. CInv /\ [Next]_<<vars, curation>> => CInv'
    BY CurationStep
  <1> QED BY <1>1, <1>2, PTL DEF Spec

\* The columns of a set have their types, and only imported sets are curated.
THEOREM CurationTypes == Spec => []CurationTypeOK
  <1>1. CInv => CurationTypeOK
    BY DEF CInv
  <1> QED BY <1>1, CurationInvariance, PTL

\* The fields of a set show what has been decided on its candidates, whatever
\* the order of decisions and of what editors type in between.
THEOREM FieldsFollow == Spec => []FieldsFollowDecisions
  <1>1. CInv => FieldsFollowDecisions
    BY DEF CInv
  <1> QED BY <1>1, CurationInvariance, PTL

\* A set has an event exactly if some column of it has a value.
THEOREM EventsSay == Spec => []EventsSaySomething
  <1>1. CInv => EventsSaySomething
    BY DEF CInv
  <1> QED BY <1>1, CurationInvariance, PTL

\* No decision takes from an editor what it does not replace or reverse.
THEOREM TypedKept == Spec => TypedValuesAreKept
  <1> DEFINE Kept ==
        \A s \in Sets : \A col \in typed[s] :
          event'[s][col] # event[s][col] =>
              \/ col \in typed'[s]
              \/ event'[s][col] \in {Written(c) : c \in AcceptedFor(s, col)'}
              \/ event[s][col] \in {Written(c) : c \in AcceptedFor(s, col)}
  <1>1. CInv /\ [Next]_<<vars, curation>> => [Kept]_<<vars, curation>>
    <2> SUFFICES ASSUME CInv, Next, NEW s \in Sets, NEW col \in typed[s],
                        event'[s][col] # event[s][col]
                 PROVE  \/ col \in typed'[s]
                        \/ event'[s][col] \in {Written(c) : c \in AcceptedFor(s, col)'}
                        \/ event[s][col] \in {Written(c) : c \in AcceptedFor(s, col)}
      OBVIOUS
    <2>0. col \in Columns
      BY DEF CInv, CurationTypeOK
    <2>1. CASE MergeNext /\ UNCHANGED curation
      BY <2>1 DEF curation
    <2>2. ASSUME NEW c \in FieldCandidates, Accept(c)
          PROVE  event'[s][col] \in {Written(d) : d \in AcceptedFor(s, col)'}
      <3>1. c \in EventCandidates /\ Write(c.set, Column(c), Written(c))
        BY <2>2, CandidateFacts DEF Accept
      <3>2. c.set = s /\ Column(c) = col /\ event'[s][col] = Written(c)
        BY <2>0, <3>1, CandidateFacts, WriteFacts DEF CInv
      <3>3. c \in AcceptedFor(s, col)'
        BY <2>2, <3>1, <3>2 DEF Accept, AcceptedFor
      <3> QED BY <3>2, <3>3
    <2>3. ASSUME NEW c \in FieldCandidates, RejectCandidate(c)
          PROVE  event[s][col] \in {Written(d) : d \in AcceptedFor(s, col)}
      <3>1. accepted[c] = "true" /\ Reversed(c) /\ Clear(c.set, Column(c))
        BY <2>3 DEF RejectCandidate
      <3>2. c \in EventCandidates /\ event[c.set][Column(c)] = Written(c)
        BY <3>1 DEF Reversed
      <3>3. c.set = s /\ Column(c) = col
        BY <2>0, <3>1, <3>2, CandidateFacts, ClearFacts DEF CInv
      <3>4. c \in AcceptedFor(s, col)
        BY <3>1, <3>2, <3>3 DEF AcceptedFor
      <3> QED BY <3>2, <3>3, <3>4
    <2>4. ASSUME NEW e \in Typed, PatchText(e) PROVE col \in typed'[s]
      BY <2>4, TypedAssumption DEF PatchText, CInv, CurationTypeOK
    <2>5. ASSUME NEW e \in Years, PatchYear(e.set, e.year) PROVE col \in typed'[s]
      BY <2>5, TypedAssumption DEF PatchYear, CInv, CurationTypeOK
    <2> QED BY <2>1, <2>2, <2>3, <2>4, <2>5 DEF Next, Curate
  <1> QED BY <1>1, CurationInvariance, PTL DEF Spec, TypedValuesAreKept

=============================================================================
