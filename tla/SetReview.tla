----------------------------- MODULE SetReview -----------------------------
(***************************************************************************)
(* The curation of a set by its editors, beside the merges of MergeReview: *)
(* the candidates an import has extracted for the fields of a set, the     *)
(* decisions on them, and what these and the editors' own patches write    *)
(* to the event and to the artists of the set.                             *)
(*                                                                         *)
(* The enricher extracts at most one event, date, year, venue and city and *)
(* several artists, no two of one name.  A text stands for all texts that  *)
(* differ in case only.  Every operation locks the row of the set first    *)
(* and is one step.                                                        *)
(***************************************************************************)
EXTENDS MergeReview

CONSTANTS
    FieldCandidates,  \* rows of field_candidates: [set, field, value]
    Typed,            \* texts editors type: [set, column, text]
    Years,            \* years editors type: [set, year]
    LeapYears,
    FirstDay,         \* 1 January
    LeapDay,          \* 29 February
    NoValue

Columns == {"name", "venue", "city", "starts_on"}

\* The column of the event a candidate is about.
Column(c) == CASE c.field = "event" -> "name"
               [] c.field \in {"date", "year"} -> "starts_on"
               [] OTHER -> c.field

\* What an accepted candidate writes: a year is its first day.
Written(c) == IF c.field = "year" THEN <<c.value, FirstDay>> ELSE c.value

EventCandidates == {c \in FieldCandidates : c.field # "artist"}
ArtistCandidates == FieldCandidates \ EventCandidates

\* What starts_on can be: extracted or typed.
DateCandidates == {c \in EventCandidates : c.field = "date"}
Days == {FirstDay} \cup {c.value[2] : c \in DateCandidates}
Dates == {c.value : c \in DateCandidates}
            \cup ({c.value : c \in {d \in EventCandidates : d.field = "year"}} \X {FirstDay})
            \cup ({e.year : e \in Years} \X Days)

ASSUME FieldCandidatesAssumption ==
    /\ \A c \in FieldCandidates :
          /\ c.set \in Sets
          /\ c.field \in {"event", "date", "year", "venue", "city", "artist"}
          /\ c.value # NoValue
    /\ \A c, d \in EventCandidates : c.set = d.set /\ c.field = d.field => c = d
    /\ \A c, d \in ArtistCandidates : c.set = d.set /\ c.value = d.value => c = d
ASSUME TypedAssumption ==
    /\ \A e \in Typed : /\ e.set \in Sets /\ e.column \in Columns \ {"starts_on"}
                        /\ e.text # NoValue
    /\ \A e \in Years : e.set \in Sets
ASSUME DatesAssumption ==
    /\ \A c \in DateCandidates : c.value = <<c.value[1], c.value[2]>>
    /\ NoValue \notin Dates
ASSUME InboxAssumption == "reviewing" \in Patches

VARIABLES
    accepted,  \* field_candidates.accepted, "null" before a decision
    linked,    \* sets with a row of set_events, to an event of their own
    event,     \* columns of the event of a set
    artists,   \* set_artists
    typed      \* history: columns whose value an editor has typed

curation == <<accepted, linked, event, artists, typed>>

CurationTypeOK ==
    /\ accepted \in [FieldCandidates -> {"null", "true", "false"}]
    /\ linked \subseteq {s \in Sets : Imported(s)}
    /\ DOMAIN event = Sets
    /\ \A s \in Sets : /\ DOMAIN event[s] = Columns
                       /\ event[s]["starts_on"] \in Dates \cup {NoValue}
    /\ artists \in [Sets -> SUBSET {c.value : c \in ArtistCandidates}]
    /\ typed \in [Sets -> SUBSET Columns]
    /\ \A c \in FieldCandidates : accepted[c] # "null" => Imported(c.set)

NoEvent == [col \in Columns |-> NoValue]

CurationInit ==
    /\ accepted = [c \in FieldCandidates |-> "null"]
    /\ linked = {}
    /\ event = [s \in Sets |-> NoEvent]
    /\ artists = [s \in Sets |-> {}]
    /\ typed = [s \in Sets |-> {}]

-----------------------------------------------------------------------------
(* Decisions on a candidate: decide_candidate. *)

\* (Mutant of Rivals: a year and a date do not exclude each other.)
SameField(c) ==
    {d \in EventCandidates \ {c} : d.set = c.set /\ d.field = c.field}

\* The candidates that cannot be accepted beside this one.
Rivals(c) ==
    IF c \in ArtistCandidates THEN {}
    ELSE {d \in EventCandidates \ {c} : d.set = c.set /\ Column(d) = Column(c)}

\* (Mutant of LeaveInbox: the set is accepted with its candidate.)
LeaveInboxAccepted(s) ==
    /\ status' = [status EXCEPT ![s] = IF @ = "inbox" THEN "accepted" ELSE @]
    /\ UNCHANGED <<mergedInto, links, primary, decisions, task, history>>

\* Any decision takes a set out of the inbox.
LeaveInbox(s) ==
    /\ status' = [status EXCEPT ![s] = IF @ = "inbox" THEN "reviewing" ELSE @]
    /\ UNCHANGED <<mergedInto, links, primary, decisions, task, history>>

\* The event is created and linked by the first write to a column of it.
Write(s, col, value) ==
    /\ linked' = linked \cup {s}
    /\ event' = [event EXCEPT ![s][col] = value]

Accept(c) ==
    /\ Imported(c.set)
    /\ accepted' = [d \in FieldCandidates |->
          IF d = c THEN "true" ELSE IF d \in Rivals(c) THEN "false" ELSE accepted[d]]
    /\ \/ /\ c \in ArtistCandidates
          /\ artists' = [artists EXCEPT ![c.set] = @ \cup {c.value}]
          /\ UNCHANGED <<linked, event, typed>>
       \/ /\ c \in EventCandidates
          /\ Write(c.set, Column(c), Written(c))
          /\ typed' = [typed EXCEPT ![c.set] = @ \ {Column(c)}]
          /\ UNCHANGED artists
    /\ LeaveInbox(c.set)

\* The accepted candidates of a column.
AcceptedFor(s, col) ==
    {c \in EventCandidates : c.set = s /\ Column(c) = col /\ accepted[c] = "true"}

\* (Mutant of Reversed: a rejected candidate clears its column, whatever has
\* been written to it since.)
ReversedBlindly(c) == c \in EventCandidates

\* The column still shows what the candidate wrote, and no other date or year
\* is accepted.
Reversed(c) ==
    /\ c \in EventCandidates
    /\ Column(c) = "starts_on" => AcceptedFor(c.set, "starts_on") \ {c} = {}
    /\ event[c.set][Column(c)] = Written(c)

\* (Mutant of Clear: the link to an event without values is left.)
ClearOnly(s, col) ==
    /\ event' = [event EXCEPT ![s][col] = NoValue]
    /\ UNCHANGED linked

\* The column is cleared, and an event that has no value left is unlinked.
Clear(s, col) ==
    /\ event' = [event EXCEPT ![s][col] = NoValue]
    /\ linked' = IF event'[s] = NoEvent THEN linked \ {s} ELSE linked

\* A candidate that was accepted is reversed as far as its value still shows;
\* one that was not changes no field.
RejectCandidate(c) ==
    /\ Imported(c.set)
    /\ accepted' = [accepted EXCEPT ![c] = "false"]
    /\ \/ /\ accepted[c] = "true" /\ Reversed(c)
          /\ Clear(c.set, Column(c))
          /\ typed' = [typed EXCEPT ![c.set] = @ \ {Column(c)}]
          /\ UNCHANGED artists
       \/ /\ accepted[c] = "true" /\ c \in ArtistCandidates
          /\ artists' = [artists EXCEPT ![c.set] = @ \ {c.value}]
          /\ UNCHANGED <<linked, event, typed>>
       \/ /\ accepted[c] # "true" \/ (c \in EventCandidates /\ ~Reversed(c))
          /\ UNCHANGED <<linked, event, artists, typed>>
    /\ LeaveInbox(c.set)

-----------------------------------------------------------------------------
(* What editors type: update_set. *)

\* (Mutant of PatchText: the set need not exist.)
PatchTextOfAny(e) ==
    /\ Write(e.set, e.column, e.text)
    /\ typed' = [typed EXCEPT ![e.set] = @ \cup {e.column}]
    /\ UNCHANGED <<vars, accepted, artists>>

\* The name, the venue or the city of the event.
PatchText(e) ==
    /\ Imported(e.set)
    /\ Write(e.set, e.column, e.text)
    /\ typed' = [typed EXCEPT ![e.set] = @ \cup {e.column}]
    /\ UNCHANGED <<vars, accepted, artists>>

\* The year keeps the month and the day the event has.  make_date raises for
\* 29 February of another year, and the patch is undone.
PatchYear(s, year) ==
    LET date == event[s]["starts_on"]
        day == IF date = NoValue THEN FirstDay ELSE date[2]
    IN  /\ Imported(s)
        /\ day = LeapDay => year \in LeapYears
        /\ Write(s, "starts_on", <<year, day>>)
        /\ typed' = [typed EXCEPT ![s] = @ \cup {"starts_on"}]
        /\ UNCHANGED <<vars, accepted, artists>>

-----------------------------------------------------------------------------
Curate == \/ \E c \in FieldCandidates : Accept(c) \/ RejectCandidate(c)
          \/ \E e \in Typed : PatchText(e)
          \/ \E e \in Years : PatchYear(e.set, e.year)

Next == \/ MergeNext /\ UNCHANGED curation
        \/ Curate

Spec == Init /\ CurationInit /\ [][Next]_<<vars, curation>>

-----------------------------------------------------------------------------
(* What curation promises. *)

\* A set shows what has been decided: at most one candidate of a column is
\* accepted, be it a date or a year; a column no editor has typed over has the
\* value of that candidate, or none; and the artists are the accepted ones.
\* In whatever order candidates are accepted, exchanged and rejected and
\* editors type in between, a decision leaves no trace of an earlier one.
FieldsFollowDecisions ==
    \A s \in Sets :
        /\ \A col \in Columns :
              /\ \A c, d \in AcceptedFor(s, col) : c = d
              /\ col \notin typed[s] =>
                    /\ \A c \in AcceptedFor(s, col) : event[s][col] = Written(c)
                    /\ AcceptedFor(s, col) = {} => event[s][col] = NoValue
        /\ artists[s] = {c.value : c \in {d \in ArtistCandidates :
                                            d.set = s /\ accepted[d] = "true"}}

\* A set has an event exactly if some column of it says something, however it
\* was filled and cleared.
EventsSaySomething == \A s \in Sets : s \in linked <=> event[s] # NoEvent

\* A decision on a candidate takes nothing else from an editor: what one has
\* typed gives way only to the value of a candidate that is accepted for the
\* very column, or goes with the accepted candidate that had the same value.
TypedValuesAreKept ==
    [][\A s \in Sets : \A col \in typed[s] :
          event'[s][col] # event[s][col] =>
              \/ col \in typed'[s]
              \/ event'[s][col] \in {Written(c) : c \in AcceptedFor(s, col)'}
              \/ event[s][col] \in {Written(c) : c \in AcceptedFor(s, col)}
      ]_<<vars, curation>>
=============================================================================
