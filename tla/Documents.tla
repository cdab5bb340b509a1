------------------------------ MODULE Documents ------------------------------
(***************************************************************************)
(* Documents of change records: the configured document types, the rows    *)
(* that list the files, the stored files, and the requests that keep the   *)
(* two together.  A request stores files, then commits rows, then unlinks  *)
(* the files whose rows it deleted; another request, a lost connection or  *)
(* the end of the process may come between any two of these steps.         *)
(*                                                                         *)
(* get_booking loads the attachment rows with the booking, and the request *)
(* decides by that copy until it ends.  Creation runs on the event loop    *)
(* and awaits nothing from the read of the types to its answer.            *)
(***************************************************************************)
EXTENDS Integers, FiniteSets

CONSTANTS
    Requests,     \* bound: requests in flight at a time
    Operations,   \* bound: what they ask for
    MaxFaults,    \* bound: kinds of fault in one behaviour
    Types,        \* keys of document types
    NoType,       \* no row of document_types has the key
    Settings,     \* bound: the settings administrators give types
    Discussion,   \* stands for a category: the files listed by comments
    MaxBookings,  \* bound: ids the sequence of bookings hands out
    MaxFiles,     \* bound: batches of stored files
    MaxUpload     \* MAX_FILES_PER_UPLOAD

Setting == [active: BOOLEAN, required: BOOLEAN, multiple: BOOLEAN]

ASSUME TypesAssumption ==
    /\ Settings \subseteq Setting
    /\ NoType \notin Setting
    /\ Discussion \notin Types
    /\ MaxBookings \in Nat /\ MaxFiles \in Nat /\ MaxUpload \in Nat /\ MaxFaults \in Nat

VARIABLES
    types,        \* document_types by key
    bookings,     \* committed change records
    protected,    \* of these, the ones whose date is today or earlier
    rows,         \* booking_attachments, and the files listed by comments
    disk,         \* files under the storage root
    lastBooking,  \* the id sequence, which a rollback does not turn back
    lastFile,     \* stored names are never used twice (UUID)
    request,
    faults        \* what has gone wrong so far

board == <<types, bookings, protected, lastBooking>>
vars == <<types, bookings, protected, rows, disk, lastBooking, lastFile, request, faults>>

BookingIds == 1..MaxBookings

\* A row and its file: stored as <booking>/<category>/<name>.
File == [booking: BookingIds, category: Types \cup {Discussion}, name: (1..MaxFiles) \X (1..MaxUpload)]

Request == [op: {"UPLOAD", "DELETE", "COMMENT", "CREATE", "DROP_TYPE"},
            phase: {"IDLE", "LOADED", "STORED", "COMMITTED"},
            booking: BookingIds \cup {0},
            loaded: SUBSET File,    \* booking.attachments
            created: SUBSET File,
            stale: SUBSET File,     \* rows to delete, then files to unlink
            keys: SUBSET Types,     \* required types of a creation; the type to drop
            date: {"OPEN", "PROTECTED"}]  \* what it found when it checked

Idle == [op |-> "UPLOAD", phase |-> "IDLE", booking |-> 0, loaded |-> {},
         created |-> {}, stale |-> {}, keys |-> {}, date |-> "PROTECTED"]

Init ==
    /\ types \in [Types -> Settings \cup {NoType}]
    /\ bookings = {} /\ protected = {}
    /\ rows = {} /\ disk = {}
    /\ lastBooking = 0 /\ lastFile = 0
    /\ request = [r \in Requests |-> Idle]
    /\ faults = {}

-----------------------------------------------------------------------------
(* Types, rows and files *)

Known(k) == types[k] # NoType
Active(k) == Known(k) /\ types[k].active
Mandatory(k) == Active(k) /\ types[k].required
Multiple(k) == types[k].multiple

InCategory(files, k) == {o \in files : o.category = k}
OfBooking(files, b) == {o \in files : o.booking = b}

\* booking.attachments; the files of comments are not among them.
Attachments(b) == {o \in rows : o.booking = b /\ o.category \in Types}

DateOf(b) == IF b \in protected THEN "PROTECTED" ELSE "OPEN"

\* A batch of n files in each of the categories ks.
Batch(b, ks, n) ==
    [booking: {b}, category: ks, name: {lastFile + 1} \X (1..n)]

Happens(fault) ==
    /\ Cardinality(faults \cup {fault}) <= MaxFaults
    /\ faults' = faults \cup {fault}

Store(files) ==
    /\ disk' = disk \cup files
    /\ \/ files = {} /\ UNCHANGED lastFile
       \/ files # {} /\ lastFile < MaxFiles /\ lastFile' = lastFile + 1

IsAt(r, phase, op) == request[r].phase = phase /\ request[r].op = op

-----------------------------------------------------------------------------
(* Up to the commit *)

Load(r, op, b) ==
    /\ request[r].phase = "IDLE"
    /\ op \in {"UPLOAD", "DELETE", "COMMENT"} \cap Operations
    /\ b \in bookings
    /\ request' = [request EXCEPT ![r] =
          [Idle EXCEPT !.op = op, !.phase = "LOADED", !.booking = b,
                       !.loaded = Attachments(b)]]
    /\ UNCHANGED <<board, rows, disk, lastFile, faults>>

\* Checked and, for an upload, stored: what remains is the transaction.
Prepared(r, created, stale) ==
    request' = [request EXCEPT ![r] =
       [request[r] EXCEPT !.phase = "STORED", !.loaded = {}, !.created = created,
                          !.stale = stale, !.date = DateOf(request[r].booking)]]

\* Mutant of KeepsEvidence: follow-up uploads replace like any others.
ReplacesEvidence(q, k) == TRUE

\* append_only: on a protected date a Single type may be filled, not replaced.
KeepsEvidence(q, k) ==
    q.booking \in protected /\ ~Multiple(k) => InCategory(q.loaded, k) = {}

\* save_uploads: a Single type's upload replaces the files it loaded.  Whether a
\* protected date is unlocked for uploads at all is UploadAllowed in BookingRules.
StoreUpload(r, k, n) ==
    LET q == request[r]
        files == Batch(q.booking, {k}, n)
    IN  /\ IsAt(r, "LOADED", "UPLOAD")
        /\ Active(k)
        /\ KeepsEvidence(q, k)
        /\ n > 1 => Multiple(k)
        /\ Store(files)
        /\ Prepared(r, files, IF Multiple(k) THEN {} ELSE InCategory(q.loaded, k))
        /\ UNCHANGED <<board, rows, faults>>

LeavesRequired(loaded, selected) ==
    \A o \in selected :
       Mandatory(o.category) => InCategory(loaded \ selected, o.category) # {}

\* delete_attachments, one file or several; never on a protected date.
SelectFiles(r, selected) ==
    LET q == request[r] IN
    /\ IsAt(r, "LOADED", "DELETE")
    /\ q.booking \notin protected
    /\ selected # {} /\ selected \subseteq q.loaded
    /\ LeavesRequired(q.loaded, selected)
    /\ Prepared(r, {}, selected)
    /\ UNCHANGED <<board, rows, disk, lastFile, faults>>

StoreComment(r, n) ==
    LET files == Batch(request[r].booking, {Discussion}, n) IN
    /\ IsAt(r, "LOADED", "COMMENT")
    /\ Store(files)
    /\ Prepared(r, files, {})
    /\ UNCHANGED <<board, rows, faults>>

\* Mutant of Complete: creation does not ask for required documents.
NeverMissing(chosen) == TRUE

Complete(chosen) == \A k \in Types : Mandatory(k) => k \in chosen

EventLoopIsFree ==
    \A o \in Requests : request[o].phase # "IDLE" => request[o].op # "CREATE"

\* create_booking: the record is flushed, then its files are stored.
BeginCreate(r, chosen, n) ==
    LET b == lastBooking + 1
        files == Batch(b, chosen, n)
    IN  /\ request[r].phase = "IDLE" /\ "CREATE" \in Operations
        /\ EventLoopIsFree
        /\ lastBooking < MaxBookings
        /\ \A k \in chosen : Active(k) /\ (n > 1 => Multiple(k))
        /\ Complete(chosen)
        /\ Store(files)
        /\ lastBooking' = b
        /\ request' = [request EXCEPT ![r] =
              [Idle EXCEPT !.op = "CREATE", !.phase = "STORED", !.booking = b,
                           !.created = files, !.date = "OPEN",
                           !.keys = {k \in Types : Mandatory(k)}]]
        /\ UNCHANGED <<types, bookings, protected, rows, faults>>

\* document_type_service.delete: the type is unused when its files are counted.
CheckUnused(r, k) ==
    /\ request[r].phase = "IDLE" /\ "DROP_TYPE" \in Operations
    /\ Known(k)
    /\ InCategory(rows, k) = {}
    /\ request' = [request EXCEPT ![r] =
          [Idle EXCEPT !.op = "DROP_TYPE", !.phase = "STORED", !.keys = {k}]]
    /\ UNCHANGED <<board, rows, disk, lastFile, faults>>

-----------------------------------------------------------------------------
(* The commit and after *)

Answer(r) == request' = [request EXCEPT ![r] = Idle]

Commit(r) ==
    LET q == request[r] IN
    /\ q.phase = "STORED" /\ q.op # "DROP_TYPE"
    /\ rows' = (rows \ q.stale) \cup q.created
    /\ bookings' = bookings \cup {q.booking}
    /\ request' = [request EXCEPT ![r].phase = "COMMITTED"]
    /\ UNCHANGED <<types, protected, disk, lastBooking, lastFile, faults>>

CommitDropType(r) ==
    /\ IsAt(r, "STORED", "DROP_TYPE")
    /\ types' = [k \in Types |-> IF k \in request[r].keys THEN NoType ELSE types[k]]
    /\ Answer(r)
    /\ UNCHANGED <<bookings, protected, rows, disk, lastBooking, lastFile, faults>>

\* Mutant of Unlinked: replaced and deleted files stay in the storage.
NothingUnlinked(q) == {}

\* db.refresh succeeded: _unlink(stale), and the answer.
Unlinked(q) == q.stale

Finish(r) ==
    /\ request[r].phase = "COMMITTED"
    /\ disk' = disk \ Unlinked(request[r])
    /\ Answer(r)
    /\ UNCHANGED <<board, rows, lastFile, faults>>

\* Mutant of CleanedUp: the files to unlink are unlinked in a finally block.
CleanedUpAlways(q) ==
    IF q.op = "CREATE" THEN OfBooking(disk, q.booking)
    ELSE IF q.op = "COMMENT" THEN q.created ELSE q.stale

\* The exception handlers: create_booking removes the record's directory,
\* a comment its files, and uploads and deletions nothing.
CleanedUp(q) ==
    IF q.op = "CREATE" THEN OfBooking(disk, q.booking)
    ELSE IF q.op = "COMMENT" THEN q.created ELSE {}

\* A check refuses, or a file of a creation or a comment is empty, too large or
\* of another kind: _store and the handlers remove what was stored for it.
Refuse(r) ==
    LET q == request[r] IN
    /\ \/ q.phase = "LOADED"
       \/ q.phase = "STORED" /\ q.op \in {"CREATE", "COMMENT"}
    /\ disk' = disk \ (IF q.phase = "LOADED" THEN {} ELSE CleanedUp(q))
    /\ Answer(r)
    /\ UNCHANGED <<board, rows, lastFile, faults>>

\* The transaction fails at the flush or the commit, and rolls back.
TransactionFails(r) ==
    /\ request[r].phase = "STORED"
    /\ disk' = disk \ CleanedUp(request[r])
    /\ Happens("TRANSACTION")
    /\ Answer(r)
    /\ UNCHANGED <<board, rows, lastFile>>

\* db.refresh after the commit fails, inside the same try block: the handlers
\* clean up what is committed.  Creation reads booking.id again for that, which
\* the rollback expired, and keeps the directory when the database stays away.
RefreshFails(r) ==
    LET q == request[r] IN
    /\ q.phase = "COMMITTED"
    /\ \/ disk' = disk \ CleanedUp(q)
       \/ q.op = "CREATE" /\ UNCHANGED disk
    /\ Happens("REFRESH")
    /\ Answer(r)
    /\ UNCHANGED <<board, rows, lastFile>>

\* The process ends: transactions roll back, and nobody cleans up.
Crash ==
    /\ \E r \in Requests : request[r].phase # "IDLE"
    /\ request' = [r \in Requests |-> Idle]
    /\ Happens("CRASH")
    /\ UNCHANGED <<board, rows, disk, lastFile>>

-----------------------------------------------------------------------------
(* Administration, and the calendar *)

\* Keys are unique, and immutable once created; update touches the settings.
CreateType(k, s) ==
    /\ ~Known(k)
    /\ types' = [types EXCEPT ![k] = s]
    /\ UNCHANGED <<bookings, protected, rows, disk, lastBooking, lastFile, request, faults>>

UpdateType(k, s) ==
    /\ Known(k) /\ types[k] # s
    /\ types' = [types EXCEPT ![k] = s]
    /\ UNCHANGED <<bookings, protected, rows, disk, lastBooking, lastFile, request, faults>>

\* Midnight before the record's date; a protected record keeps its date.
DayComes(b) ==
    /\ b \in bookings \ protected
    /\ protected' = protected \cup {b}
    /\ UNCHANGED <<types, bookings, rows, disk, lastBooking, lastFile, request, faults>>

Next ==
    \/ \E r \in Requests :
          \/ \E op \in {"UPLOAD", "DELETE", "COMMENT"}, b \in BookingIds : Load(r, op, b)
          \/ \E k \in Types, n \in 1..MaxUpload : StoreUpload(r, k, n)
          \/ \E selected \in SUBSET request[r].loaded : SelectFiles(r, selected)
          \/ \E n \in 1..MaxUpload : StoreComment(r, n)
          \/ \E chosen \in SUBSET Types, n \in 1..MaxUpload : BeginCreate(r, chosen, n)
          \/ \E k \in Types : CheckUnused(r, k)
          \/ Commit(r) \/ CommitDropType(r) \/ Finish(r)
          \/ Refuse(r) \/ TransactionFails(r) \/ RefreshFails(r)
    \/ Crash
    \/ \E k \in Types, s \in Settings : CreateType(k, s) \/ UpdateType(k, s)
    \/ \E b \in BookingIds : DayComes(b)

Spec == Init /\ [][Next]_vars

-----------------------------------------------------------------------------
(* Properties *)

\* Names are not used twice, and what a request holds was stored for its booking.
TypeOK ==
    /\ types \in [Types -> Settings \cup {NoType}]
    /\ bookings \subseteq BookingIds /\ protected \subseteq bookings
    /\ rows \subseteq File /\ disk \subseteq File
    /\ lastBooking \in 0..MaxBookings /\ lastFile \in 0..MaxFiles
    /\ request \in [Requests -> Request]
    /\ faults \subseteq {"TRANSACTION", "REFRESH", "CRASH"}
    /\ \A b \in bookings : b <= lastBooking
    /\ \A r \in Requests : request[r].phase # "IDLE" /\ request[r].op # "DROP_TYPE" =>
          request[r].booking \in 1..lastBooking

\* A listed document can be downloaded (a row without its file answers 410 Gone):
\* no replacement, deletion, failed creation or comment, overlapping request or
\* crash takes the file of a committed row, unless reading a committed record
\* back failed.
RowsHaveFiles == "REFRESH" \notin faults => rows \subseteq disk

\* "Store every file or none of them", and remove what is replaced or deleted:
\* while nothing has gone wrong, every stored file is listed by a row or in the
\* hands of a request, whichever requests overlapped.
FilesAreAccountedFor ==
    faults = {} =>
       \A o \in disk \ rows : \E r \in Requests :
          o \in request[r].created \cup request[r].stale

\* "Append-only follow-up uploads refuse replacement and preserve all original
\* evidence": a request that finds its record's date protected removes no row,
\* and rows go only with a request that found the date open.
EvidenceStays ==
    [][\A o \in rows \ rows' : \E r \in Requests :
          /\ request[r].phase = "STORED" /\ request[r].date = "OPEN"
          /\ o \in request[r].stale]_vars

\* "A slot is not considered booked until every document category configured as
\* mandatory has been supplied and stored successfully": a record appears with a
\* stored and listed file of each type that was required when it was asked for.
BookedWithItsDocuments ==
    [][\A b \in bookings' \ bookings : \E r \in Requests :
          /\ request[r].booking = b
          /\ \A k \in request[r].keys :
                InCategory(OfBooking(rows' \cap disk', b), k) # {}]_vars
=============================================================================
