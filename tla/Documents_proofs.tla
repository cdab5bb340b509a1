--------------------------- MODULE Documents_proofs ---------------------------
(***************************************************************************)
(* Theorems about Documents: types, rows against files, and what a step    *)
(* may take away.  The invariant follows each file through its life: held  *)
(* by the request that stored it, listed by a row, and held by the request *)
(* that deleted the row.                                                   *)
(***************************************************************************)
EXTENDS Documents, TLAPS

-----------------------------------------------------------------------------
(* The invariant *)

Held(r) == request[r].loaded \cup request[r].created \cup request[r].stale

\* Every file there is or was has a name the sequence has passed.
NamesUsed ==
    /\ \A o \in rows \cup disk : o.name[1] <= lastFile
    /\ \A r \in Requests : \A o \in Held(r) : o.name[1] <= lastFile

\* Until its commit nobody but the request that stored a file knows of it.
UncommittedIsPrivate ==
    \A r \in Requests : request[r].phase = "STORED" =>
       /\ request[r].created \cap rows = {}
       /\ \A s \in Requests :
             /\ request[r].created \cap (request[s].loaded \cup request[s].stale) = {}
             /\ s # r => request[r].created \cap request[s].created = {}

\* A row that was deleted does not come back.
DeletedIsGone ==
    \A r \in Requests : request[r].phase = "COMMITTED" => request[r].stale \cap rows = {}

\* Whose record a request writes to: a creation's is nobody else's yet.
RecordsOfRequests ==
    /\ \A o \in rows : o.booking \in bookings
    /\ \A r \in Requests : \A o \in request[r].created : o.booking = request[r].booking
    /\ \A r \in Requests : request[r].phase # "IDLE" =>
          \/ request[r].op = "DROP_TYPE" /\ request[r].phase = "STORED"
             /\ request[r].created = {} /\ request[r].stale = {}
          \/ request[r].op = "CREATE" /\ request[r].phase = "STORED"
             /\ request[r].booking \in 1..lastBooking \ bookings
          \/ request[r].op = "CREATE" /\ request[r].phase = "COMMITTED"
          \/ request[r].op \in {"UPLOAD", "DELETE", "COMMENT"}
             /\ request[r].booking \in bookings
    /\ \A r, s \in Requests :
          /\ request[r].phase # "IDLE" /\ request[r].op = "CREATE"
          /\ request[s].phase # "IDLE" /\ request[s].op = "CREATE"
          => r = s

\* Rows, and files about to have rows, are on the disk.
StoredFiles ==
    /\ RowsHaveFiles
    /\ \A r \in Requests :
          /\ request[r].phase = "STORED"
          /\ "REFRESH" \notin faults \/ request[r].op = "CREATE"
          => request[r].created \subseteq disk

\* A file without a row waits for a commit, or for its unlinking.
Accounted ==
    faults = {} =>
       \A o \in disk \ rows : \E r \in Requests :
          \/ request[r].phase = "STORED" /\ o \in request[r].created
          \/ request[r].phase = "COMMITTED" /\ o \in request[r].stale

\* What the checks of a request promise of its commit.
ChecksHold ==
    \A r \in Requests : request[r].phase = "STORED" =>
       /\ request[r].stale # {} => request[r].date = "OPEN"
       /\ request[r].op = "CREATE" =>
             \A k \in request[r].keys : InCategory(request[r].created, k) # {}

FilesInv ==
    /\ NamesUsed /\ UncommittedIsPrivate /\ DeletedIsGone
    /\ RecordsOfRequests /\ StoredFiles /\ Accounted /\ ChecksHold

-----------------------------------------------------------------------------
(* Types *)

\* A batch is of files of the storage, none of which existed before.
LEMMA BatchTyped ==
    ASSUME TypeOK, NEW b \in BookingIds, NEW ks \in SUBSET (Types \cup {Discussion}),
           NEW n \in 1..MaxUpload, Store(Batch(b, ks, n))
    PROVE  /\ Batch(b, ks, n) \subseteq File
           /\ \A o \in Batch(b, ks, n) : o.booking = b /\ o.category \in ks /\ o.name[1] = lastFile + 1
           /\ disk' = disk \cup Batch(b, ks, n)
           /\ lastFile' \in 0..MaxFiles /\ lastFile <= lastFile'
           /\ Batch(b, ks, n) # {} => lastFile' = lastFile + 1
<1> USE TypesAssumption
<1>1. CASE Batch(b, ks, n) = {}
  BY <1>1 DEF Store, TypeOK
<1>2. CASE Batch(b, ks, n) # {}
  <2>1. lastFile + 1 \in 1..MaxFiles /\ lastFile' = lastFile + 1
    BY <1>2 DEF Store, TypeOK
  <2> QED BY <1>2, <2>1 DEF Store, Batch, File, TypeOK
<1> QED BY <1>1, <1>2

LEMMA TypeInit == Init => TypeOK
BY TypesAssumption DEF Init, TypeOK, Request, Idle, File, BookingIds

\* What a request ends with, and what it has when it is prepared.
LEMMA IdleTyped == Idle \in Request
BY DEF Idle, Request, BookingIds

\* The disturbed parts of TypeOK after a request has prepared its transaction.
LEMMA PreparedTyped ==
    ASSUME TypeOK, NEW r \in Requests, NEW created \in SUBSET File, NEW stale \in SUBSET File,
           request[r].phase = "LOADED", request[r].op # "DROP_TYPE",
           Prepared(r, created, stale), lastBooking' = lastBooking
    PROVE  /\ request' \in [Requests -> Request]
           /\ \A s \in Requests : request'[s].phase # "IDLE" /\ request'[s].op # "DROP_TYPE" =>
                 request'[s].booking \in 1..lastBooking'
<1>1. DateOf(request[r].booking) \in {"OPEN", "PROTECTED"}
  BY DEF DateOf
<1>2. [request[r] EXCEPT !.phase = "STORED", !.loaded = {}, !.created = created,
                         !.stale = stale, !.date = DateOf(request[r].booking)] \in Request
  <2> DEFINE d == DateOf(request[r].booking)
  <2>1. d \in {"OPEN", "PROTECTED"} /\ request[r] \in Request
    BY <1>1 DEF TypeOK
  <2> HIDE DEF d
  <2>2. [request[r] EXCEPT !.phase = "STORED", !.loaded = {}, !.created = created,
                           !.stale = stale, !.date = d] \in Request
    BY <2>1 DEF Request
  <2> QED
    BY <2>2 DEF d
<1> QED BY <1>2 DEF TypeOK, Prepared

\* And after one that answers.
LEMMA AnswerTyped ==
    ASSUME TypeOK, NEW r \in Requests, Answer(r), lastBooking' = lastBooking
    PROVE  /\ request' \in [Requests -> Request]
           /\ \A s \in Requests : request'[s].phase # "IDLE" /\ request'[s].op # "DROP_TYPE" =>
                 request'[s].booking \in 1..lastBooking'
BY IdleTyped DEF TypeOK, Answer, Idle

LEMMA TypeStep == TypeOK /\ [Next]_vars => TypeOK'
<1> SUFFICES ASSUME TypeOK, [Next]_vars PROVE TypeOK'
  OBVIOUS
<1> USE TypesAssumption
<1>1. ASSUME NEW r \in Requests, NEW op \in {"UPLOAD", "DELETE", "COMMENT"},
             NEW b \in BookingIds, Load(r, op, b)
      PROVE  TypeOK'
  <2>1. Attachments(b) \subseteq File
    BY DEF Attachments, TypeOK
  <2>2. [Idle EXCEPT !.op = op, !.phase = "LOADED", !.booking = b,
                     !.loaded = Attachments(b)] \in Request
    BY <2>1, IdleTyped DEF Request
  <2> QED BY <1>1, <2>2 DEF TypeOK, Load, board, Idle, BookingIds
<1>2. ASSUME NEW r \in Requests, NEW k \in Types, NEW n \in 1..MaxUpload, StoreUpload(r, k, n)
      PROVE  TypeOK'
  <2> DEFINE files == Batch(request[r].booking, {k}, n)
             stale == IF Multiple(k) THEN {} ELSE InCategory(request[r].loaded, k)
  <2>1. stale \subseteq File
    BY DEF InCategory, TypeOK, Request
  <2>2. /\ request[r].phase = "LOADED" /\ request[r].op # "DROP_TYPE"
        /\ request[r].booking \in BookingIds
    BY <1>2 DEF StoreUpload, IsAt, TypeOK, BookingIds
  <2>3. Store(files) /\ Prepared(r, files, stale) /\ UNCHANGED <<board, rows, faults>>
    BY <1>2 DEF StoreUpload
  <2>4. files \subseteq File /\ disk' = disk \cup files /\ lastFile' \in 0..MaxFiles
    <3>1. {k} \in SUBSET (Types \cup {Discussion})
      OBVIOUS
    <3> QED BY <2>2, <2>3, <3>1, BatchTyped
  <2> HIDE DEF files, stale
  <2> QED BY <2>1, <2>2, <2>3, <2>4, PreparedTyped DEF TypeOK, board
<1>3. ASSUME NEW r \in Requests, NEW selected \in SUBSET request[r].loaded, SelectFiles(r, selected)
      PROVE  TypeOK'
  <2>1. selected \in SUBSET File
    BY DEF TypeOK, Request
  <2>2. request[r].phase = "LOADED" /\ request[r].op # "DROP_TYPE"
    BY <1>3 DEF SelectFiles, IsAt
  <2> QED BY <1>3, <2>1, <2>2, PreparedTyped DEF TypeOK, SelectFiles, board
<1>4. ASSUME NEW r \in Requests, NEW n \in 1..MaxUpload, StoreComment(r, n)
      PROVE  TypeOK'
  <2> DEFINE files == Batch(request[r].booking, {Discussion}, n)
  <2>2. /\ request[r].phase = "LOADED" /\ request[r].op # "DROP_TYPE"
        /\ request[r].booking \in BookingIds
    BY <1>4 DEF StoreComment, IsAt, TypeOK, BookingIds
  <2>3. Store(files) /\ Prepared(r, files, {}) /\ UNCHANGED <<board, rows, faults>>
    BY <1>4 DEF StoreComment
  <2>4. files \subseteq File /\ disk' = disk \cup files /\ lastFile' \in 0..MaxFiles
    <3>1. {Discussion} \in SUBSET (Types \cup {Discussion})
      OBVIOUS
    <3> QED BY <2>2, <2>3, <3>1, BatchTyped
  <2> HIDE DEF files
  <2> QED BY <2>2, <2>3, <2>4, PreparedTyped DEF TypeOK, board
<1>5. ASSUME NEW r \in Requests, NEW chosen \in SUBSET Types, NEW n \in 1..MaxUpload,
             BeginCreate(r, chosen, n)
      PROVE  TypeOK'
  <2> DEFINE files == Batch(lastBooking + 1, chosen, n)
             mandatory == {k \in Types : Mandatory(k)}
             new == [Idle EXCEPT !.op = "CREATE", !.phase = "STORED", !.booking = lastBooking + 1,
                                 !.created = files, !.date = "OPEN", !.keys = mandatory]
  <2>1. lastBooking + 1 \in BookingIds
    BY <1>5 DEF BeginCreate, TypeOK, BookingIds
  <2>2. /\ Store(files) /\ lastBooking' = lastBooking + 1
        /\ request' = [request EXCEPT ![r] = new]
        /\ UNCHANGED <<types, bookings, protected, rows, faults>>
    BY <1>5 DEF BeginCreate
  <2>3. files \subseteq File /\ disk' = disk \cup files /\ lastFile' \in 0..MaxFiles
    <3>1. chosen \in SUBSET (Types \cup {Discussion})
      OBVIOUS
    <3> QED BY <2>1, <2>2, <3>1, BatchTyped
  <2>4. mandatory \subseteq Types
    OBVIOUS
  <2> HIDE DEF files, mandatory
  <2>5. new \in Request /\ new.booking = lastBooking + 1
    BY <2>1, <2>3, <2>4, IdleTyped DEF Request, Idle
  <2> HIDE DEF new
  <2> QED BY <2>1, <2>2, <2>3, <2>5 DEF TypeOK, BookingIds
<1>6. ASSUME NEW r \in Requests, NEW k \in Types, CheckUnused(r, k)
      PROVE  TypeOK'
  <2>1. [Idle EXCEPT !.op = "DROP_TYPE", !.phase = "STORED", !.keys = {k}] \in Request
    BY IdleTyped DEF Request
  <2> QED BY <1>6, <2>1 DEF TypeOK, CheckUnused, board, Idle
<1>7. ASSUME NEW r \in Requests, Commit(r) PROVE TypeOK'
  <2>1. [request[r] EXCEPT !.phase = "COMMITTED"] \in Request
    BY DEF TypeOK, Request
  <2>2. request[r].booking \in 1..lastBooking /\ request[r].booking \in BookingIds
    BY <1>7 DEF Commit, TypeOK, BookingIds
  <2>3. request[r].created \subseteq File
    BY DEF TypeOK, Request
  <2>4. request' \in [Requests -> Request]
    BY <1>7, <2>1 DEF Commit, TypeOK
  <2>5. \A s \in Requests : request'[s].phase # "IDLE" /\ request'[s].op # "DROP_TYPE" =>
           request'[s].booking \in 1..lastBooking'
    BY <1>7, <2>2 DEF Commit, TypeOK, Request
  <2> QED BY <1>7, <2>2, <2>3, <2>4, <2>5 DEF Commit, TypeOK
<1>8. ASSUME NEW r \in Requests, CommitDropType(r) PROVE TypeOK'
  <2>1. types' \in [Types -> Settings \cup {NoType}]
    BY <1>8 DEF CommitDropType, TypeOK
  <2> QED BY <1>8, <2>1, AnswerTyped DEF CommitDropType, TypeOK
<1>9. ASSUME NEW r \in Requests, Finish(r) \/ Refuse(r) \/ TransactionFails(r) \/ RefreshFails(r)
      PROVE  TypeOK'
  <2>1. /\ Answer(r) /\ UNCHANGED <<board, rows, lastFile>>
        /\ disk' \subseteq disk
        /\ faults' \subseteq faults \cup {"TRANSACTION", "REFRESH"}
    BY <1>9 DEF Finish, Refuse, TransactionFails, RefreshFails, Happens
  <2> QED BY <2>1, AnswerTyped DEF TypeOK, board
<1>10. CASE Crash
  BY <1>10, IdleTyped DEF Crash, Happens, TypeOK, board, Idle
<1>11. ASSUME NEW k \in Types, NEW s \in Settings, CreateType(k, s) \/ UpdateType(k, s)
       PROVE  TypeOK'
  BY <1>11 DEF CreateType, UpdateType, TypeOK
<1>12. ASSUME NEW b \in BookingIds, DayComes(b) PROVE TypeOK'
  BY <1>12 DEF DayComes, TypeOK
<1>13. CASE UNCHANGED vars
  BY <1>13 DEF vars, TypeOK
<1> QED BY <1>1, <1>2, <1>3, <1>4, <1>5, <1>6, <1>7, <1>8, <1>9, <1>10, <1>11, <1>12, <1>13 DEF Next

\* Names and what requests hold are of the kinds the tables and the storage keep.
THEOREM TypeCorrect == Spec => []TypeOK
<1>1. Init => TypeOK
  BY TypeInit
<1>2. TypeOK /\ [Next]_vars => TypeOK'
  BY TypeStep
<1> QED BY <1>1, <1>2, PTL DEF Spec

-----------------------------------------------------------------------------
(* Files *)

LEMMA FilesInit == Init => FilesInv
BY DEF Init, Idle, FilesInv, Held, NamesUsed, UncommittedIsPrivate, DeletedIsGone,
       RecordsOfRequests, StoredFiles, RowsHaveFiles, Accounted, ChecksHold

\* Nothing a request holds, and nothing on the tables, has a name still to come.
LEMMA NewNamesAreNew ==
    ASSUME TypeOK, NamesUsed, NEW files \in SUBSET File,
           \A o \in files : o.name[1] = lastFile + 1
    PROVE  /\ files \cap (rows \cup disk) = {}
           /\ \A s \in Requests : files \cap Held(s) = {}
<1>1. \A o \in File : o.name[1] \in Int
  BY DEF File
<1>2. lastFile \in Int
  BY DEF TypeOK
<1> QED BY <1>1, <1>2 DEF NamesUsed

\* Used names stay used when a request stores files under the next one.
LEMMA NamesStep ==
    ASSUME TypeOK, NamesUsed, NEW files \in SUBSET File,
           \A o \in files : o.name[1] = lastFile + 1,
           UNCHANGED rows, disk' = disk \cup files,
           lastFile' \in Int, lastFile <= lastFile', files # {} => lastFile' = lastFile + 1,
           \A s \in Requests : Held(s)' \subseteq Held(s) \cup files
    PROVE  NamesUsed'
<1>1. \A o \in File : o.name[1] \in Int
  BY DEF File
<1>2. \A s \in Requests : Held(s) \subseteq File
  BY DEF TypeOK, Request, Held
<1>3. lastFile \in Int
  BY DEF TypeOK
<1>4. \A o \in rows' \cup disk' : o.name[1] <= lastFile'
  BY <1>1, <1>3 DEF NamesUsed, TypeOK
<1>5. ASSUME NEW s \in Requests, NEW o \in Held(s)' PROVE o.name[1] <= lastFile'
  <2>1. o \in files \/ o \in Held(s)
    BY <1>5
  <2> QED BY <1>1, <1>2, <1>3, <2>1 DEF NamesUsed
<1> QED BY <1>4, <1>5 DEF NamesUsed

\* StoreUpload, SelectFiles and StoreComment.
LEMMA PrepareStep ==
    ASSUME TypeOK, FilesInv, NEW r \in Requests,
           request[r].phase = "LOADED", request[r].op \in {"UPLOAD", "DELETE", "COMMENT"},
           NEW files \in SUBSET File, NEW stale \in SUBSET request[r].loaded,
           \A o \in files : o.booking = request[r].booking /\ o.name[1] = lastFile + 1,
           Prepared(r, files, stale),
           stale # {} => DateOf(request[r].booking) = "OPEN",
           disk' = disk \cup files,
           lastFile' \in Int, lastFile <= lastFile', files # {} => lastFile' = lastFile + 1,
           UNCHANGED <<bookings, lastBooking, rows, faults>>
    PROVE  FilesInv'
<1> DEFINE new == [request[r] EXCEPT !.phase = "STORED", !.loaded = {}, !.created = files,
                                     !.stale = stale, !.date = DateOf(request[r].booking)]
<1>1. \A s \in Requests : request'[s] = IF s = r THEN new ELSE request[s]
  BY DEF Prepared, TypeOK
<1>2. /\ new.phase = "STORED" /\ new.loaded = {} /\ new.created = files /\ new.stale = stale
      /\ new.op = request[r].op /\ new.booking = request[r].booking /\ new.keys = request[r].keys
      /\ new.date = DateOf(request[r].booking)
  BY DEF TypeOK, Request
<1> HIDE DEF new
<1>3. files \cap (rows \cup disk) = {} /\ \A s \in Requests : files \cap Held(s) = {}
  BY NewNamesAreNew DEF FilesInv
<1>4. NamesUsed'
  <2>1. \A s \in Requests : Held(s)' \subseteq Held(s) \cup files
    BY <1>1, <1>2 DEF Held
  <2> QED BY <2>1, NamesStep DEF FilesInv
<1>5. UncommittedIsPrivate'
  BY <1>1, <1>2, <1>3 DEF FilesInv, UncommittedIsPrivate, Held
<1>6. DeletedIsGone'
  BY <1>1, <1>2 DEF FilesInv, DeletedIsGone
<1>7. RecordsOfRequests'
  BY <1>1, <1>2 DEF FilesInv, RecordsOfRequests
<1>8. StoredFiles'
  BY <1>1, <1>2 DEF FilesInv, StoredFiles, RowsHaveFiles
<1>9. Accounted'
  BY <1>1, <1>2 DEF FilesInv, Accounted
<1>10. ChecksHold'
  BY <1>1, <1>2 DEF FilesInv, ChecksHold, InCategory
<1> QED BY <1>4, <1>5, <1>6, <1>7, <1>8, <1>9, <1>10 DEF FilesInv

\* BeginCreate: the record's id is new, and no other creation is under way.
LEMMA CreateStep ==
    ASSUME TypeOK, FilesInv, NEW r \in Requests, NEW chosen \in SUBSET Types,
           NEW n \in 1..MaxUpload, BeginCreate(r, chosen, n)
    PROVE  FilesInv'
<1> DEFINE files == Batch(lastBooking + 1, chosen, n)
           mandatory == {k \in Types : Mandatory(k)}
           new == [Idle EXCEPT !.op = "CREATE", !.phase = "STORED", !.booking = lastBooking + 1,
                               !.created = files, !.date = "OPEN", !.keys = mandatory]
<1>1. /\ Store(files) /\ lastBooking' = lastBooking + 1
      /\ request[r].phase = "IDLE" /\ EventLoopIsFree /\ Complete(chosen)
      /\ UNCHANGED <<types, bookings, protected, rows, faults>>
      /\ request' = [request EXCEPT ![r] = new]
  BY DEF BeginCreate
<1>2. /\ files \subseteq File
      /\ \A o \in files : o.booking = lastBooking + 1 /\ o.name[1] = lastFile + 1
      /\ disk' = disk \cup files
      /\ lastFile' \in Int /\ lastFile <= lastFile'
      /\ files # {} => lastFile' = lastFile + 1
  <2>1. lastBooking + 1 \in BookingIds
    BY TypesAssumption DEF BeginCreate, BookingIds, TypeOK
  <2>2. chosen \in SUBSET (Types \cup {Discussion})
    OBVIOUS
  <2> QED BY <1>1, <2>1, <2>2, BatchTyped
<1>3. \A k \in mandatory : InCategory(files, k) # {}
  <2>1. SUFFICES ASSUME NEW k \in mandatory PROVE InCategory(files, k) # {}
    OBVIOUS
  <2>2. k \in chosen
    BY <1>1 DEF Complete
  <2>3. 1 \in 1..n
    BY TypesAssumption
  <2>4. [booking |-> lastBooking + 1, category |-> k, name |-> <<lastFile + 1, 1>>] \in files
    BY <2>2, <2>3 DEF Batch
  <2> QED BY <2>4 DEF InCategory
<1> HIDE DEF files, mandatory
<1>4. /\ new.phase = "STORED" /\ new.op = "CREATE" /\ new.loaded = {} /\ new.created = files
      /\ new.stale = {} /\ new.booking = lastBooking + 1 /\ new.keys = mandatory
  BY DEF Idle
<1>5. \A s \in Requests : request'[s] = IF s = r THEN new ELSE request[s]
  BY <1>1 DEF TypeOK
<1> HIDE DEF new
<1>6. files \cap (rows \cup disk) = {} /\ \A s \in Requests : files \cap Held(s) = {}
  BY <1>2, NewNamesAreNew DEF FilesInv
<1>7. NamesUsed'
  <2>1. \A s \in Requests : Held(s)' \subseteq Held(s) \cup files
    BY <1>4, <1>5 DEF Held
  <2> QED BY <1>1, <1>2, <2>1, NamesStep DEF FilesInv
<1>8. UncommittedIsPrivate'
  BY <1>1, <1>4, <1>5, <1>6 DEF FilesInv, UncommittedIsPrivate, Held
<1>9. DeletedIsGone'
  BY <1>1, <1>4, <1>5 DEF FilesInv, DeletedIsGone
<1>10. RecordsOfRequests'
  <2>1. lastBooking \in Int /\ 0 <= lastBooking /\ \A b \in bookings : b \in Int /\ b <= lastBooking
    BY DEF TypeOK, BookingIds
  <2>2. lastBooking + 1 \in 1..lastBooking' \ bookings
    BY <1>1, <2>1
  <2>3. 1..lastBooking \subseteq 1..lastBooking'
    BY <1>1, <2>1
  <2>4. \A s \in Requests : request[s].phase # "IDLE" => request[s].op # "CREATE"
    BY <1>1 DEF EventLoopIsFree
  <2> QED BY <1>1, <1>2, <1>4, <1>5, <2>2, <2>3, <2>4 DEF FilesInv, RecordsOfRequests
<1>11. StoredFiles'
  BY <1>1, <1>2, <1>4, <1>5 DEF FilesInv, StoredFiles, RowsHaveFiles
<1>12. Accounted'
  BY <1>1, <1>2, <1>4, <1>5 DEF FilesInv, Accounted
<1>13. ChecksHold'
  BY <1>3, <1>4, <1>5 DEF FilesInv, ChecksHold, InCategory
<1> QED BY <1>7, <1>8, <1>9, <1>10, <1>11, <1>12, <1>13 DEF FilesInv

\* The rows change hands: created files get theirs, deleted ones lose them.
LEMMA CommitStep ==
    ASSUME TypeOK, FilesInv, NEW r \in Requests, Commit(r)
    PROVE  FilesInv'
<1> DEFINE q == request[r]
           new == [request[r] EXCEPT !.phase = "COMMITTED"]
<1>1. /\ q.phase = "STORED" /\ q.op # "DROP_TYPE"
      /\ rows' = (rows \ q.stale) \cup q.created
      /\ bookings' = bookings \cup {q.booking}
      /\ UNCHANGED <<disk, lastBooking, lastFile, faults>>
  BY DEF Commit
<1>2. \A s \in Requests : request'[s] = IF s = r THEN new ELSE request[s]
  BY DEF Commit, TypeOK
<1>3. /\ new.phase = "COMMITTED" /\ new.op = q.op /\ new.booking = q.booking
      /\ new.loaded = q.loaded /\ new.created = q.created /\ new.stale = q.stale
  BY DEF TypeOK, Request
<1> HIDE DEF new
<1>4. NamesUsed'
  BY <1>1, <1>2, <1>3 DEF FilesInv, NamesUsed, Held
<1>5. UncommittedIsPrivate'
  BY <1>1, <1>2, <1>3 DEF FilesInv, UncommittedIsPrivate
<1>6. DeletedIsGone'
  BY <1>1, <1>2, <1>3 DEF FilesInv, DeletedIsGone, UncommittedIsPrivate
<1>7. RecordsOfRequests'
  <2> USE DEF RecordsOfRequests
  <2>1. RecordsOfRequests
    BY DEF FilesInv
  <2>2. ASSUME NEW s \in Requests, s # r, request[s].phase = "STORED", request[s].op = "CREATE"
        PROVE  request[s].booking \in 1..lastBooking \ bookings'
    <3>1. q.op # "CREATE"
      BY <1>1, <2>1, <2>2
    <3>2. q.booking \in bookings
      BY <1>1, <2>1, <3>1
    <3> QED BY <1>1, <2>1, <2>2, <3>2
  <2>3. \A o \in rows' : o.booking \in bookings'
    BY <1>1, <2>1
  <2>4. \A s \in Requests : \A o \in request'[s].created : o.booking = request'[s].booking
    BY <1>2, <1>3, <2>1
  <2>5. \A s, t \in Requests :
           /\ request'[s].phase # "IDLE" /\ request'[s].op = "CREATE"
           /\ request'[t].phase # "IDLE" /\ request'[t].op = "CREATE"
           => s = t
    BY <1>1, <1>2, <1>3, <2>1
  <2>6. ASSUME NEW s \in Requests, request'[s].phase # "IDLE"
        PROVE  \/ request'[s].op = "DROP_TYPE" /\ request'[s].phase = "STORED"
                  /\ request'[s].created = {} /\ request'[s].stale = {}
               \/ request'[s].op = "CREATE" /\ request'[s].phase = "STORED"
                  /\ request'[s].booking \in 1..lastBooking \ bookings'
               \/ request'[s].op = "CREATE" /\ request'[s].phase = "COMMITTED"
               \/ request'[s].op \in {"UPLOAD", "DELETE", "COMMENT"}
                  /\ request'[s].booking \in bookings'
    <3>1. CASE s = r
      BY <1>1, <1>2, <1>3, <2>1, <3>1
    <3>2. CASE s # r
      BY <1>1, <1>2, <2>1, <2>2, <2>6, <3>2
    <3> QED BY <3>1, <3>2
  <2> QED BY <1>1, <2>3, <2>4, <2>5, <2>6
<1>8. StoredFiles'
  BY <1>1, <1>2, <1>3 DEF FilesInv, StoredFiles, RowsHaveFiles
<1>9. Accounted'
  BY <1>1, <1>2, <1>3 DEF FilesInv, Accounted
<1>10. ChecksHold'
  BY <1>1, <1>2, <1>3 DEF FilesInv, ChecksHold
<1> QED BY <1>4, <1>5, <1>6, <1>7, <1>8, <1>9, <1>10 DEF FilesInv

\* What a request takes from the disk when it ends has no row and awaits none, but
\* after a failed refresh; and it leaves no file behind, but after a fault.
TakesNothingListed == "REFRESH" \notin faults' => rows \subseteq disk'

TakesNothingOf(s) ==
    /\ request[s].phase = "STORED"
    /\ "REFRESH" \notin faults' \/ request[s].op = "CREATE"
    /\ request[s].created \subseteq disk
    => request[s].created \subseteq disk'

LeavesNothing(r) ==
    faults' = {} =>
       /\ request[r].phase = "STORED" => disk' \cap request[r].created = {}
       /\ request[r].phase = "COMMITTED" => disk' \cap request[r].stale = {}

LEMMA AnswerStep ==
    ASSUME TypeOK, FilesInv, NEW r \in Requests, Answer(r),
           UNCHANGED <<bookings, lastBooking, rows, lastFile>>,
           faults \subseteq faults', disk' \subseteq disk,
           TakesNothingListed, LeavesNothing(r),
           \A s \in Requests : s # r => TakesNothingOf(s)
    PROVE  FilesInv'
<1>1. \A s \in Requests : request'[s] = IF s = r THEN Idle ELSE request[s]
  BY DEF Answer, TypeOK
<1>2. Idle.phase = "IDLE" /\ Idle.loaded = {} /\ Idle.created = {} /\ Idle.stale = {}
  BY DEF Idle
<1>3. NamesUsed'
  BY <1>1, <1>2 DEF FilesInv, NamesUsed, Held
<1>4. UncommittedIsPrivate'
  BY <1>1, <1>2 DEF FilesInv, UncommittedIsPrivate
<1>5. DeletedIsGone'
  BY <1>1, <1>2 DEF FilesInv, DeletedIsGone
<1>6. RecordsOfRequests'
  BY <1>1, <1>2 DEF FilesInv, RecordsOfRequests
<1>7. StoredFiles'
  BY <1>1, <1>2 DEF FilesInv, StoredFiles, RowsHaveFiles, TakesNothingListed, TakesNothingOf
<1>8. Accounted'
  <2>1. SUFFICES ASSUME faults' = {}, NEW o \in disk' \ rows
                 PROVE  \E s \in Requests :
                           \/ request'[s].phase = "STORED" /\ o \in request'[s].created
                           \/ request'[s].phase = "COMMITTED" /\ o \in request'[s].stale
    BY DEF Accounted
  <2>2. PICK s \in Requests : \/ request[s].phase = "STORED" /\ o \in request[s].created
                              \/ request[s].phase = "COMMITTED" /\ o \in request[s].stale
    BY <2>1 DEF FilesInv, Accounted
  <2>3. s # r
    BY <2>1, <2>2 DEF LeavesNothing
  <2> QED BY <1>1, <2>2, <2>3
<1>9. ChecksHold'
  BY <1>1, <1>2 DEF FilesInv, ChecksHold
<1> QED BY <1>3, <1>4, <1>5, <1>6, <1>7, <1>8, <1>9 DEF FilesInv

LEMMA FilesStep == TypeOK /\ FilesInv /\ [Next]_vars => FilesInv'
<1> SUFFICES ASSUME TypeOK, FilesInv, [Next]_vars PROVE FilesInv'
  OBVIOUS
<1>1. ASSUME NEW r \in Requests, NEW op \in {"UPLOAD", "DELETE", "COMMENT"},
             NEW b \in BookingIds, Load(r, op, b)
      PROVE  FilesInv'
  <2> DEFINE new == [Idle EXCEPT !.op = op, !.phase = "LOADED", !.booking = b,
                                 !.loaded = Attachments(b)]
  <2>1. /\ request[r].phase = "IDLE" /\ b \in bookings
        /\ request' = [request EXCEPT ![r] = new]
        /\ UNCHANGED <<board, rows, disk, lastFile, faults>>
    BY <1>1 DEF Load
  <2>2. \A s \in Requests : request'[s] = IF s = r THEN new ELSE request[s]
    BY <2>1 DEF TypeOK
  <2>3. /\ new.phase = "LOADED" /\ new.op = op /\ new.booking = b /\ new.loaded \subseteq rows
        /\ new.created = {} /\ new.stale = {}
    BY DEF Idle, Attachments
  <2> HIDE DEF new
  <2> USE <2>1, <2>2, <2>3 DEF FilesInv, board
  <2>4. NamesUsed'
    BY DEF NamesUsed, Held
  <2>5. UncommittedIsPrivate'
    BY DEF UncommittedIsPrivate
  <2>6. DeletedIsGone'
    BY DEF DeletedIsGone
  <2>7. RecordsOfRequests'
    BY DEF RecordsOfRequests
  <2>8. StoredFiles'
    BY DEF StoredFiles, RowsHaveFiles
  <2>9. Accounted'
    BY DEF Accounted
  <2>10. ChecksHold'
    BY DEF ChecksHold
  <2> QED BY <2>4, <2>5, <2>6, <2>7, <2>8, <2>9, <2>10
<1>2. ASSUME NEW r \in Requests, NEW k \in Types, NEW n \in 1..MaxUpload, StoreUpload(r, k, n)
      PROVE  FilesInv'
  <2> DEFINE files == Batch(request[r].booking, {k}, n)
             stale == IF Multiple(k) THEN {} ELSE InCategory(request[r].loaded, k)
  <2>1. /\ request[r].phase = "LOADED" /\ request[r].op \in {"UPLOAD", "DELETE", "COMMENT"}
        /\ Store(files) /\ Prepared(r, files, stale) /\ KeepsEvidence(request[r], k)
        /\ UNCHANGED <<bookings, lastBooking, rows, faults>>
    BY <1>2 DEF StoreUpload, IsAt, board
  <2>2. request[r].booking \in BookingIds
    BY <2>1, TypesAssumption DEF TypeOK, BookingIds
  <2>3. stale \in SUBSET request[r].loaded
    BY DEF InCategory
  <2>4. stale # {} => DateOf(request[r].booking) = "OPEN"
    BY <2>1 DEF KeepsEvidence, DateOf
  <2>5. {k} \in SUBSET (Types \cup {Discussion})
    OBVIOUS
  <2> HIDE DEF files, stale
  <2>6. /\ files \in SUBSET File
        /\ \A o \in files : o.booking = request[r].booking /\ o.name[1] = lastFile + 1
        /\ disk' = disk \cup files
        /\ lastFile' \in Int /\ lastFile <= lastFile'
        /\ files # {} => lastFile' = lastFile + 1
    BY <2>1, <2>2, <2>5, BatchTyped DEF files
  <2> QED BY <2>1, <2>3, <2>4, <2>6, PrepareStep
<1>3. ASSUME NEW r \in Requests, NEW selected \in SUBSET request[r].loaded, SelectFiles(r, selected)
      PROVE  FilesInv'
  <2>1. /\ request[r].phase = "LOADED" /\ request[r].op \in {"UPLOAD", "DELETE", "COMMENT"}
        /\ Prepared(r, {}, selected) /\ DateOf(request[r].booking) = "OPEN"
        /\ UNCHANGED <<bookings, lastBooking, rows, disk, lastFile, faults>>
    BY <1>3 DEF SelectFiles, IsAt, DateOf, board
  <2>2. lastFile' \in Int /\ lastFile <= lastFile'
    BY <2>1 DEF TypeOK
  <2>3. {} \in SUBSET File /\ disk' = disk \cup {}
    BY <2>1
  <2> QED BY <2>1, <2>2, <2>3, PrepareStep
<1>4. ASSUME NEW r \in Requests, NEW n \in 1..MaxUpload, StoreComment(r, n)
      PROVE  FilesInv'
  <2> DEFINE ks == {Discussion}
             files == Batch(request[r].booking, ks, n)
  <2>1. /\ request[r].phase = "LOADED" /\ request[r].op \in {"UPLOAD", "DELETE", "COMMENT"}
        /\ Store(files) /\ Prepared(r, files, {})
        /\ UNCHANGED <<bookings, lastBooking, rows, faults>>
    BY <1>4 DEF StoreComment, IsAt, board
  <2>2. request[r].booking \in BookingIds
    BY <2>1, TypesAssumption DEF TypeOK, BookingIds
  <2>3. ks \in SUBSET (Types \cup {Discussion})
    OBVIOUS
  <2> HIDE DEF ks, files
  <2>4. /\ files \in SUBSET File
        /\ \A o \in files : o.booking = request[r].booking /\ o.name[1] = lastFile + 1
        /\ disk' = disk \cup files
        /\ lastFile' \in Int /\ lastFile <= lastFile'
        /\ files # {} => lastFile' = lastFile + 1
    BY <2>1, <2>2, <2>3, BatchTyped DEF files
  <2>5. {} \in SUBSET request[r].loaded
    OBVIOUS
  <2> QED BY <2>1, <2>4, <2>5, PrepareStep
<1>5. ASSUME NEW r \in Requests, NEW chosen \in SUBSET Types, NEW n \in 1..MaxUpload,
             BeginCreate(r, chosen, n)
      PROVE  FilesInv'
  BY <1>5, CreateStep
<1>6. ASSUME NEW r \in Requests, NEW k \in Types, CheckUnused(r, k)
      PROVE  FilesInv'
  <2> DEFINE new == [Idle EXCEPT !.op = "DROP_TYPE", !.phase = "STORED", !.keys = {k}]
  <2>1. /\ request[r].phase = "IDLE"
        /\ request' = [request EXCEPT ![r] = new]
        /\ UNCHANGED <<board, rows, disk, lastFile, faults>>
    BY <1>6 DEF CheckUnused
  <2>2. \A s \in Requests : request'[s] = IF s = r THEN new ELSE request[s]
    BY <2>1 DEF TypeOK
  <2>3. /\ new.phase = "STORED" /\ new.op = "DROP_TYPE" /\ new.loaded = {}
        /\ new.created = {} /\ new.stale = {}
    BY DEF Idle
  <2> HIDE DEF new
  <2> USE <2>1, <2>2, <2>3 DEF FilesInv, board
  <2>4. NamesUsed'
    BY DEF NamesUsed, Held
  <2>5. UncommittedIsPrivate'
    BY DEF UncommittedIsPrivate
  <2>6. DeletedIsGone'
    BY DEF DeletedIsGone
  <2>7. RecordsOfRequests'
    BY DEF RecordsOfRequests
  <2>8. StoredFiles'
    BY DEF StoredFiles, RowsHaveFiles
  <2>9. Accounted'
    BY DEF Accounted
  <2>10. ChecksHold'
    BY DEF ChecksHold
  <2> QED BY <2>4, <2>5, <2>6, <2>7, <2>8, <2>9, <2>10
<1>7. ASSUME NEW r \in Requests, Commit(r) PROVE FilesInv'
  BY <1>7, CommitStep
<1>8. ASSUME NEW r \in Requests, CommitDropType(r) PROVE FilesInv'
  <2>1. /\ Answer(r) /\ request[r].phase = "STORED" /\ request[r].op = "DROP_TYPE"
        /\ UNCHANGED <<bookings, rows, disk, lastBooking, lastFile, faults>>
    BY <1>8 DEF CommitDropType, IsAt
  <2>2. request[r].created = {}
    BY <2>1 DEF FilesInv, RecordsOfRequests
  <2>3. TakesNothingListed
    BY <2>1 DEF FilesInv, StoredFiles, RowsHaveFiles, TakesNothingListed
  <2>4. \A s \in Requests : TakesNothingOf(s)
    BY <2>1 DEF TakesNothingOf
  <2>5. LeavesNothing(r)
    BY <2>1, <2>2 DEF LeavesNothing
  <2> QED BY <2>1, <2>3, <2>4, <2>5, AnswerStep
<1>9. ASSUME NEW r \in Requests, Finish(r) PROVE FilesInv'
  <2>1. /\ Answer(r) /\ request[r].phase = "COMMITTED" /\ disk' = disk \ request[r].stale
        /\ UNCHANGED <<bookings, rows, lastBooking, lastFile, faults>>
    BY <1>9 DEF Finish, Unlinked, board
  <2>2. disk' \subseteq disk /\ faults \subseteq faults'
    BY <2>1
  <2>3. TakesNothingListed
    BY <2>1 DEF FilesInv, StoredFiles, RowsHaveFiles, DeletedIsGone, TakesNothingListed
  <2>4. \A s \in Requests : TakesNothingOf(s)
    BY <2>1 DEF FilesInv, UncommittedIsPrivate, TakesNothingOf
  <2>5. LeavesNothing(r)
    BY <2>1 DEF LeavesNothing
  <2> QED BY <2>1, <2>2, <2>3, <2>4, <2>5, AnswerStep
<1>10. ASSUME NEW r \in Requests, Refuse(r) \/ TransactionFails(r), request[r].phase = "STORED"
       PROVE  FilesInv'
  <2>1. /\ Answer(r) /\ disk' = disk \ CleanedUp(request[r])
        /\ UNCHANGED <<bookings, rows, lastBooking, lastFile>>
        /\ faults \subseteq faults'
        /\ faults' = {} => request[r].op \in {"CREATE", "COMMENT"}
    BY <1>10 DEF Refuse, TransactionFails, Happens, board
  <2>2. disk' \subseteq disk
    BY <2>1
  <2>3. CleanedUp(request[r]) \cap rows = {}
    BY <1>10 DEF FilesInv, RecordsOfRequests, UncommittedIsPrivate, CleanedUp, OfBooking
  <2>4. ASSUME NEW s \in Requests, s # r, request[s].phase = "STORED"
        PROVE  CleanedUp(request[r]) \cap request[s].created = {}
    <3>1. CASE request[r].op = "CREATE"
      <4>1. \A o \in request[s].created : o.booking # request[r].booking
        BY <1>10, <2>4, <3>1 DEF FilesInv, RecordsOfRequests
      <4> QED BY <3>1, <4>1 DEF CleanedUp, OfBooking
    <3>2. CASE request[r].op # "CREATE"
      BY <1>10, <2>4, <3>2 DEF FilesInv, UncommittedIsPrivate, CleanedUp
    <3> QED BY <3>1, <3>2
  <2>5. TakesNothingListed
    BY <2>1, <2>3 DEF FilesInv, StoredFiles, RowsHaveFiles, TakesNothingListed
  <2>6. \A s \in Requests : s # r => TakesNothingOf(s)
    BY <2>1, <2>4 DEF TakesNothingOf
  <2>7. LeavesNothing(r)
    BY <1>10, <2>1 DEF FilesInv, RecordsOfRequests, LeavesNothing, CleanedUp, OfBooking
  <2> QED BY <2>1, <2>2, <2>5, <2>6, <2>7, AnswerStep
<1>11. ASSUME NEW r \in Requests, Refuse(r), request[r].phase # "STORED"
       PROVE  FilesInv'
  <2>1. /\ Answer(r) /\ disk' = disk /\ request[r].phase = "LOADED"
        /\ UNCHANGED <<bookings, rows, lastBooking, lastFile, faults>>
    BY <1>11 DEF Refuse, board
  <2>2. TakesNothingListed /\ LeavesNothing(r) /\ \A s \in Requests : TakesNothingOf(s)
    BY <2>1 DEF FilesInv, StoredFiles, RowsHaveFiles, TakesNothingListed, LeavesNothing, TakesNothingOf
  <2> QED BY <2>1, <2>2, AnswerStep
<1>12. ASSUME NEW r \in Requests, RefreshFails(r) PROVE FilesInv'
  <2>1. /\ Answer(r) /\ request[r].phase = "COMMITTED"
        /\ disk' \subseteq disk /\ disk \ CleanedUp(request[r]) \subseteq disk'
        /\ UNCHANGED <<bookings, rows, lastBooking, lastFile>>
        /\ faults \subseteq faults' /\ "REFRESH" \in faults'
    BY <1>12 DEF RefreshFails, Happens, board
  <2>2. ASSUME NEW s \in Requests, s # r PROVE TakesNothingOf(s)
    <3>1. SUFFICES ASSUME request[s].phase = "STORED", request[s].op = "CREATE"
                   PROVE  CleanedUp(request[r]) \cap request[s].created = {}
      BY <2>1 DEF TakesNothingOf
    <3>2. request[r].op # "CREATE"
      BY <2>1, <2>2, <3>1 DEF FilesInv, RecordsOfRequests
    <3>3. request[s].created \cap request[r].created = {}
      BY <2>2, <3>1 DEF FilesInv, UncommittedIsPrivate
    <3> QED BY <3>2, <3>3 DEF CleanedUp
  <2>3. TakesNothingListed /\ LeavesNothing(r)
    BY <2>1 DEF TakesNothingListed, LeavesNothing
  <2> QED BY <2>1, <2>2, <2>3, AnswerStep
<1>13. CASE Crash
  <2>1. /\ request' = [s \in Requests |-> Idle] /\ faults \subseteq faults' /\ faults' # {}
        /\ UNCHANGED <<bookings, rows, disk, lastBooking, lastFile>>
    BY <1>13 DEF Crash, Happens, board
  <2> QED BY <2>1 DEF FilesInv, Held, NamesUsed, UncommittedIsPrivate, DeletedIsGone,
                  RecordsOfRequests, StoredFiles, RowsHaveFiles, Accounted, ChecksHold, Idle
<1>14. ASSUME UNCHANGED <<bookings, rows, disk, lastBooking, lastFile, request, faults>>
       PROVE  FilesInv'
  BY <1>14 DEF FilesInv, Held, NamesUsed, UncommittedIsPrivate, DeletedIsGone,
               RecordsOfRequests, StoredFiles, RowsHaveFiles, Accounted, ChecksHold, InCategory
<1>15. ASSUME NEW k \in Types, NEW s \in Settings, CreateType(k, s) \/ UpdateType(k, s)
       PROVE  FilesInv'
  BY <1>14, <1>15 DEF CreateType, UpdateType
<1>16. ASSUME NEW b \in BookingIds, DayComes(b) PROVE FilesInv'
  BY <1>14, <1>16 DEF DayComes
<1>17. CASE UNCHANGED vars
  BY <1>14, <1>17 DEF vars
<1>18. ASSUME NEW r \in Requests, Refuse(r) \/ TransactionFails(r) PROVE FilesInv'
  BY <1>10, <1>11, <1>18 DEF TransactionFails
<1> QED BY <1>1, <1>2, <1>3, <1>4, <1>5, <1>6, <1>7, <1>8, <1>9, <1>12, <1>13, <1>15, <1>16,
           <1>17, <1>18 DEF Next

LEMMA FilesAlways == Spec => [](TypeOK /\ FilesInv)
<1>1. Init => TypeOK /\ FilesInv
  BY TypeInit, FilesInit
<1>2. TypeOK /\ FilesInv /\ [Next]_vars => (TypeOK /\ FilesInv)'
  BY TypeStep, FilesStep
<1> QED BY <1>1, <1>2, PTL DEF Spec

-----------------------------------------------------------------------------
(* Theorems *)

\* Any number of overlapping uploads, deletions, creations and comments, failed
\* transactions and crashes leave every listed file downloadable.
THEOREM ListedFilesExist == Spec => []RowsHaveFiles
<1>1. FilesInv => RowsHaveFiles
  BY DEF FilesInv, StoredFiles
<1> QED BY <1>1, FilesAlways, PTL

\* While nothing goes wrong no file is left behind, whichever requests overlap.
THEOREM NoFileLeftBehind == Spec => []FilesAreAccountedFor
<1>1. FilesInv => FilesAreAccountedFor
  BY DEF FilesInv, Accounted, FilesAreAccountedFor
<1> QED BY <1>1, FilesAlways, PTL

\* Requests that find a record's date protected only add to its evidence.
THEOREM EvidenceIsKept == Spec => EvidenceStays
<1> DEFINE Kept == \A o \in rows \ rows' : \E r \in Requests :
                      /\ request[r].phase = "STORED" /\ request[r].date = "OPEN"
                      /\ o \in request[r].stale
<1>1. ASSUME TypeOK, FilesInv, [Next]_vars, NEW o \in rows \ rows'
      PROVE  \E r \in Requests : /\ request[r].phase = "STORED" /\ request[r].date = "OPEN"
                                 /\ o \in request[r].stale
  <2>1. PICK r \in Requests : Commit(r)
    BY <1>1 DEF Next, Load, StoreUpload, SelectFiles, StoreComment, BeginCreate, CheckUnused,
                CommitDropType, Finish, Refuse, TransactionFails, RefreshFails, Crash,
                CreateType, UpdateType, DayComes, vars
  <2>2. request[r].phase = "STORED" /\ o \in request[r].stale
    BY <1>1, <2>1 DEF Commit
  <2> QED BY <1>1, <2>2 DEF FilesInv, ChecksHold
<1>2. TypeOK /\ FilesInv /\ [Next]_vars => [Kept]_vars
  BY <1>1
<1>3. EvidenceStays <=> [][Kept]_vars
  BY DEF EvidenceStays
<1> QED BY <1>2, <1>3, FilesAlways, PTL DEF Spec

\* A record is booked together with its required documents, or not at all.
THEOREM BookingsAreComplete == Spec => BookedWithItsDocuments
<1> DEFINE Documented == \A b \in bookings' \ bookings : \E r \in Requests :
                          /\ request[r].booking = b
                          /\ \A k \in request[r].keys :
                                InCategory(OfBooking(rows' \cap disk', b), k) # {}
<1>1. ASSUME TypeOK, FilesInv, [Next]_vars, NEW b \in bookings' \ bookings
      PROVE  \E r \in Requests :
                /\ request[r].booking = b
                /\ \A k \in request[r].keys :
                      InCategory(OfBooking(rows' \cap disk', b), k) # {}
  <2>1. PICK r \in Requests : Commit(r)
    BY <1>1 DEF Next, Load, StoreUpload, SelectFiles, StoreComment, BeginCreate, CheckUnused,
                CommitDropType, Finish, Refuse, TransactionFails, RefreshFails, Crash,
                CreateType, UpdateType, DayComes, vars, board
  <2>2. /\ request[r].phase = "STORED" /\ request[r].op # "DROP_TYPE" /\ request[r].booking = b
        /\ request[r].created \subseteq rows' /\ disk' = disk
    BY <1>1, <2>1 DEF Commit
  <2>3. request[r].op = "CREATE"
    BY <1>1, <2>2 DEF FilesInv, RecordsOfRequests
  <2>4. /\ request[r].created \subseteq disk
        /\ \A o \in request[r].created : o.booking = b
        /\ \A k \in request[r].keys : InCategory(request[r].created, k) # {}
    BY <1>1, <2>2, <2>3 DEF FilesInv, StoredFiles, RecordsOfRequests, ChecksHold
  <2> QED BY <2>2, <2>4 DEF InCategory, OfBooking
<1>2. TypeOK /\ FilesInv /\ [Next]_vars => [Documented]_vars
  BY <1>1
<1>3. BookedWithItsDocuments <=> [][Documented]_vars
  BY DEF BookedWithItsDocuments
<1> QED BY <1>2, <1>3, FilesAlways, PTL DEF Spec
=============================================================================
