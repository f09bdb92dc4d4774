------------------------- MODULE CatalogReleaseProofs -------------------------
(***************************************************************************)
(* Pointer, rows and history agree, releases are immutable and publication *)
(* implements one linear history, for any number of publishers, readers,   *)
(* versions and documents.                                                 *)
(***************************************************************************)
EXTENDS CatalogRelease, TLAPS

-----------------------------------------------------------------------------
(* The inductive invariant.                                                *)

BeforeTransaction == {"idle", "lock"}
BeforeInsert      == BeforeTransaction \cup {"read_pointer", "insert"}
Staged            == {"contents", "retire"}
Retired           == {"activate"}
Activated         == {"upsert", "commit"}

\* One publisher at a time is past its lock statement.
LockIsHeld(p) == pc[p] \notin BeforeTransaction => lock = p

\* The pointer a publisher has read is still the pointer.
PreviousIsPointer(p) ==
    pc[p] \in {"insert"} \cup Staged \cup Retired \cup Activated => previous[p] = pointer

\* What a transaction has written so far: its own row, and the row it retires.
OwnRow(p) ==
    [status |-> IF pc[p] \in Activated THEN "ACTIVE" ELSE "STAGING", document |-> job[p].document]

RetiredPointer(p) ==
    /\ pointer \in DOMAIN writes[p]
    /\ writes[p][pointer] = [release[pointer] EXCEPT !.status = "RETIRED"]

WritesFollowProgram(p) ==
    /\ pc[p] \in BeforeInsert => DOMAIN writes[p] = {}
    /\ pc[p] \in Staged \cup Retired \cup Activated =>
          /\ release[job[p].version] = NoRow
          /\ job[p].version \in DOMAIN writes[p]
          /\ writes[p][job[p].version] = OwnRow(p)
          /\ DOMAIN writes[p] \subseteq {job[p].version, pointer}
    /\ pc[p] \in Staged => DOMAIN writes[p] = {job[p].version}
    /\ pc[p] \in Retired \cup Activated /\ pointer # NoVersion => RetiredPointer(p)

Follows(p) == LockIsHeld(p) /\ PreviousIsPointer(p) /\ WritesFollowProgram(p)

\* The tables hold what the history says was published.
RowsAreTheHistory ==
    /\ \A v \in Version : release[v] # NoRow <=> v \in History!Published
    /\ \A i \in DOMAIN history : release[history[i].version].document = history[i].document
    /\ pointer = History!Pointer

\* Readers only know versions that are there.
ReadersKnowReleases ==
    \A r \in Reader : reader[r] # NoJob => release[reader[r].version] # NoRow

ReleaseInv ==
    /\ TypeOK
    /\ \A p \in Publisher : Follows(p)
    /\ RowsAreTheHistory
    /\ ReadersKnowReleases
    /\ PointerNamesTheActiveRelease
    /\ ReportedVersionLoads
    /\ SoundRefusalIsTruthful

-----------------------------------------------------------------------------
(* Rows, jobs and reports are none of the values that stand for nothing.   *)

Publication == [version  : Version, document : Document,
                previous : Version \cup {NoVersion}]

LEMMA RowIsARow == \A row \in Row : row # NoRow
<1> SUFFICES ASSUME NEW row \in Row PROVE row # NoRow
  OBVIOUS
<1>1. "status" \in DOMAIN row
  BY DEF Row
<1>2. DOMAIN NoRow = {}
  BY DEF NoRow
<1> QED
  BY <1>1, <1>2

LEMMA JobIsAJob == \A j \in Job : j # NoJob
<1> SUFFICES ASSUME NEW j \in Job PROVE j # NoJob
  OBVIOUS
<1>1. "version" \in DOMAIN j
  BY DEF Job
<1>2. DOMAIN NoJob = {}
  BY DEF NoJob
<1> QED
  BY <1>1, <1>2

LEMMA ReportIsAReport ==
    ASSUME NEW v, NEW d, NEW s
    PROVE  /\ [stage |-> s, version |-> v] # NoJob
           /\ [stage |-> s, version |-> v, document |-> d] # NoJob
           /\ [result |-> s, job |-> v] # NoJob
<1>1. DOMAIN NoJob = {}
  BY DEF NoJob
<1>2. "stage" \in DOMAIN [stage |-> s, version |-> v]
  OBVIOUS
<1>3. "stage" \in DOMAIN [stage |-> s, version |-> v, document |-> d]
  OBVIOUS
<1>4. "result" \in DOMAIN [result |-> s, job |-> v]
  OBVIOUS
<1> QED
  BY <1>1, <1>2, <1>3, <1>4

LEMMA NothingIsWritten == DOMAIN NoWrites = {}
  BY DEF NoWrites

\* One more publication: what is published, and what the pointer names.
LEMMA AppendedPublication ==
    ASSUME NEW publication \in Publication, history \in Seq(Publication),
           history' = Append(history, publication)
    PROVE  /\ history' \in Seq(Publication)
           /\ History!Published' = History!Published \cup {publication.version}
           /\ History!Pointer' = publication.version
           /\ \A i \in DOMAIN history' :
                 \/ i \in DOMAIN history /\ history'[i] = history[i]
                 \/ history'[i] = publication
           /\ \A i \in DOMAIN history : i \in DOMAIN history' /\ history'[i] = history[i]
           /\ \E i \in DOMAIN history' : history'[i] = publication
<1>1. /\ history' \in Seq(Publication) /\ Len(history) \in Nat
      /\ DOMAIN history = 1..Len(history) /\ DOMAIN history' = 1..(Len(history) + 1)
      /\ Len(history') = Len(history) + 1
      /\ \A i \in 1..Len(history) : history'[i] = history[i]
      /\ history'[Len(history) + 1] = publication
  OBVIOUS
<1>2. history' # <<>>
  BY <1>1
<1>3. History!Pointer' = publication.version
  BY <1>1, <1>2 DEF History!Pointer
<1>4. \A i \in DOMAIN history' :
         \/ i \in DOMAIN history /\ history'[i] = history[i]
         \/ i = Len(history) + 1 /\ history'[i] = publication
  BY <1>1
<1>5. History!Published' = History!Published \cup {publication.version}
  BY <1>1, <1>4 DEF History!Published
<1> QED
  BY <1>1, <1>3, <1>4, <1>5

-----------------------------------------------------------------------------
(* Types.                                                                  *)

LEMMA InitialTypes == Init => TypeOK
  BY NothingIsWritten DEF Init, TypeOK, Stage

LEMMA VisibleIsTyped ==
    ASSUME TypeOK, NEW p \in Publisher
    PROVE  /\ Visible(p) \in [Version -> Row \cup {NoRow}]
           /\ \A v \in DOMAIN writes[p] : Visible(p)[v] = writes[p][v]
           /\ \A v \in Version \ DOMAIN writes[p] : Visible(p)[v] = release[v]
  BY DEF TypeOK, Visible

LEMMA WriteRowIsTyped ==
    ASSUME TypeOK, NEW p \in Publisher, NEW v \in Version, NEW row \in Row,
           WriteRow(p, v, row)
    PROVE  /\ release' = release
           /\ DOMAIN writes' = Publisher
           /\ \A q \in Publisher \ {p} : writes'[q] = writes[q]
           /\ DOMAIN writes'[p] = DOMAIN writes[p] \cup {v}
           /\ writes'[p][v] = row
           /\ \A u \in DOMAIN writes[p] \ {v} : writes'[p][u] = writes[p][u]
           /\ \A q \in Publisher :
                 /\ DOMAIN writes'[q] \subseteq Version
                 /\ \A u \in DOMAIN writes'[q] : writes'[q][u] \in Row
<1> DEFINE written == [u \in DOMAIN writes[p] \cup {v} |-> IF u = v THEN row ELSE writes[p][u]]
<1>1. writes' = [writes EXCEPT ![p] = written] /\ release' = release
  BY DEF WriteRow
<1>2. /\ DOMAIN written = DOMAIN writes[p] \cup {v}
      /\ written[v] = row
      /\ \A u \in DOMAIN writes[p] \ {v} : written[u] = writes[p][u]
  OBVIOUS
<1> HIDE DEF written
<1>3. /\ DOMAIN writes' = Publisher
      /\ writes'[p] = written
      /\ \A q \in Publisher \ {p} : writes'[q] = writes[q]
  BY <1>1 DEF TypeOK
<1>4. DOMAIN written \subseteq Version /\ \A u \in DOMAIN written : written[u] \in Row
  BY <1>2 DEF TypeOK
<1>5. \A q \in Publisher :
         /\ DOMAIN writes'[q] \subseteq Version
         /\ \A u \in DOMAIN writes'[q] : writes'[q][u] \in Row
  BY <1>3, <1>4 DEF TypeOK
<1> QED
  BY <1>1, <1>2, <1>3, <1>5

LEMMA EndIsTyped ==
    ASSUME TypeOK, NEW p \in Publisher, EndTransaction(p)
    PROVE  /\ lock' \in Publisher \cup {NoPublisher}
           /\ pc' \in [Publisher -> Stage] /\ pc'[p] = "idle"
           /\ job' \in [Publisher -> Job \cup {NoJob}]
           /\ \A q \in Publisher : pc'[q] # "idle" => job'[q] # NoJob
           /\ previous' \in [Publisher -> Version \cup {NoVersion}]
           /\ DOMAIN writes' = Publisher /\ DOMAIN writes'[p] = {}
           /\ \A q \in Publisher :
                 /\ DOMAIN writes'[q] \subseteq Version
                 /\ \A v \in DOMAIN writes'[q] : writes'[q][v] \in Row
           /\ \A q \in Publisher \ {p} : /\ pc'[q] = pc[q] /\ job'[q] = job[q]
                                         /\ previous'[q] = previous[q] /\ writes'[q] = writes[q]
           /\ \A q \in Publisher \ {p} : lock = q => lock' = q
<1>1. DOMAIN writes' = Publisher /\ DOMAIN writes'[p] = {}
        /\ \A q \in Publisher \ {p} : writes'[q] = writes[q]
  BY NothingIsWritten DEF EndTransaction, TypeOK
<1>2. \A q \in Publisher :
         /\ DOMAIN writes'[q] \subseteq Version
         /\ \A v \in DOMAIN writes'[q] : writes'[q][v] \in Row
  BY <1>1 DEF TypeOK
<1>3. lock' \in Publisher \cup {NoPublisher} /\ \A q \in Publisher \ {p} : lock = q => lock' = q
  BY DEF EndTransaction, ReleaseLock, TypeOK
<1>4. /\ pc' \in [Publisher -> Stage] /\ pc'[p] = "idle"
      /\ job' \in [Publisher -> Job \cup {NoJob}]
      /\ previous' \in [Publisher -> Version \cup {NoVersion}]
      /\ \A q \in Publisher \ {p} : pc'[q] = pc[q] /\ job'[q] = job[q] /\ previous'[q] = previous[q]
  BY DEF EndTransaction, Goto, Stage, TypeOK
<1> QED
  BY <1>1, <1>2, <1>3, <1>4 DEF TypeOK

LEMMA RefusalIsTyped ==
    ASSUME TypeOK, NEW p \in Publisher, pc[p] # "idle", RefuseAsExisting(p),
           reader' = reader, history' = history
    PROVE  TypeOK'
<1>1. job[p] \in Job
  BY DEF TypeOK
<1>2. outcome' \in [Publisher -> {NoJob} \cup [result : {"exists", "published"}, job : Job]]
  BY <1>1 DEF RefuseAsExisting, TypeOK
<1>3. EndTransaction(p) /\ release' = release /\ pointer' = pointer
  BY DEF RefuseAsExisting
<1> QED
  BY <1>2, <1>3, EndIsTyped DEF TypeOK

LEMMA UpdatedRow ==
    ASSUME NEW row \in Row, NEW status \in Status
    PROVE  /\ [row EXCEPT !.status = status] \in Row
           /\ [row EXCEPT !.status = status].status = status
           /\ [row EXCEPT !.status = status].document = row.document
           /\ [row EXCEPT !.status = status] = [status |-> status, document |-> row.document]
  BY DEF Row

LEMMA TypesAreKept == ReleaseInv /\ [Next]_vars => TypeOK'
<1> SUFFICES ASSUME TypeOK, \A p \in Publisher : WritesFollowProgram(p), [Next]_vars
             PROVE  TypeOK'
  BY DEF ReleaseInv, Follows
<1>1. CASE UNCHANGED vars
  BY <1>1 DEF TypeOK, vars, publishers
<1>2. ASSUME NEW p \in Publisher, NEW v \in Version, NEW d \in Document, Publish(p, v, d)
      PROVE  TypeOK'
  <2>1. [version |-> v, document |-> d] \in Job
    BY DEF Job
  <2>2. job' \in [Publisher -> Job \cup {NoJob}]
    BY <1>2, <2>1 DEF Publish, TypeOK
  <2>3. pc' \in [Publisher -> Stage] /\ outcome' \in [Publisher -> {NoJob} \cup
                                       [result : {"exists", "published"}, job : Job]]
    BY <1>2 DEF Publish, Goto, Stage, TypeOK
  <2>4. \A q \in Publisher : pc'[q] # "idle" => job'[q] # NoJob
    BY <1>2, <2>1, JobIsAJob DEF Publish, Goto, TypeOK
  <2> QED
    BY <1>2, <2>2, <2>3, <2>4 DEF Publish, TypeOK
<1>3. ASSUME NEW p \in Publisher, NEW stage \in Stage, pc[p] # "idle", Goto(p, stage)
      PROVE  pc' \in [Publisher -> Stage] /\ \A q \in Publisher : pc'[q] # "idle" => pc[q] # "idle"
  BY <1>3 DEF Goto, TypeOK
<1>4. ASSUME NEW p \in Publisher, LockPublication(p) \/ ReadPointer(p) \/ UpsertPointer(p)
      PROVE  TypeOK'
  <2>1. CASE LockPublication(p)
    BY <1>3, <2>1 DEF LockPublication, TypeOK, Stage
  <2>2. CASE ReadPointer(p)
    BY <1>3, <2>2 DEF ReadPointer, TypeOK, Stage
  <2>3. CASE UpsertPointer(p)
    BY <1>3, <2>3 DEF UpsertPointer, TypeOK, Stage
  <2> QED
    BY <1>4, <2>1, <2>2, <2>3
<1>5. ASSUME NEW p \in Publisher, NEW stage \in Stage, pc[p] # "idle", Goto(p, stage),
             NEW v \in Version, NEW row \in Row, WriteRow(p, v, row),
             UNCHANGED <<pointer, lock, job, previous, outcome, reader, history>>
      PROVE  TypeOK'
  BY <1>3, <1>5, WriteRowIsTyped DEF TypeOK
<1>6. ASSUME NEW p \in Publisher, pc[p] # "idle"
      PROVE  job[p] \in Job /\ job[p].version \in Version /\ job[p].document \in Document
  BY <1>6 DEF TypeOK, Job
<1>7. ASSUME NEW p \in Publisher, InsertStaging(p) PROVE TypeOK'
  <2> DEFINE row == [status |-> "STAGING", document |-> job[p].document]
  <2>1. pc[p] # "idle" /\ UNCHANGED <<reader, history>>
    BY <1>7 DEF InsertStaging
  <2>2. CASE release[job[p].version] = NoRow
    <3>1. row \in Row /\ "contents" \in Stage
      BY <1>6, <2>1 DEF Row, Status, Stage
    <3>2. WriteRow(p, job[p].version, row) /\ Goto(p, "contents")
            /\ UNCHANGED <<pointer, lock, job, previous, outcome>>
      BY <1>7, <2>2 DEF InsertStaging
    <3> QED
      BY <1>5, <1>6, <2>1, <3>1, <3>2
  <2>3. CASE release[job[p].version] # NoRow
    BY <1>7, <2>1, <2>3, RefusalIsTyped DEF InsertStaging
  <2> QED
    BY <2>2, <2>3
<1>8. ASSUME NEW p \in Publisher, InsertContents(p) PROVE TypeOK'
  <2>1. CASE BreaksContentKey(job[p].document)
    BY <1>8, <2>1, RefusalIsTyped DEF InsertContents
  <2>2. CASE ~ BreaksContentKey(job[p].document)
    BY <1>3, <1>8, <2>2 DEF InsertContents, TypeOK, Stage
  <2> QED
    BY <2>1, <2>2
<1>9. ASSUME NEW p \in Publisher, RetirePrevious(p) PROVE TypeOK'
  <2>1. /\ pc[p] # "idle" /\ Goto(p, "activate") /\ "activate" \in Stage
        /\ UNCHANGED <<pointer, lock, job, previous, outcome, reader, history>>
    BY <1>9 DEF RetirePrevious, Stage
  <2>2. ASSUME NEW v \in RowsToRetire(p),
               WriteRow(p, v, [Visible(p)[v] EXCEPT !.status = "RETIRED"])
        PROVE  TypeOK'
    <3>1. v \in Version /\ Visible(p)[v] \in Row
      BY <2>2, VisibleIsTyped DEF RowsToRetire, HasStatus
    <3>2. [Visible(p)[v] EXCEPT !.status = "RETIRED"] \in Row
      BY <3>1, UpdatedRow DEF Status
    <3> QED
      BY <1>5, <2>1, <2>2, <3>1, <3>2
  <2>3. CASE UNCHANGED <<release, writes>>
    BY <1>3, <2>1, <2>3 DEF TypeOK
  <2> QED
    BY <1>9, <2>2, <2>3 DEF RetirePrevious
<1>10. ASSUME NEW p \in Publisher, Activate(p) PROVE TypeOK'
  <2> DEFINE v == job[p].version
  <2>1. pc[p] # "idle" /\ UNCHANGED <<reader, history>>
    BY <1>10 DEF Activate
  <2>2. CASE ActiveRowsBesides(p, v) = {}
    <3>1. WriteRow(p, v, [Visible(p)[v] EXCEPT !.status = "ACTIVE"]) /\ Goto(p, "upsert")
            /\ UNCHANGED <<pointer, lock, job, previous, outcome>>
      BY <1>10, <2>2 DEF Activate
    <3>2. v \in Version /\ v \in DOMAIN writes[p]
      BY <1>6, <1>10, <2>1 DEF Activate, WritesFollowProgram, Retired
    <3>3. Visible(p)[v] \in Row
      BY <3>2, VisibleIsTyped DEF TypeOK
    <3>4. [Visible(p)[v] EXCEPT !.status = "ACTIVE"] \in Row /\ "upsert" \in Stage
      BY <3>3, UpdatedRow DEF Status, Stage
    <3> QED
      BY <1>5, <2>1, <3>1, <3>2, <3>4
  <2>3. CASE ActiveRowsBesides(p, v) # {}
    BY <1>10, <2>1, <2>3, RefusalIsTyped DEF Activate
  <2> QED
    BY <2>2, <2>3
<1>11. ASSUME NEW p \in Publisher, Commit(p) PROVE TypeOK'
  <2>1. /\ release' = Visible(p) /\ pointer' = job[p].version
        /\ reader' = reader /\ EndTransaction(p)
    BY <1>11 DEF Commit
  <2>2. job[p] \in Job /\ job[p].version \in Version /\ job[p].document \in Document
    BY <1>6, <1>11 DEF Commit
  <2>3. release' \in [Version -> Row \cup {NoRow}]
    BY <2>1, VisibleIsTyped
  <2>4. outcome' \in [Publisher -> {NoJob} \cup [result : {"exists", "published"}, job : Job]]
    BY <1>11, <2>2 DEF Commit, TypeOK
  <2>5. history' \in Seq(Publication)
    <3>1. [version |-> job[p].version, document |-> job[p].document, previous |-> previous[p]]
             \in Publication
      BY <2>2 DEF Publication, TypeOK
    <3> QED
      BY <1>11, <3>1 DEF Commit, TypeOK, Publication
  <2> QED
    BY <2>1, <2>2, <2>3, <2>4, <2>5, EndIsTyped DEF TypeOK, Publication
<1>12. ASSUME NEW p \in Publisher, Abort(p) PROVE TypeOK'
  BY <1>12, EndIsTyped DEF Abort, TypeOK
<1>13. ASSUME NEW r \in Reader, ReadActiveVersion(r) PROVE TypeOK'
  <2>1. reader' = [reader EXCEPT ![r] = [stage |-> "load", version |-> pointer]]
          /\ pointer \in Version
    BY <1>13 DEF ReadActiveVersion, TypeOK
  <2>2. UNCHANGED <<release, pointer, publishers, history>>
    BY <1>13 DEF ReadActiveVersion
  <2> QED
    BY <2>1, <2>2 DEF TypeOK, publishers
<1>14. ASSUME NEW r \in Reader, Load(r) PROVE TypeOK'
  <2> DEFINE row == release[reader[r].version]
             report == IF row # NoRow /\ row.status \in Loadable
                       THEN [stage |-> "loaded", version |-> reader[r].version,
                             document |-> row.document]
                       ELSE [stage |-> "key_error", version |-> reader[r].version]
  <2>1. reader' = [reader EXCEPT ![r] = report]
          /\ UNCHANGED <<release, pointer, publishers, history>>
    BY <1>14 DEF Load
  <2>2. reader[r].version \in Version
    BY <1>14 DEF Load, TypeOK
  <2>3. row # NoRow => row.document \in Document
    BY <2>2 DEF TypeOK, Row
  <2>4. report \in [stage : {"load", "key_error"}, version : Version]
                     \cup [stage : {"loaded"}, version : Version, document : Document]
    BY <2>2, <2>3
  <2> HIDE DEF report
  <2> QED
    BY <2>1, <2>4 DEF TypeOK, publishers
<1> QED
  BY <1>1, <1>2, <1>4, <1>7, <1>8, <1>9, <1>10, <1>11, <1>12, <1>13, <1>14 DEF Next, PublisherStep

-----------------------------------------------------------------------------
(* What a step leaves alone stays in order.                                *)

LEMMA InitialInv == Init => ReleaseInv
<1> SUFFICES ASSUME Init PROVE ReleaseInv
  OBVIOUS
<1>1. TypeOK
  BY InitialTypes
<1>2. \A p \in Publisher : Follows(p)
  BY NothingIsWritten
     DEF Init, Follows, LockIsHeld, PreviousIsPointer, WritesFollowProgram,
         BeforeTransaction, BeforeInsert, Staged, Retired, Activated
<1>3. RowsAreTheHistory
  BY DEF Init, RowsAreTheHistory, History!Published, History!Pointer
<1>4. PointerNamesTheActiveRelease
  BY ReleaseAssumption DEF Init, PointerNamesTheActiveRelease, HasStatus
<1>5. ReadersKnowReleases /\ ReportedVersionLoads /\ SoundRefusalIsTruthful
  BY DEF Init, ReadersKnowReleases, ReportedVersionLoads, SoundRefusalIsTruthful, Refused
<1> QED
  BY <1>1, <1>2, <1>3, <1>4, <1>5 DEF ReleaseInv

LEMMA TablesStay ==
    ASSUME ReleaseInv, UNCHANGED <<release, pointer, history>>
    PROVE  RowsAreTheHistory' /\ PointerNamesTheActiveRelease'
<1>1. History!Published' = History!Published /\ History!Pointer' = History!Pointer
  BY DEF History!Published, History!Pointer
<1> QED
  BY <1>1 DEF ReleaseInv, RowsAreTheHistory, PointerNamesTheActiveRelease, HasStatus

LEMMA ReadersStay ==
    ASSUME ReleaseInv, UNCHANGED <<release, reader, history>>
    PROVE  ReadersKnowReleases' /\ ReportedVersionLoads'
  BY DEF ReleaseInv, ReadersKnowReleases, ReportedVersionLoads

LEMMA RefusalsStay ==
    ASSUME ReleaseInv, UNCHANGED <<release, outcome>>
    PROVE  SoundRefusalIsTruthful'
  BY DEF ReleaseInv, SoundRefusalIsTruthful, Refused, BreaksContentKey

\* Who waits for the lock is not concerned, and who is past it is alone.
LEMMA OnlyOnePublishes ==
    ASSUME ReleaseInv, NEW p \in Publisher, pc[p] \notin BeforeTransaction
    PROVE  lock = p /\ \A q \in Publisher \ {p} : pc[q] \in BeforeTransaction
  BY DEF ReleaseInv, Follows, LockIsHeld

LEMMA OthersFollow ==
    ASSUME ReleaseInv, NEW p \in Publisher, NEW q \in Publisher \ {p},
           pc'[q] = pc[q], job'[q] = job[q], previous'[q] = previous[q], writes'[q] = writes[q],
           \/ pc[q] \in BeforeTransaction
           \/ release' = release /\ pointer' = pointer /\ (lock = q => lock' = q)
    PROVE  Follows(q)'
<1>1. Follows(q)
  BY DEF ReleaseInv
<1>2. CASE pc[q] \in BeforeTransaction
  BY <1>1, <1>2 DEF Follows, LockIsHeld, PreviousIsPointer, WritesFollowProgram,
                    BeforeTransaction, BeforeInsert, Staged, Retired, Activated
<1>3. CASE release' = release /\ pointer' = pointer /\ (lock = q => lock' = q)
  BY <1>1, <1>3 DEF Follows, LockIsHeld, PreviousIsPointer, WritesFollowProgram,
                    OwnRow, RetiredPointer
<1> QED
  BY <1>2, <1>3

\* A transaction that has ended follows its program, whatever it was.
LEMMA EndsFollow ==
    ASSUME ReleaseInv, NEW p \in Publisher, EndTransaction(p),
           \/ release' = release /\ pointer' = pointer
           \/ pc[p] \notin BeforeTransaction
    PROVE  \A q \in Publisher : Follows(q)'
<1>1. pc'[p] = "idle" /\ DOMAIN writes'[p] = {}
  BY EndIsTyped DEF ReleaseInv
<1>2. Follows(p)'
  BY <1>1 DEF Follows, LockIsHeld, PreviousIsPointer, WritesFollowProgram,
              BeforeTransaction, BeforeInsert, Staged, Retired, Activated
<1>3. ASSUME NEW q \in Publisher \ {p} PROVE Follows(q)'
  <2>1. /\ pc'[q] = pc[q] /\ job'[q] = job[q]
        /\ previous'[q] = previous[q] /\ writes'[q] = writes[q]
        /\ lock = q => lock' = q
    BY EndIsTyped DEF ReleaseInv
  <2>2. \/ pc[q] \in BeforeTransaction
        \/ release' = release /\ pointer' = pointer /\ (lock = q => lock' = q)
    BY <2>1, OnlyOnePublishes
  <2> QED
    BY <2>1, <2>2, OthersFollow
<1> QED
  BY <1>2, <1>3

\* A refusal is truthful when the version is there or a reference repeats.
LEMMA RefusalKeepsInv ==
    ASSUME ReleaseInv, NEW p \in Publisher, pc[p] # "idle", RefuseAsExisting(p),
           UNCHANGED <<reader, history>>,
           release[job[p].version] # NoRow \/ BreaksContentKey(job[p].document)
    PROVE  ReleaseInv'
<1>1. TypeOK'
  BY RefusalIsTyped DEF ReleaseInv
<1>2. UNCHANGED <<release, pointer>> /\ EndTransaction(p)
        /\ outcome' = [outcome EXCEPT ![p] = [result |-> "exists", job |-> job[p]]]
  BY DEF RefuseAsExisting
<1>3. SoundRefusalIsTruthful'
  BY <1>2 DEF ReleaseInv, TypeOK, SoundRefusalIsTruthful, Refused, BreaksContentKey
<1> QED
  BY <1>1, <1>2, <1>3, EndsFollow, TablesStay, ReadersStay DEF ReleaseInv

-----------------------------------------------------------------------------
(* The statements of a transaction, one lemma each.                        *)

\* A statement writes no table that others see; it keeps the invariant when
\* its transaction goes on as the program says.
LEMMA StatementKeepsInv ==
    ASSUME ReleaseInv, [Next]_vars, NEW p \in Publisher,
           UNCHANGED <<release, pointer, outcome, reader, history>>,
           \A q \in Publisher \ {p} : /\ pc'[q] = pc[q] /\ job'[q] = job[q]
                                      /\ previous'[q] = previous[q] /\ writes'[q] = writes[q],
           \A q \in Publisher \ {p} : lock = q => lock' = q,
           Follows(p)'
    PROVE  ReleaseInv'
<1>1. \A q \in Publisher : Follows(q)'
  BY OthersFollow
<1> QED
  BY <1>1, TypesAreKept, TablesStay, ReadersStay, RefusalsStay DEF ReleaseInv

LEMMA PublishKeepsInv ==
    ASSUME ReleaseInv, [Next]_vars,
           NEW p \in Publisher, NEW v \in Version, NEW d \in Document, Publish(p, v, d)
    PROVE  ReleaseInv'
<1>1. /\ pc[p] = "idle" /\ pc'[p] = "lock"
      /\ UNCHANGED <<release, pointer, lock, previous, writes, reader, history>>
      /\ \A q \in Publisher \ {p} : pc'[q] = pc[q] /\ job'[q] = job[q]
  BY DEF Publish, Goto, ReleaseInv, TypeOK
<1>2. DOMAIN writes[p] = {}
  BY <1>1 DEF ReleaseInv, Follows, WritesFollowProgram, BeforeInsert, BeforeTransaction
<1>3. Follows(p)'
  BY <1>1, <1>2 DEF Follows, LockIsHeld, PreviousIsPointer, WritesFollowProgram,
                    BeforeTransaction, BeforeInsert, Staged, Retired, Activated
<1>4. SoundRefusalIsTruthful'
  <2>1. outcome' = [outcome EXCEPT ![p] = NoJob]
    BY DEF Publish
  <2> QED
    BY <1>1, <2>1 DEF ReleaseInv, TypeOK, SoundRefusalIsTruthful, Refused, BreaksContentKey
<1>5. \A q \in Publisher : Follows(q)'
  BY <1>1, <1>3, OthersFollow
<1> QED
  BY <1>1, <1>4, <1>5, TypesAreKept, TablesStay, ReadersStay DEF ReleaseInv

LEMMA LockKeepsInv ==
    ASSUME ReleaseInv, [Next]_vars, NEW p \in Publisher, LockPublication(p)
    PROVE  ReleaseInv'
<1>1. /\ pc[p] = "lock" /\ pc'[p] = "read_pointer" /\ lock = NoPublisher /\ lock' = p
      /\ UNCHANGED <<release, pointer, job, previous, writes, outcome, reader, history>>
      /\ \A q \in Publisher \ {p} : pc'[q] = pc[q]
  BY DEF LockPublication, Goto, ReleaseInv, TypeOK
<1>2. DOMAIN writes[p] = {}
  BY <1>1 DEF ReleaseInv, Follows, WritesFollowProgram, BeforeInsert, BeforeTransaction
<1>3. Follows(p)'
  BY <1>1, <1>2 DEF Follows, LockIsHeld, PreviousIsPointer, WritesFollowProgram,
                    BeforeTransaction, BeforeInsert, Staged, Retired, Activated
<1> QED
  BY <1>1, <1>3, StatementKeepsInv, ReleaseAssumption

LEMMA ReadPointerKeepsInv ==
    ASSUME ReleaseInv, [Next]_vars, NEW p \in Publisher, ReadPointer(p)
    PROVE  ReleaseInv'
<1>1. /\ pc[p] = "read_pointer" /\ pc'[p] = "insert" /\ previous'[p] = pointer
      /\ UNCHANGED <<release, pointer, lock, job, writes, outcome, reader, history>>
      /\ \A q \in Publisher \ {p} : pc'[q] = pc[q] /\ previous'[q] = previous[q]
  BY DEF ReadPointer, Goto, ReleaseInv, TypeOK
<1>2. DOMAIN writes[p] = {} /\ lock = p
  BY <1>1 DEF ReleaseInv, Follows, LockIsHeld, WritesFollowProgram, BeforeInsert, BeforeTransaction
<1>3. Follows(p)'
  BY <1>1, <1>2 DEF Follows, LockIsHeld, PreviousIsPointer, WritesFollowProgram,
                    BeforeTransaction, BeforeInsert, Staged, Retired, Activated
<1> QED
  BY <1>1, <1>3, StatementKeepsInv

LEMMA InsertStagingKeepsInv ==
    ASSUME ReleaseInv, [Next]_vars, NEW p \in Publisher, InsertStaging(p)
    PROVE  ReleaseInv'
<1> DEFINE v   == job[p].version
           row == [status |-> "STAGING", document |-> job[p].document]
<1>1. pc[p] = "insert" /\ TypeOK /\ UNCHANGED <<reader, history>>
  BY DEF InsertStaging, ReleaseInv
<1>2. v \in Version /\ row \in Row
  BY <1>1 DEF TypeOK, Job, Row, Status
<1>3. CASE release[v] # NoRow
  <2>1. RefuseAsExisting(p)
    BY <1>3 DEF InsertStaging
  <2> QED
    BY <1>1, <1>3, <2>1, RefusalKeepsInv
<1>4. CASE release[v] = NoRow
  <2>1. /\ WriteRow(p, v, row) /\ Goto(p, "contents")
        /\ UNCHANGED <<pointer, lock, job, previous, outcome>>
    BY <1>4 DEF InsertStaging
  <2>2. /\ pc'[p] = "contents" /\ \A q \in Publisher \ {p} : pc'[q] = pc[q]
    BY <1>1, <2>1 DEF Goto, TypeOK
  <2>3. /\ release' = release
        /\ \A q \in Publisher \ {p} : writes'[q] = writes[q]
        /\ DOMAIN writes'[p] = DOMAIN writes[p] \cup {v} /\ writes'[p][v] = row
    BY <1>1, <1>2, <2>1, WriteRowIsTyped
  <2>4. DOMAIN writes[p] = {} /\ lock = p /\ previous[p] = pointer
    BY <1>1 DEF ReleaseInv, Follows, LockIsHeld, PreviousIsPointer, WritesFollowProgram,
                BeforeInsert, BeforeTransaction
  <2>5. Follows(p)'
    <3>1. DOMAIN writes'[p] = {v}
      BY <2>3, <2>4
    <3>2. OwnRow(p)' = row
      BY <2>1, <2>2 DEF OwnRow, Activated
    <3> HIDE DEF row
    <3> QED
      BY <1>4, <2>1, <2>2, <2>3, <2>4, <3>1, <3>2
         DEF Follows, LockIsHeld, PreviousIsPointer, WritesFollowProgram,
             BeforeTransaction, BeforeInsert, Staged, Retired, Activated
  <2> QED
    BY <1>1, <2>1, <2>2, <2>3, <2>5, StatementKeepsInv
<1> QED
  BY <1>3, <1>4

LEMMA InsertContentsKeepsInv ==
    ASSUME ReleaseInv, [Next]_vars, NEW p \in Publisher, InsertContents(p)
    PROVE  ReleaseInv'
<1>1. pc[p] = "contents" /\ UNCHANGED <<reader, history>>
  BY DEF InsertContents
<1>2. CASE BreaksContentKey(job[p].document)
  BY <1>1, <1>2, RefusalKeepsInv DEF InsertContents
<1>3. CASE ~ BreaksContentKey(job[p].document)
  <2>1. /\ pc'[p] = "retire" /\ \A q \in Publisher \ {p} : pc'[q] = pc[q]
        /\ UNCHANGED <<release, pointer, lock, job, previous, writes, outcome>>
    BY <1>3 DEF InsertContents, Goto, ReleaseInv, TypeOK
  <2>2. Follows(p) /\ OwnRow(p)' = OwnRow(p)
    BY <1>1, <2>1 DEF ReleaseInv, OwnRow, Activated
  <2>3. Follows(p)'
    BY <1>1, <2>1, <2>2
       DEF Follows, LockIsHeld, PreviousIsPointer, WritesFollowProgram,
           BeforeTransaction, BeforeInsert, Staged, Retired, Activated
  <2> QED
    BY <1>1, <2>1, <2>3, StatementKeepsInv
<1> QED
  BY <1>2, <1>3

LEMMA RetireKeepsInv ==
    ASSUME ReleaseInv, [Next]_vars, NEW p \in Publisher, RetirePrevious(p)
    PROVE  ReleaseInv'
<1> DEFINE v == job[p].version
<1>1. /\ TypeOK /\ pc[p] = "retire" /\ pc'[p] = "activate"
      /\ \A q \in Publisher \ {p} : pc'[q] = pc[q]
      /\ UNCHANGED <<pointer, lock, job, previous, outcome, reader, history>>
  BY DEF RetirePrevious, Goto, ReleaseInv, TypeOK
<1>2. v \in Version
  BY <1>1 DEF TypeOK, Job
<1>3. /\ lock = p /\ previous[p] = pointer
      /\ release[v] = NoRow /\ DOMAIN writes[p] = {v} /\ writes[p][v] = OwnRow(p)
  BY <1>1 DEF ReleaseInv, Follows, LockIsHeld, PreviousIsPointer, WritesFollowProgram,
              BeforeTransaction, Staged
<1>4. OwnRow(p)' = OwnRow(p)
  BY <1>1 DEF OwnRow, Activated
<1>5. CASE pointer = NoVersion
  <2>1. RowsToRetire(p) = {}
    BY <1>3, <1>5, ReleaseAssumption DEF RowsToRetire
  <2>2. UNCHANGED <<release, writes>>
    BY <2>1 DEF RetirePrevious
  <2>3. Follows(p)'
    BY <1>1, <1>3, <1>4, <1>5, <2>2
       DEF Follows, LockIsHeld, PreviousIsPointer, WritesFollowProgram,
           BeforeTransaction, BeforeInsert, Staged, Retired, Activated
  <2> QED
    BY <1>1, <2>2, <2>3, StatementKeepsInv
<1>6. CASE pointer # NoVersion
  <2> DEFINE row == [release[pointer] EXCEPT !.status = "RETIRED"]
  <2>1. pointer \in Version /\ HasStatus(release[pointer], "ACTIVE") /\ pointer # v
    BY <1>1, <1>3, <1>6 DEF ReleaseInv, TypeOK, PointerNamesTheActiveRelease, HasStatus
  <2>2. Visible(p)[pointer] = release[pointer] /\ release[pointer] \in Row
    BY <1>1, <1>3, <2>1, VisibleIsTyped DEF TypeOK, HasStatus
  <2>3. RowsToRetire(p) = {pointer}
    BY <1>3, <2>1, <2>2 DEF RowsToRetire
  <2>4. WriteRow(p, pointer, row)
    BY <2>2, <2>3 DEF RetirePrevious
  <2>5. row \in Row
    BY <2>2, UpdatedRow DEF Status
  <2>6. /\ release' = release
        /\ \A q \in Publisher \ {p} : writes'[q] = writes[q]
        /\ DOMAIN writes'[p] = {v, pointer}
        /\ writes'[p][pointer] = row /\ writes'[p][v] = writes[p][v]
    BY <1>1, <1>3, <2>1, <2>4, <2>5, WriteRowIsTyped
  <2> HIDE DEF row
  <2>7. RetiredPointer(p)'
    BY <1>1, <2>6 DEF RetiredPointer, row
  <2>8. Follows(p)'
    BY <1>1, <1>3, <1>4, <2>6, <2>7
       DEF Follows, LockIsHeld, PreviousIsPointer, WritesFollowProgram,
           BeforeTransaction, BeforeInsert, Staged, Retired, Activated
  <2> QED
    BY <1>1, <2>6, <2>8, StatementKeepsInv
<1> QED
  BY <1>5, <1>6

\* What the publisher sees before it activates: no ACTIVE row but its own.
LEMMA NothingElseIsActive ==
    ASSUME ReleaseInv, NEW p \in Publisher, pc[p] \in Retired \cup Activated
    PROVE  ActiveRowsBesides(p, job[p].version) = {}
<1> DEFINE v == job[p].version
<1> SUFFICES ASSUME NEW u \in Version \ {v}, HasStatus(Visible(p)[u], "ACTIVE")
             PROVE  FALSE
  BY DEF ActiveRowsBesides
<1>1. TypeOK /\ WritesFollowProgram(p)
  BY DEF ReleaseInv, Follows
<1>2. CASE u \in DOMAIN writes[p]
  <2>1. u = pointer /\ pointer # NoVersion
    BY <1>1, <1>2, ReleaseAssumption DEF WritesFollowProgram
  <2>2. release[pointer] \in Row
    BY <1>1, <2>1 DEF ReleaseInv, TypeOK, PointerNamesTheActiveRelease, HasStatus
  <2>3. writes[p][u] = [release[pointer] EXCEPT !.status = "RETIRED"]
    BY <1>1, <2>1 DEF WritesFollowProgram, RetiredPointer
  <2>4. writes[p][u].status = "RETIRED"
    BY <2>2, <2>3, UpdatedRow DEF Status
  <2> QED
    BY <1>1, <1>2, <2>4, VisibleIsTyped DEF HasStatus
<1>3. CASE u \notin DOMAIN writes[p]
  <2>1. HasStatus(release[u], "ACTIVE")
    BY <1>1, <1>3, VisibleIsTyped
  <2>2. u = pointer /\ pointer # NoVersion
    BY <2>1, ReleaseAssumption DEF ReleaseInv, PointerNamesTheActiveRelease
  <2>3. RetiredPointer(p)
    BY <1>1, <2>2 DEF WritesFollowProgram
  <2> QED
    BY <1>3, <2>2, <2>3 DEF RetiredPointer
<1> QED
  BY <1>2, <1>3

LEMMA ActivateKeepsInv ==
    ASSUME ReleaseInv, [Next]_vars, NEW p \in Publisher, Activate(p)
    PROVE  ReleaseInv'
<1> DEFINE v   == job[p].version
           row == [Visible(p)[v] EXCEPT !.status = "ACTIVE"]
<1>1. TypeOK /\ pc[p] = "activate" /\ UNCHANGED <<reader, history>>
  BY DEF Activate, ReleaseInv
<1>2. ActiveRowsBesides(p, v) = {}
  BY <1>1, NothingElseIsActive DEF Retired
<1>3. /\ WriteRow(p, v, row) /\ Goto(p, "upsert")
      /\ UNCHANGED <<pointer, lock, job, previous, outcome>>
  BY <1>2 DEF Activate
<1>4. /\ pc'[p] = "upsert" /\ \A q \in Publisher \ {p} : pc'[q] = pc[q]
  BY <1>1, <1>3 DEF Goto, TypeOK
<1>5. v \in Version /\ job[p].document \in Document
  BY <1>1 DEF TypeOK, Job
<1>6. /\ lock = p /\ previous[p] = pointer
      /\ release[v] = NoRow /\ v \in DOMAIN writes[p] /\ writes[p][v] = OwnRow(p)
      /\ DOMAIN writes[p] \subseteq {v, pointer}
      /\ pointer # NoVersion => RetiredPointer(p)
  BY <1>1 DEF ReleaseInv, Follows, LockIsHeld, PreviousIsPointer, WritesFollowProgram,
              BeforeTransaction, Retired
<1>7. row \in Row /\ row = OwnRow(p)'
  <2>1. Visible(p)[v] = OwnRow(p) /\ OwnRow(p) \in Row
    BY <1>1, <1>5, <1>6, VisibleIsTyped DEF OwnRow, Row, Status
  <2>2. OwnRow(p)' = [status |-> "ACTIVE", document |-> job[p].document]
    BY <1>3, <1>4 DEF OwnRow, Activated
  <2>3. OwnRow(p).document = job[p].document
    BY DEF OwnRow
  <2> QED
    BY <2>1, <2>2, <2>3, UpdatedRow DEF Status
<1> HIDE DEF row
<1>8. /\ release' = release
      /\ \A q \in Publisher \ {p} : writes'[q] = writes[q]
      /\ DOMAIN writes'[p] = DOMAIN writes[p]
      /\ writes'[p][v] = row
      /\ \A u \in DOMAIN writes[p] \ {v} : writes'[p][u] = writes[p][u]
  <2>1. WriteRow(p, v, row)
    BY <1>3
  <2>2. v \in DOMAIN writes[p]
    BY <1>6
  <2> HIDE DEF v
  <2>3. DOMAIN writes'[p] = DOMAIN writes[p] \cup {v}
    BY <1>1, <1>5, <1>7, <2>1, WriteRowIsTyped
  <2> QED
    BY <1>1, <1>5, <1>7, <2>1, <2>2, <2>3, WriteRowIsTyped
<1>9. pointer # NoVersion => RetiredPointer(p)'
  <2>1. pointer # NoVersion => release[pointer] # NoRow
    BY <1>1 DEF ReleaseInv, TypeOK, PointerNamesTheActiveRelease, HasStatus
  <2> QED
    BY <1>3, <1>6, <1>8, <2>1 DEF RetiredPointer
<1>10. Follows(p)'
  BY <1>1, <1>3, <1>4, <1>6, <1>7, <1>8, <1>9
     DEF Follows, LockIsHeld, PreviousIsPointer, WritesFollowProgram,
         BeforeTransaction, BeforeInsert, Staged, Retired, Activated
<1> QED
  BY <1>1, <1>3, <1>4, <1>8, <1>10, StatementKeepsInv

LEMMA UpsertKeepsInv ==
    ASSUME ReleaseInv, [Next]_vars, NEW p \in Publisher, UpsertPointer(p)
    PROVE  ReleaseInv'
<1>1. /\ pc[p] = "upsert" /\ pc'[p] = "commit"
      /\ \A q \in Publisher \ {p} : pc'[q] = pc[q]
      /\ UNCHANGED <<release, pointer, lock, job, previous, writes, outcome, reader, history>>
  BY DEF UpsertPointer, Goto, ReleaseInv, TypeOK
<1>2. Follows(p) /\ OwnRow(p)' = OwnRow(p) /\ RetiredPointer(p)' = RetiredPointer(p)
  BY <1>1 DEF ReleaseInv, OwnRow, Activated, RetiredPointer
<1>3. Follows(p)'
  BY <1>1, <1>2
     DEF Follows, LockIsHeld, PreviousIsPointer, WritesFollowProgram,
         BeforeTransaction, BeforeInsert, Staged, Retired, Activated
<1> QED
  BY <1>1, <1>3, StatementKeepsInv

\* A commit: one release appears, the one the pointer named is retired.
LEMMA CommitPublishes ==
    ASSUME ReleaseInv, NEW p \in Publisher, Commit(p)
    PROVE  /\ job[p] \in Job
           /\ job[p].version \in Version /\ job[p].document \in Document
           /\ job[p].version # pointer
           /\ release[job[p].version] = NoRow
           /\ release'[job[p].version] = [status |-> "ACTIVE", document |-> job[p].document]
           /\ pointer # NoVersion =>
                 /\ HasStatus(release[pointer], "ACTIVE") /\ release[pointer] \in Row
                 /\ release'[pointer] = [release[pointer] EXCEPT !.status = "RETIRED"]
           /\ \A u \in Version \ {job[p].version, pointer} : release'[u] = release[u]
           /\ pointer' = job[p].version
           /\ history' = Append(history, [version  |-> job[p].version,
                                          document |-> job[p].document,
                                          previous |-> pointer])
<1> DEFINE v == job[p].version
<1>1. TypeOK /\ pc[p] = "commit" /\ release' = Visible(p) /\ pointer' = v
  BY DEF Commit, ReleaseInv
<1>2. job[p] \in Job /\ v \in Version /\ job[p].document \in Document
  BY <1>1 DEF TypeOK, Job
<1>3. /\ previous[p] = pointer
      /\ release[v] = NoRow /\ v \in DOMAIN writes[p] /\ writes[p][v] = OwnRow(p)
      /\ DOMAIN writes[p] \subseteq {v, pointer}
      /\ pointer # NoVersion => RetiredPointer(p)
  BY <1>1 DEF ReleaseInv, Follows, PreviousIsPointer, WritesFollowProgram, Activated
<1>4. pointer # NoVersion => HasStatus(release[pointer], "ACTIVE") /\ release[pointer] \in Row
  BY <1>1 DEF ReleaseInv, TypeOK, PointerNamesTheActiveRelease, HasStatus
<1>5. v # pointer
  BY <1>2, <1>3, <1>4, ReleaseAssumption DEF HasStatus
<1>6. release'[v] = [status |-> "ACTIVE", document |-> job[p].document]
  BY <1>1, <1>3, VisibleIsTyped DEF OwnRow, Activated
<1>7. pointer # NoVersion => release'[pointer] = [release[pointer] EXCEPT !.status = "RETIRED"]
  BY <1>1, <1>3, VisibleIsTyped DEF RetiredPointer
<1>8. \A u \in Version \ {v, pointer} : release'[u] = release[u]
  BY <1>1, <1>3, VisibleIsTyped
<1>9. history' = Append(history, [version |-> v, document |-> job[p].document, previous |-> pointer])
  BY <1>3 DEF Commit
<1> QED
  BY <1>1, <1>2, <1>3, <1>4, <1>5, <1>6, <1>7, <1>8, <1>9

\* No row disappears, no document changes, and every new row is visible.
LEMMA CommitKeepsRows ==
    ASSUME ReleaseInv, NEW p \in Publisher, Commit(p)
    PROVE  \A u \in Version :
              /\ release'[u] # NoRow <=> release[u] # NoRow \/ u = job[p].version
              /\ release[u] # NoRow => release'[u].document = release[u].document
              /\ HasStatus(release'[u], "ACTIVE") <=> u = job[p].version
              /\ ~ HasStatus(release'[u], "STAGING")
<1> DEFINE v == job[p].version
           new == [status |-> "ACTIVE", document |-> job[p].document]
<1> TAKE u \in Version
<1>1. CASE u = v
  <2>1. release'[u] = new /\ release[u] = NoRow
    BY <1>1, CommitPublishes
  <2>2. new \in Row
    BY CommitPublishes DEF Row, Status
  <2>3. new.status = "ACTIVE"
    OBVIOUS
  <2> QED
    BY <1>1, <2>1, <2>2, <2>3, RowIsARow DEF HasStatus
<1>2. CASE u # v /\ u = pointer
  <2>1. /\ release[u] \in Row /\ release'[u] = [release[u] EXCEPT !.status = "RETIRED"]
    BY <1>2, CommitPublishes, ReleaseAssumption
  <2> QED
    BY <1>2, <2>1, UpdatedRow, RowIsARow DEF HasStatus, Status
<1>3. CASE u # v /\ u # pointer
  <2>1. release'[u] = release[u]
    BY <1>3, CommitPublishes
  <2> QED
    BY <1>3, <2>1 DEF ReleaseInv, PointerNamesTheActiveRelease
<1> QED
  BY <1>1, <1>2, <1>3

LEMMA CommitKeepsInv ==
    ASSUME ReleaseInv, [Next]_vars, NEW p \in Publisher, Commit(p)
    PROVE  ReleaseInv'
<1> DEFINE v == job[p].version
           publication == [version |-> v, document |-> job[p].document, previous |-> pointer]
<1>1. /\ TypeOK /\ pc[p] = "commit" /\ EndTransaction(p) /\ reader' = reader
      /\ outcome' = [outcome EXCEPT ![p] = [result |-> "published", job |-> job[p]]]
  BY DEF Commit, ReleaseInv
<1>2. \A q \in Publisher : Follows(q)'
  BY <1>1, EndsFollow DEF BeforeTransaction
<1>3. /\ publication \in Publication /\ history \in Seq(Publication)
      /\ history' = Append(history, publication)
      /\ publication.version = v /\ publication.document = job[p].document
  BY <1>1, CommitPublishes DEF TypeOK, Publication
<1> HIDE DEF publication
<1>4. RowsAreTheHistory'
  <2>1. \A u \in Version : release'[u] # NoRow <=> u \in History!Published'
    BY <1>3, AppendedPublication, CommitKeepsRows DEF ReleaseInv, RowsAreTheHistory
  <2>2. ASSUME NEW i \in DOMAIN history'
        PROVE  release'[history'[i].version].document = history'[i].document
    <3>1. CASE history'[i] = publication
      <4>1. history'[i].version = v /\ history'[i].document = job[p].document
        BY <1>3, <3>1
      <4>2. release'[v] = [status |-> "ACTIVE", document |-> job[p].document]
        BY CommitPublishes
      <4> QED
        BY <4>1, <4>2
    <3>2. CASE i \in DOMAIN history /\ history'[i] = history[i]
      <4>1. history[i].version \in Version /\ history[i].version \in History!Published
        <5>1. history[i] \in Publication
          BY <1>3, <3>2
        <5> QED
          BY <3>2, <5>1 DEF Publication, History!Published
      <4>2. release[history[i].version] # NoRow
        BY <4>1 DEF ReleaseInv, RowsAreTheHistory
      <4> QED
        BY <3>2, <4>1, <4>2, CommitKeepsRows DEF ReleaseInv, RowsAreTheHistory
    <3> QED
      BY <1>3, <3>1, <3>2, AppendedPublication
  <2>3. pointer' = History!Pointer'
    <3>1. History!Pointer' = publication.version
      BY <1>3, AppendedPublication
    <3>2. pointer' = v
      BY CommitPublishes
    <3> QED
      BY <1>3, <3>1, <3>2
  <2> QED
    BY <2>1, <2>2, <2>3 DEF RowsAreTheHistory
<1>5. PointerNamesTheActiveRelease'
  <2>1. \A u \in Version : /\ HasStatus(release'[u], "ACTIVE") <=> u = v
                         /\ ~ HasStatus(release'[u], "STAGING")
    BY CommitKeepsRows
  <2>2. pointer' = v
    BY CommitPublishes
  <2> QED
    BY <2>1, <2>2 DEF PointerNamesTheActiveRelease, HasStatus
<1>6. ReadersKnowReleases'
  <2>1. \A r \in Reader : reader[r] # NoJob => reader[r].version \in Version
    BY <1>1 DEF TypeOK
  <2> QED
    BY <1>1, <2>1, CommitKeepsRows DEF ReleaseInv, ReadersKnowReleases
<1>7. ReportedVersionLoads'
  BY <1>1, <1>3, AppendedPublication DEF ReleaseInv, ReportedVersionLoads
<1>8. SoundRefusalIsTruthful'
  <2> SUFFICES ASSUME NEW q \in Publisher, Refused(q)',
                      ~ BreaksContentKey(outcome'[q].job.document)
               PROVE  release'[outcome'[q].job.version] # NoRow
    BY DEF SoundRefusalIsTruthful, BreaksContentKey
  <2>1. q # p
    BY <1>1 DEF TypeOK, Refused
  <2>2. outcome'[q] = outcome[q] /\ Refused(q)
    BY <1>1, <2>1 DEF TypeOK, Refused
  <2>3. outcome[q].job.version \in Version /\ release[outcome[q].job.version] # NoRow
    BY <1>1, <2>2 DEF TypeOK, Job, Refused, ReleaseInv, SoundRefusalIsTruthful
  <2> QED
    BY <2>2, <2>3, CommitKeepsRows
<1> QED
  BY <1>2, <1>4, <1>5, <1>6, <1>7, <1>8, TypesAreKept DEF ReleaseInv

LEMMA AbortKeepsInv ==
    ASSUME ReleaseInv, [Next]_vars, NEW p \in Publisher, Abort(p)
    PROVE  ReleaseInv'
<1>1. EndTransaction(p) /\ UNCHANGED <<release, pointer, outcome, reader, history>>
  BY DEF Abort
<1> QED
  BY <1>1, EndsFollow, TypesAreKept, TablesStay, ReadersStay, RefusalsStay DEF ReleaseInv

-----------------------------------------------------------------------------
(* The two transactions of a reader.                                       *)

\* A reader's step writes nothing that a publisher looks at.
LEMMA ReadKeepsInv ==
    ASSUME ReleaseInv, [Next]_vars, UNCHANGED <<release, pointer, publishers, history>>,
           ReadersKnowReleases', ReportedVersionLoads'
    PROVE  ReleaseInv'
<1>1. \A p \in Publisher : Follows(p)'
  BY DEF ReleaseInv, publishers, Follows, LockIsHeld, PreviousIsPointer,
         WritesFollowProgram, OwnRow, RetiredPointer
<1> QED
  BY <1>1, TypesAreKept, TablesStay, RefusalsStay DEF ReleaseInv, publishers

LEMMA ReadActiveVersionKeepsInv ==
    ASSUME ReleaseInv, [Next]_vars, NEW r \in Reader, ReadActiveVersion(r)
    PROVE  ReleaseInv'
<1>1. /\ pointer # NoVersion /\ pointer \in Version
      /\ UNCHANGED <<release, pointer, publishers, history>>
      /\ reader'[r] = [stage |-> "load", version |-> pointer]
      /\ \A q \in Reader \ {r} : reader'[q] = reader[q]
  BY DEF ReadActiveVersion, ReleaseInv, TypeOK
<1>2. release[pointer] # NoRow
  BY <1>1 DEF ReleaseInv, PointerNamesTheActiveRelease, HasStatus
<1>3. ReadersKnowReleases'
  BY <1>1, <1>2 DEF ReleaseInv, ReadersKnowReleases
<1>4. ReportedVersionLoads'
  BY <1>1 DEF ReleaseInv, ReportedVersionLoads
<1> QED
  BY <1>1, <1>3, <1>4, ReadKeepsInv

LEMMA LoadKeepsInv ==
    ASSUME ReleaseInv, [Next]_vars, NEW r \in Reader, Load(r)
    PROVE  ReleaseInv'
<1> DEFINE v   == reader[r].version
           row == release[v]
<1>1. /\ reader[r] # NoJob /\ UNCHANGED <<release, pointer, publishers, history>>
      /\ \A q \in Reader \ {r} : reader'[q] = reader[q]
  BY DEF Load, ReleaseInv, TypeOK
<1>2. v \in Version /\ row # NoRow /\ row \in Row
  BY <1>1 DEF ReleaseInv, TypeOK, ReadersKnowReleases
<1>3. row.status \in Loadable
  BY <1>2 DEF Row, Status, Loadable, ReleaseInv, PointerNamesTheActiveRelease, HasStatus
<1>4. reader'[r] = [stage |-> "loaded", version |-> v, document |-> row.document]
  BY <1>2, <1>3 DEF Load, ReleaseInv, TypeOK
<1>5. PICK i \in DOMAIN history : history[i].version = v /\ history[i].document = row.document
  <2>1. v \in History!Published
    BY <1>2 DEF ReleaseInv, RowsAreTheHistory
  <2>2. PICK i \in DOMAIN history : history[i].version = v
    BY <2>1 DEF History!Published
  <2> QED
    BY <2>2 DEF ReleaseInv, RowsAreTheHistory
<1>6. ReadersKnowReleases'
  BY <1>1, <1>2, <1>4 DEF ReleaseInv, ReadersKnowReleases
<1>7. ReportedVersionLoads'
  BY <1>1, <1>4, <1>5 DEF ReleaseInv, ReportedVersionLoads
<1> QED
  BY <1>1, <1>6, <1>7, ReadKeepsInv

-----------------------------------------------------------------------------
(* The theorems.                                                           *)

LEMMA StepKeepsInv == ReleaseInv /\ [Next]_vars => ReleaseInv'
<1> SUFFICES ASSUME ReleaseInv, [Next]_vars PROVE ReleaseInv'
  OBVIOUS
<1>1. CASE UNCHANGED vars
  <2>1. /\ UNCHANGED <<release, pointer, publishers, history>>
        /\ UNCHANGED <<release, reader, history>>
    BY <1>1 DEF vars
  <2> QED
    BY <2>1, ReadersStay, ReadKeepsInv
<1>2. ASSUME NEW p \in Publisher, NEW v \in Version, NEW d \in Document, Publish(p, v, d)
      PROVE  ReleaseInv'
  BY <1>2, PublishKeepsInv
<1>3. ASSUME NEW p \in Publisher, PublisherStep(p) PROVE ReleaseInv'
  BY <1>3, LockKeepsInv, ReadPointerKeepsInv, InsertStagingKeepsInv, InsertContentsKeepsInv,
     RetireKeepsInv, ActivateKeepsInv, UpsertKeepsInv, CommitKeepsInv DEF PublisherStep
<1>4. ASSUME NEW p \in Publisher, Abort(p) PROVE ReleaseInv'
  BY <1>4, AbortKeepsInv
<1>5. ASSUME NEW r \in Reader, ReadActiveVersion(r) \/ Load(r) PROVE ReleaseInv'
  BY <1>5, ReadActiveVersionKeepsInv, LoadKeepsInv
<1> QED
  BY <1>1, <1>2, <1>3, <1>4, <1>5 DEF Next

(***************************************************************************)
(* Whatever publishers and readers do, and wherever a connection is lost:  *)
(* publishers past the lock statement are alone, their writes follow the   *)
(* program of publish(), and tables and history agree.                     *)
(***************************************************************************)
THEOREM ReleaseInvariant == Spec => []ReleaseInv
  BY InitialInv, StepKeepsInv, PTL DEF Spec

(***************************************************************************)
(* The version a reader is told is the one and only ACTIVE release, and no *)
(* STAGING row is visible.                                                 *)
(***************************************************************************)
THEOREM PointerAgrees == Spec => []PointerNamesTheActiveRelease
<1>1. ReleaseInv => PointerNamesTheActiveRelease
  BY DEF ReleaseInv
<1> QED
  BY <1>1, ReleaseInvariant, PTL

(***************************************************************************)
(* A version that active_version returned loads, with what was published.  *)
(***************************************************************************)
THEOREM ReportedVersionsLoad == Spec => []ReportedVersionLoads
<1>1. ReleaseInv => ReportedVersionLoads
  BY DEF ReleaseInv
<1> QED
  BY <1>1, ReleaseInvariant, PTL

(***************************************************************************)
(* "Catalog version ... already exists" is true of every document that     *)
(* repeats no reference: the one-active index never refuses a publisher.   *)
(***************************************************************************)
THEOREM SoundRefusalsAreTruthful == Spec => []SoundRefusalIsTruthful
<1>1. ReleaseInv => SoundRefusalIsTruthful
  BY DEF ReleaseInv
<1> QED
  BY <1>1, ReleaseInvariant, PTL

\* Only COMMIT changes what others see.
LEMMA OnlyCommitsAreSeen ==
    ASSUME [Next]_vars
    PROVE  \/ \E p \in Publisher : Commit(p)
           \/ UNCHANGED <<release, pointer, history>>
<1>1. CASE UNCHANGED vars
  BY <1>1 DEF vars
<1>2. ASSUME NEW p \in Publisher, NEW v \in Version, NEW d \in Document, Publish(p, v, d)
      PROVE  UNCHANGED <<release, pointer, history>>
  BY <1>2 DEF Publish
<1>3. ASSUME NEW p \in Publisher, PublisherStep(p), ~ Commit(p)
      PROVE  UNCHANGED <<release, pointer, history>>
  BY <1>3 DEF PublisherStep, LockPublication, ReadPointer, InsertStaging, InsertContents,
              RetirePrevious, Activate, UpsertPointer, WriteRow, RefuseAsExisting
<1>4. ASSUME NEW p \in Publisher, Abort(p) PROVE UNCHANGED <<release, pointer, history>>
  BY <1>4 DEF Abort
<1>5. ASSUME NEW r \in Reader, ReadActiveVersion(r) \/ Load(r)
      PROVE  UNCHANGED <<release, pointer, history>>
  BY <1>5 DEF ReadActiveVersion, Load
<1> QED
  BY <1>1, <1>2, <1>3, <1>4, <1>5 DEF Next

(***************************************************************************)
(* A published document never changes, and a visible status only goes from *)
(* ACTIVE to RETIRED.                                                      *)
(***************************************************************************)
THEOREM ReleasesNeverChange == Spec => ReleasesAreImmutable
<1> DEFINE Changes(v) == \/ release'[v] = release[v]
                         \/ release[v] = NoRow /\ HasStatus(release'[v], "ACTIVE")
                         \/ /\ HasStatus(release[v], "ACTIVE")
                            /\ release'[v] = [release[v] EXCEPT !.status = "RETIRED"]
<1>1. ASSUME ReleaseInv, [Next]_vars PROVE \A v \in Version : Changes(v)
  <2>1. CASE UNCHANGED <<release, pointer, history>>
    BY <2>1
  <2>2. ASSUME NEW p \in Publisher, Commit(p), NEW v \in Version PROVE Changes(v)
    <3>1. CASE v = job[p].version
      <4>1. release[v] = NoRow
        BY <1>1, <2>2, <3>1, CommitPublishes
      <4>2. HasStatus(release'[v], "ACTIVE")
        BY <1>1, <2>2, <3>1, CommitKeepsRows
      <4> QED
        BY <4>1, <4>2
    <3>2. CASE v = pointer /\ v # job[p].version
      BY <1>1, <2>2, <3>2, CommitPublishes, ReleaseAssumption
    <3>3. CASE v # pointer /\ v # job[p].version
      BY <1>1, <2>2, <3>3, CommitPublishes
    <3> QED
      BY <3>1, <3>2, <3>3
  <2> QED
    BY <1>1, <2>1, <2>2, OnlyCommitsAreSeen
<1>2. ASSUME ReleaseInv, [Next]_vars PROVE [\A v \in Version : Changes(v)]_vars
  BY <1>1, <1>2
<1> QED
  BY <1>2, ReleaseInvariant, PTL DEF Spec, ReleasesAreImmutable

(***************************************************************************)
(* Overlapping and aborted publications implement one linear history: each *)
(* commit publishes a new version and names the one it really replaced.    *)
(***************************************************************************)
THEOREM PublicationIsAHistory == Spec => IsCatalogHistory
<1>1. Init => History!Init
  BY DEF Init, History!Init
<1>2. ASSUME ReleaseInv, [Next]_vars PROVE [History!Next]_history
  <2>1. CASE UNCHANGED <<release, pointer, history>>
    BY <2>1
  <2>2. ASSUME NEW p \in Publisher, Commit(p) PROVE History!Next
    <3> DEFINE v == job[p].version
    <3>1. /\ v \in Version /\ job[p].document \in Document /\ release[v] = NoRow
          /\ history' = Append(history, [version  |-> v,
                                         document |-> job[p].document,
                                         previous |-> pointer])
      BY <1>2, <2>2, CommitPublishes
    <3>2. v \notin History!Published /\ pointer = History!Pointer
      BY <1>2, <3>1 DEF ReleaseInv, RowsAreTheHistory
    <3>3. History!Publish(v, job[p].document)
      BY <3>1, <3>2 DEF History!Publish
    <3> QED
      BY <3>1, <3>3 DEF History!Next
  <2> QED
    BY <1>2, <2>1, <2>2, OnlyCommitsAreSeen
<1> QED
  BY <1>1, <1>2, ReleaseInvariant, PTL DEF Spec, IsCatalogHistory, History!Spec
===============================================================================
