----------------------------- MODULE Attendance -----------------------------
(***************************************************************************)
(* Marking the attendance of one class session (modules/attendance/        *)
(* service.py).  The records are an upsert by learner that the service     *)
(* does in Python: no constraint keeps a learner's records down to one.    *)
(***************************************************************************)
EXTENDS Session, Naturals, FiniteSets, Sequences

CONSTANTS
    Learners,
    Marks,       \* present, absent, ...
    Batches      \* what a request may carry: sequences of [learner, mark]

ASSUME AttendanceAssumption ==
    /\ \A batch \in Batches : batch \in Seq([learner : Learners, status : Marks])
    /\ None \notin Marks

VARIABLES
    planned,    \* attendance_sessions has the session
    enrolled,   \* the learners of the class
    records,    \* attendance_records of the session
    marked      \* history: the mark given last to each learner

attendanceRows == <<planned, enrolled, records, marked>>

\* A row, and the request that inserted it.
RecordRow == [learner : Learners, status : Marks, by : Requests]

AttendanceTypeOK ==
    /\ planned \in BOOLEAN
    /\ ~planned => records = {}
    /\ enrolled \subseteq Learners
    /\ records \subseteq RecordRow
    /\ marked \in [Learners -> Marks \cup {None}]
    /\ \A r \in records : marked[r.learner] # None

Marked(batch) == {batch[k].learner : k \in DOMAIN batch}

\* A learner named twice in one request has the later mark.
LastMark(batch, l) ==
    LET k == CHOOSE k \in DOMAIN batch :
                /\ batch[k].learner = l
                /\ \A m \in DOMAIN batch : batch[m].learner = l => m <= k
    IN  batch[k].status

MutantNotRemembered(q, batch, old) ==
    {[learner |-> batch[k].learner, status |-> batch[k].status, by |-> q] :
        k \in {m \in DOMAIN batch : \A r \in old : r.learner # batch[m].learner}}

\* The rows to insert: one for each learner without a record.
Inserted(q, batch, old) ==
    {[learner |-> l, status |-> LastMark(batch, l), by |-> q] :
        l \in {m \in Marked(batch) : \A r \in old : r.learner # m}}

\* The row the service updates for a learner: of several the last one read.
Updated(batch, old) ==
    {f \in [{l \in Marked(batch) : \E r \in old : r.learner = l} -> old] :
        \A l \in DOMAIN f : f[l].learner = l}

-----------------------------------------------------------------------------
AttendanceInit ==
    /\ SessionInit
    /\ planned = FALSE
    /\ enrolled \in SUBSET Learners
    /\ records = {}
    /\ marked = [l \in Learners |-> None]

\* One session of the class is followed.
CreateSession(q) ==
    /\ ~planned
    /\ Begin(q, [key |-> "session"])
    /\ UNCHANGED attendanceRows

CommitSession(q) ==
    /\ End(q)
    /\ req[q].key = "session" /\ ~planned
    /\ planned' = TRUE
    /\ UNCHANGED <<enrolled, records, marked>>

\* One learner who is not enrolled refuses the whole batch.
MarkRecords(q, batch) ==
    /\ planned
    /\ Marked(batch) \subseteq enrolled
    /\ \E rows \in Updated(batch, records) :
          Begin(q, [key |-> "roll", batch |-> batch, rows |-> rows,
                    new |-> Inserted(q, batch, records)])
    /\ UNCHANGED attendanceRows

\* Enrolling and dropping learners (enrollment/service.py), in one step each.
ChangeClass(l) ==
    /\ enrolled' = (enrolled \ {l}) \cup ({l} \ enrolled)
    /\ UNCHANGED <<session, planned, records, marked>>

CommitMarks(q) ==
    /\ End(q)
    /\ req[q].key = "roll"
    /\ LET r == req[q]
           Marks1(x) == [x EXCEPT !.status = LastMark(r.batch, x.learner)]
           Same(x) == x.learner \in DOMAIN r.rows /\ x.by = r.rows[x.learner].by
       IN  /\ records' = {IF Same(x) THEN Flush(x, r.rows[x.learner], Marks1(r.rows[x.learner]))
                          ELSE x : x \in records} \cup r.new
           /\ marked' = [l \in Learners |->
                            IF l \in Marked(r.batch) THEN LastMark(r.batch, l) ELSE marked[l]]
    /\ UNCHANGED <<planned, enrolled>>

AbortAttendance(q) == End(q) /\ UNCHANGED attendanceRows

AttendanceNext ==
    \/ \E q \in Requests :
          \/ CreateSession(q)
          \/ CommitSession(q)
          \/ \E batch \in Batches : MarkRecords(q, batch)
          \/ CommitMarks(q)
          \/ AbortAttendance(q)
    \/ \E l \in Learners : ChangeClass(l)

AttendanceSpec == AttendanceInit /\ [][AttendanceNext]_<<session, attendanceRows>>
-----------------------------------------------------------------------------
\* The roll shows for each learner one record with the mark given last,
\* whatever batches and repetitions led there, unless two requests marked the
\* session at once (service.py:246).
RollShowsLast ==
    "roll" \notin crossed =>
        \A l \in Learners :
            {[status |-> r.status, by |-> r.by] : r \in {x \in records : x.learner = l}} \in
               (IF marked[l] = None THEN {{}}
                ELSE {{[status |-> marked[l], by |-> q]} : q \in Requests})
=============================================================================
