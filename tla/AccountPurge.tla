-------------------------- MODULE AccountPurge --------------------------
(* The operator's purge of a person or a company, the backup it writes and *)
(* the restore of that backup: src/scripts/super/purge.ts, restore.ts and  *)
(* the look-ups of core.ts.  The tool reads and writes the database the    *)
(* application is using: rows may be added between the check, the reading  *)
(* of each table for the backup, and the transaction that deletes.         *)
(*   A row is a table, the rows its columns name, and for a few tables the *)
(* data the tool asks about; what a foreign key does on deletion is a      *)
(* matter of its table and column.                                         *)
EXTENDS Naturals, Sequences, SequencesExt

CONSTANTS
    Data,        \* Data[r]: the table, the columns and the facts of row r
    Original,    \* the rows there are at the start
    FirstStaff,  \* the users marked as platform staff at the start
    MaxPurges    \* bound: purges begun

Rows == DOMAIN Data
Tables == {Data[r].table : r \in Rows}
RowsOf == [t \in Tables \cup {"users", "tenants", "memberships"} |->
             {r \in Rows : Data[r].table = t}]
Of(table) == RowsOf[table]
Users == Of("users")

ASSUME PurgeAssumption ==
    /\ Original \subseteq Rows /\ FirstStaff \subseteq Users
    /\ MaxPurges \in Nat

VARIABLES
    db,          \* the rows in the database
    cleared,     \* <<r, c>>: column c of row r was set to null
    staffed,     \* the users marked as platform staff
    drifted,     \* whether the live foreign keys differ from EXPECTED_EDGES
    logins,      \* the users with a login identity
    purge,       \* the purge under way
    purges,      \* how many were begun
    files,       \* the backups under tmp/
    ever,        \* history: the rows that were ever in the database
    newcomers,   \* history: rows added since the purge was prepared
    blockers,    \* history: rows that made a delete roll back, as not newcomers
    fallen,      \* history: rows a purge deleted without having saved them,
                 \*          though they were there when it was prepared
    refused      \* history: <<r, c>> that made a restore roll back

purgeVars == <<db, cleared, staffed, drifted, logins, purge, purges, files,
               ever, newcomers, blockers, fallen, refused>>

---------------------------------------------------------------------------
(* Rows and foreign keys.                                                  *)
Columns(r) == DOMAIN Data[r].refs
Names(r, c, u) == c \in Columns(r) /\ Data[r].refs[c] = u
InCompany(r, t) == Names(r, "tenant_id", t)

MembershipOf(u, t) == {m \in Of("memberships") : Names(m, "user_id", u) /\ InCompany(m, t)}

(* employee_id points at the person's membership of the row's company.     *)
Targets ==
    [r \in Rows |-> [c \in Columns(r) |->
        IF c = "employee_id" THEN MembershipOf(Data[r].refs[c], Data[r].refs["tenant_id"])
        ELSE {Data[r].refs[c]}]]

CascadeEdges ==
    {<<"activity_logs", "job_id">>, <<"notifications", "job_id">>,
     <<"attachments", "job_id">>, <<"attachment_uploads", "job_id">>,
     <<"attachment_reports", "attachment_id">>, <<"device_tokens", "user_id">>}
TenantPins == {"memberships", "audit_log", "notifications", "skill_requests"}

OnDelete(r, c) ==
    LET t == Data[r].table IN
    IF <<t, c>> = <<"attachments", "upload_id">> THEN "set null"
    ELSE IF <<t, c>> \in CascadeEdges \/ (c = "tenant_id" /\ t \notin TenantPins)
    THEN "cascade" ELSE "restrict"

Holds(r, c, gone, nulls) ==
    c \in Columns(r) /\ <<r, c>> \notin nulls /\ Targets[r][c] \cap gone # {}

Grown(gone, d, nulls) ==
    gone \cup {r \in d : \E c \in Columns(r) :
                 OnDelete(r, c) = "cascade" /\ Holds(r, c, gone, nulls)}

(* A job takes its photos along, and they their reports. *)
Falling(gone, d, nulls) == Grown(Grown(Grown(gone, d, nulls), d, nulls), d, nulls)

Pinning(gone, d, nulls) ==
    {r \in d \ gone : \E c \in Columns(r) :
        OnDelete(r, c) = "restrict" /\ Holds(r, c, gone, nulls)}

Unlinked(gone, d, nulls) ==
    {<<r, "upload_id">> : r \in {q \in d : /\ "upload_id" \in Columns(q)
                                           /\ OnDelete(q, "upload_id") = "set null"
                                           /\ Holds(q, "upload_id", gone, nulls)}}

---------------------------------------------------------------------------
(* The plans.  A step deletes the rows of a table that name one of the     *)
(* people in one of the columns, or that hang on a job or a leave request  *)
(* of theirs, and that belong to the company, to another one, or to any.   *)
Step(table, cols) == [table |-> table, cols |-> cols, through |-> FALSE, scope |-> "any"]
Through(table, cols) == [Step(table, cols) EXCEPT !.through = TRUE]
Inside(table) == [Step(table, {}) EXCEPT !.scope = "inside"]
Elsewhere(steps) == [i \in DOMAIN steps |-> [steps[i] EXCEPT !.scope = "elsewhere"]]
ClearInviter == [Step("memberships", {"invited_by"}) EXCEPT !.scope = "clear"]

(* Children before the rows they point at. *)
Histories ==
    <<Step("attendance_corrections", {"actor_id", "employee_id"}),
      Step("attendance_day_overrides", {"created_by", "employee_id"}),
      Through("leave_events", {"actor_id", "employee_id"}),
      Through("leave_request_days", {"employee_id"}),
      Step("leave_requests", {"created_by", "employee_id"}),
      Step("attendance_records", {"employee_id"}),
      Step("attendance_attempts", {"employee_id"}),
      Step("attendance_office_assignments", {"employee_id"})>>

Photos ==
    <<Through("attachment_reports", {"reporter_id"}),
      Through("attachment_uploads", {}), Through("attachments", {}),
      Step("jobs", {"technician_id"})>>

Requested ==
    <<Step("notifications", {"user_id"}), Step("report_requests", {"requested_by"}),
      Step("skill_requests", {"requested_by"})>>

(* Mutant: the requests people made of a company's leave are forgotten.    *)
PersonPlanByName ==
    <<Step("audit_log", {"actor_user_id", "target_user_id"}),
      Through("activity_logs", {"actor_id"})>>
    \o [Histories EXCEPT ![3].through = FALSE] \o Photos \o Requested
    \o <<Step("account_deletion_requests", {"user_id"}), ClearInviter,
         Step("memberships", {"user_id"}), Step("users", {"id"})>>

PersonPlan ==
    <<Step("audit_log", {"actor_user_id", "target_user_id"}),
      Through("activity_logs", {"actor_id"})>>
    \o Histories \o Photos \o Requested
    \o <<Step("account_deletion_requests", {"user_id"}), ClearInviter,
         Step("memberships", {"user_id"}), Step("users", {"id"})>>

CompanyTables ==
    <<"activity_logs", "attachment_reports", "attachment_uploads", "attachments",
      "notifications", "attendance_records", "attendance_corrections",
      "attendance_day_overrides", "attendance_office_assignments",
      "attendance_attempts", "attendance_office_rules", "attendance_offices",
      "leave_events", "leave_request_days", "leave_requests", "jobs", "customers",
      "report_requests", "skill_requests">>

CompanyPlan ==
    <<[Step("audit_log", {"actor_user_id", "target_user_id"}) EXCEPT !.scope = "inside"]>>
    \o Elsewhere(Histories \o Requested)
    \o <<Step("account_deletion_requests", {"user_id"})>>
    \o Elsewhere(<<Step("activity_logs", {"actor_id"})>> \o Photos)
    \o [i \in DOMAIN CompanyTables |-> Inside(CompanyTables[i])]
    \o <<Inside("memberships")>> \o Elsewhere(<<Step("memberships", {"user_id"})>>)
    \o <<ClearInviter, Inside("tenants"), Step("users", {"id"})>>

NoCompany == "none"
PersonSteps == SelectSeq(PersonPlan, LAMBDA s : s.table \in Tables)
CompanySteps == SelectSeq(CompanyPlan, LAMBDA s : s.table \in Tables)
Plan == IF purge.company = NoCompany THEN PersonSteps ELSE CompanySteps

(* The rows r hangs on through a job, a photo or a leave request. *)
Above(r, d) ==
    LET Up(q) == {Data[q].refs[c] : c \in Columns(q) \cap
                    {"job_id", "attachment_id", "leave_request_id"}} \cap d
    IN  Up(r) \cup UNION {Up(q) : q \in Up(r)}

Theirs(s, r, d) ==
    \/ \E c \in s.cols \cap Columns(r) : Data[r].refs[c] \in purge.people
    \/ s.cols = {"id"} /\ r \in purge.people
    \/ s.through /\ \E q \in Above(r, d) : \E c \in {"technician_id", "created_by"} :
                      \E u \in purge.people : Names(q, c, u)

Matching(s, d, nulls) ==
    {r \in d : /\ Data[r].table = s.table
               /\ CASE s.scope = "inside" -> \/ InCompany(r, purge.company)
                                              \/ r = purge.company \/ Theirs(s, r, d)
                    [] s.scope = "elsewhere" -> Theirs(s, r, d) /\ ~InCompany(r, purge.company)
                    [] OTHER -> Theirs(s, r, d)}

---------------------------------------------------------------------------
NoPurge == [stage |-> "idle"]

PurgeInit ==
    /\ db = Original /\ ever = Original
    /\ cleared = {} /\ staffed = FirstStaff
    /\ drifted \in BOOLEAN
    /\ logins = Users \cap Original
    /\ purge = NoPurge /\ purges = 0
    /\ files = {}
    /\ newcomers = {} /\ blockers = {} /\ fallen = {} /\ refused = {}

Live(m) == m \in db /\ Data[m].status # "removed"
LiveMemberships(u) == {m \in Of("memberships") : Names(m, "user_id", u) /\ Live(m)}
Admins(m) == Data[m].role = "company_admin"
Founded(u) == {t \in Of("tenants") \cap db : Names(t, "created_by", u)}
Reviewed(people) ==
    \E r \in db, u \in people : Names(r, "reviewed_by", u)

(* The one membership the look-up returns is the earliest that is live. *)
First(ms) == CHOOSE m \in ms : \A n \in ms : Data[m].created <= Data[n].created

Begin(people, company) ==
    /\ purge' = [stage |-> "backup", people |-> people, company |-> company,
                 at |-> 1, saved |-> <<>>, nulls |-> {}]
    /\ purges' = purges + 1
    /\ newcomers' = {}
    /\ UNCHANGED <<db, cleared, staffed, drifted, logins, files, ever,
                   blockers, fallen, refused>>

(* preparePurge: the refusals, and the plan. *)
PreparePerson(u) ==
    /\ purge = NoPurge /\ purges < MaxPurges
    /\ u \in db \ staffed /\ ~drifted
    /\ LiveMemberships(u) # {} => ~Admins(First(LiveMemberships(u)))
    /\ ~Reviewed({u})
    /\ Founded(u) = {}
    /\ Begin({u}, NoCompany)

PrepareCompany(u) ==
    /\ purge = NoPurge /\ purges < MaxPurges
    /\ u \in db \ staffed /\ ~drifted
    /\ LiveMemberships(u) # {} /\ Admins(First(LiveMemberships(u)))
    /\ LET t == Data[First(LiveMemberships(u))].refs["tenant_id"]
           people == {v \in Users : MembershipOf(v, t) \cap LiveMemberships(v) # {}}
       IN /\ \A m \in LiveMemberships(u) : InCompany(m, t)
          /\ ~Reviewed(people)
          /\ people \cap staffed = {}
          /\ \A v \in people : Founded(v) \subseteq {t}
          /\ \E m \in Of("memberships") \cap db :
               /\ InCompany(m, t) /\ Data[m].status = "active"
               /\ Names(t, "created_by", Data[m].refs["user_id"])
          /\ Begin(people, t)

(* backupPlan: one query for each table. *)
ReadTable ==
    /\ purge.stage = "backup" /\ purge.at <= Len(Plan)
    /\ LET s == Plan[purge.at]
           found == IF s.scope = "clear" THEN {} ELSE Matching(s, db, cleared)
       IN purge' = [purge EXCEPT !.at = @ + 1,
              !.saved = IF found = {} THEN @ ELSE Append(@, found),
              !.nulls = @ \cup {n \in cleared : n[1] \in found}]
    /\ UNCHANGED <<db, cleared, staffed, drifted, logins, purges, files, ever,
                   newcomers, blockers, fallen, refused>>

WriteBackup ==
    /\ purge.stage = "backup" /\ purge.at > Len(Plan)
    /\ files' = files \cup {[saved |-> purge.saved, nulls |-> purge.nulls]}
    /\ purge' = [purge EXCEPT !.stage = "logins"]
    /\ UNCHANGED <<db, cleared, staffed, drifted, logins, purges, ever,
                   newcomers, blockers, fallen, refused>>

(* deleteAuthIdentities, one by one; an error ends the purge there. *)
RemoveLogins ==
    /\ purge.stage = "logins"
    /\ \/ /\ logins' = logins \ purge.people
          /\ purge' = [purge EXCEPT !.stage = "delete"]
       \/ /\ \E some \in SUBSET purge.people : logins' = logins \ some
          /\ purge' = NoPurge
    /\ UNCHANGED <<db, cleared, staffed, drifted, purges, files, ever,
                   newcomers, blockers, fallen, refused>>

(* runDeletes: the steps one after the other, in one transaction. *)
Deleted(st, s) ==
    IF st.pins # {} THEN st
    ELSE IF s.scope = "clear"
    THEN [st EXCEPT !.nulls = @ \cup
            {<<r, "invited_by">> : r \in Matching(s, st.db, st.nulls)}]
    ELSE LET gone == Falling(Matching(s, st.db, st.nulls), st.db, st.nulls)
         IN [db |-> st.db \ gone,
             pins |-> Pinning(gone, st.db, st.nulls),
             nulls |-> st.nulls \cup Unlinked(gone, st.db \ gone, st.nulls)]

SavedRows(f) == UNION {f.saved[i] : i \in DOMAIN f.saved}

DeleteRows ==
    /\ purge.stage = "delete"
    /\ LET end == FoldLeft(Deleted, [db |-> db, pins |-> {}, nulls |-> cleared], Plan)
       IN IF end.pins # {}
          THEN /\ blockers' = blockers \cup (end.pins \ newcomers)
               /\ UNCHANGED <<db, cleared, fallen>>
          ELSE /\ db' = end.db
               /\ cleared' = end.nulls
               /\ fallen' = fallen \cup ((db \ end.db) \ (newcomers \cup SavedRows(purge)))
               /\ UNCHANGED blockers
    /\ purge' = NoPurge
    /\ UNCHANGED <<staffed, drifted, logins, purges, files, ever, newcomers, refused>>

---------------------------------------------------------------------------
(* applyRestore: the sections backwards, row by row, in one transaction;   *)
(* a row that is there, or whose phone is in use, is passed over.          *)
Taken(r, d) ==
    \/ r \in d
    \/ Data[r].table = "users" /\ \E q \in d \cap Users : Data[q].phone = Data[r].phone

Missing(r, d, nulls) ==
    {c \in Columns(r) : <<r, c>> \notin nulls /\ Targets[r][c] \cap d = {}}

Inserted(st, rows, nulls) ==
    LET new == {r \in rows : ~Taken(r, st.db)}
        bad == {<<r, c>> : r \in new, c \in UNION {Columns(q) : q \in new}}
    IN  IF st.bad # {} THEN st
        ELSE [db |-> st.db \cup new,
              bad |-> {b \in bad : b[2] \in Columns(b[1]) /\ b[2] \in Missing(b[1], st.db, nulls)}]

Restore(f) ==
    /\ purge = NoPurge /\ f \in files
    /\ LET Insert(st, rows) == Inserted(st, rows, f.nulls)
           end == FoldLeft(Insert, [db |-> db, bad |-> {}], Reverse(f.saved))
           new == end.db \ db
       IN IF end.bad # {}
          THEN /\ refused' = refused \cup end.bad
               /\ UNCHANGED <<db, cleared, files>>
          ELSE /\ db' = db \cup new
               /\ cleared' = {n \in cleared : n[1] \notin new}
                             \cup {n \in f.nulls : n[1] \in new}
               /\ files' = IF new = SavedRows(f) THEN files \ {f} ELSE files
               /\ UNCHANGED refused
    /\ UNCHANGED <<staffed, drifted, logins, purge, purges, ever,
                   newcomers, blockers, fallen>>

---------------------------------------------------------------------------
Added(r) ==
    /\ r \notin ever
    /\ ~Taken(r, db) /\ Missing(r, db, {}) = {}
    /\ db' = db \cup {r} /\ ever' = ever \cup {r}
    /\ newcomers' = newcomers \cup {r}

(* The application adds a row; a sign-in of a phone nobody has adds a user.*)
Write(r) ==
    /\ Data[r].table # "audit_log"
    /\ Added(r)
    /\ logins' = IF r \in Users THEN logins \cup {r} ELSE logins
    /\ UNCHANGED <<cleared, staffed, drifted, purge, purges, files,
                   blockers, fallen, refused>>

(* flipFlag: a user becomes staff, or stops being so, with an audit row. *)
FlipStaff(u, r) ==
    /\ u \in db
    /\ Data[r].table = "audit_log" /\ Names(r, "actor_user_id", u)
    /\ Added(r)
    /\ staffed' = IF u \in staffed THEN staffed \ {u} ELSE staffed \cup {u}
    /\ UNCHANGED <<cleared, drifted, logins, purge, purges, files,
                   blockers, fallen, refused>>

PurgeNext ==
    \/ \E u \in Users : PreparePerson(u) \/ PrepareCompany(u)
    \/ ReadTable \/ WriteBackup \/ RemoveLogins \/ DeleteRows
    \/ \E f \in files : Restore(f)
    \/ \E r \in Rows : Write(r)
    \/ \E r \in Rows, u \in Users : FlipStaff(u, r)

PurgeSpec == PurgeInit /\ [][PurgeNext]_purgeVars

---------------------------------------------------------------------------
(* The order of the plan and the refusals before it leave no foreign key   *)
(* in the way of the delete: it rolls back only for a row added since, or  *)
(* for a correction another admin made of a day whose override one of the  *)
(* people rewrote (purge.ts, EXPECTED_EDGES and the plans).                *)
BlockedOnlyByNewcomers ==
    \A r \in blockers :
        /\ Data[r].table = "attendance_corrections"
        /\ Data[Data[r].refs["override_id"]].refs["created_by"] # Data[r].refs["actor_id"]

(* A row the check saw and the purge deleted is in the backup, but for the *)
(* rows that go with a deleted row unseen by the plan: device tokens, what *)
(* others were told of the job, and its log by others in another company   *)
(* (purge.ts, backupPlan: "every row the purge would delete").             *)
UnsavedOnlyByCascade ==
    \A r \in fallen : Data[r].table \in {"device_tokens", "notifications", "activity_logs"}

(* No row is lost: it is in the database, or in a backup that is kept, or  *)
(* fell with a cascade, or was added after the purge had been prepared.    *)
NothingElseLost ==
    \A r \in ever \ db :
        (\E f \in files : r \in SavedRows(f)) \/ r \in fallen \/ r \notin Original

(* A restore rolls back only for a photo saved with its upload, for a      *)
(* notification saved with its job, for a row the backup could not save,   *)
(* or for a person whose phone signed up again.                            *)
RestoreRefusedFor ==
    \A b \in refused :
        \/ Data[b[1]].table = "attachments" /\ b[2] = "upload_id"
        \/ Data[b[1]].table = "notifications" /\ b[2] = "job_id"
        \/ \E u, v \in Users : u # v /\ Data[u].phone = Data[v].phone /\ v \in db

PurgeAccounted ==
    BlockedOnlyByNewcomers /\ UnsavedOnlyByCascade /\ NothingElseLost /\ RestoreRefusedFor
=============================================================================
