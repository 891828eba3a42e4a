------------------------------ MODULE Upgrade ------------------------------
(* The schema of telepair.db and the accounts in it while run_migrations    *)
(* brings a database of any 0.1.x release up to date.  Every process that   *)
(* opens the storage runs it, statement by statement and outside of any     *)
(* transaction: the gateway at each start, and each command of the CLI, on  *)
(* the database of a running gateway too.  A process may die between two    *)
(* statements and be started again.                                         *)
(*                                                                          *)
(* SQLite runs one writing statement at a time (busy_timeout), so a         *)
(* statement is a step.  Every account has a mailbox and a name of its own: *)
(* what the unique indexes refuse is in Accounts.                           *)
EXTENDS Naturals, Sequences, FiniteSets

CONSTANTS
  Users,        \* the accounts there may be
  Gateway,      \* the process that serves
  Tools,        \* processes of the command line that open the same file
  Releases,     \* which releases the database may come from
  MaxStops,     \* how often a process is killed
  MaxCommands   \* how many commands are typed

VARIABLES
  tables, cols, indexes,  \* the schema
  rows,       \* the rows of users: to each account the columns that are true
  casts,      \* how many recordings of one session have status 'recording'
  line,       \* the next statement of each process, 0: not running
  phase,      \* within ensure_column: "probe", "alter", "backfill"
  was,        \* what each account was when it was made, by any release
  judged,     \* the accounts an administrator has decided on since
  stops, commands,
  torn,       \* a process died between an ALTER and the backfill it owed
  rushed      \* the accounts last decided on while a backfill was due

upVars == <<tables, cols, indexes, rows, casts, line, phase, was, judged,
            stops, torn, rushed, commands>>

ASSUME UpgradeAssumption ==
  /\ Gateway \notin Tools
  /\ Releases \subseteq 0 .. 7
  /\ MaxStops \in Nat
  /\ MaxCommands \in Nat

Procs == {Gateway} \cup Tools

-----------------------------------------------------------------------------
(* The recipe.                                                              *)

Table(t)  == [do |-> "table", of |-> t]
Index(i)  == [do |-> "index", of |-> i]
Column(c) == [do |-> "column", of |-> c]
Sweep     == [do |-> "sweep", of |-> "recordings"]
Delete    == [do |-> "delete", of |-> "users"]
Drop      == [do |-> "drop", of |-> "email_verifications"]

\* The columns the file gives a table it creates and an older one may lack.
BornWith(table) ==
  CASE table = "sessions"      -> {"closed_reason"}
    [] table = "invite_tokens" -> {"created_at"}
    [] OTHER                   -> {}

\* mutant: the index on recordings before the sweep that makes it possible.
RecipeIndexFirst ==
  << Table("users"), Table("sessions"), Table("participants"),
     Table("invite_tokens"), Table("audit_events"),
     Table("pending_registrations"), Table("user_targets"),
     Table("recordings"), Table("recording_shares"), Index("one_active"), Sweep,
     Column("closed_reason"), Column("created_at"), Column("email"),
     Column("password_hash"), Column("verified"), Column("user_target_id"),
     Column("login_failed_count"), Column("login_locked_until"),
     Column("session_enabled"), Column("approval_state"),
     Index("email_unique"), Delete, Drop >>

\* run_migrations: the three files, the columns, and what follows them.
Recipe ==
  << Table("users"), Table("sessions"), Table("participants"),
     Table("invite_tokens"), Table("audit_events"),
     Table("pending_registrations"), Table("user_targets"),
     Table("recordings"), Table("recording_shares"), Sweep, Index("one_active"),
     Column("closed_reason"), Column("created_at"), Column("email"),
     Column("password_hash"), Column("verified"), Column("user_target_id"),
     Column("login_failed_count"), Column("login_locked_until"),
     Column("session_enabled"), Column("approval_state"),
     Index("email_unique"), Delete, Drop >>

Served == Len(Recipe) + 1

Open(p) == line[p] = Served
Migrating(p) == line[p] \in 1 .. Len(Recipe)

Statement(p) == Recipe[line[p]]

At(p, verb) == Migrating(p) /\ Statement(p).do = verb

Advance(p) ==
  /\ line' = [line EXCEPT ![p] = @ + 1]
  /\ phase' = [phase EXCEPT ![p] = "probe"]

\* An error ends run_migrations, and the process with it.
Dies(p) ==
  /\ line' = [line EXCEPT ![p] = 0]
  /\ phase' = [phase EXCEPT ![p] = "probe"]

-----------------------------------------------------------------------------
(* What older releases left.  They are numbered 0 (no file yet), 1 (0.1.0), *)
(* 2 (0.1.1), 3 (the first sign-up, which wrote unverified rows), 4 (0.1.2),*)
(* 5 (0.1.4), 6 (0.1.8), 7 (0.1.9).                                         *)

OldTables(v) ==
  (IF v >= 1 THEN {"users", "sessions", "participants", "invite_tokens"} ELSE {})
    \cup (IF v >= 2 THEN {"audit_events"} ELSE {})
    \cup (IF v = 3 THEN {"email_verifications"} ELSE {})
    \cup (IF v >= 4 THEN {"pending_registrations", "user_targets"} ELSE {})
    \cup (IF v >= 6 THEN {"recordings", "recording_shares"} ELSE {})

OldColumns(v) ==
  (IF v >= 2 THEN {"closed_reason", "created_at"} ELSE {})
    \cup (IF v >= 3 THEN {"email", "password_hash", "verified"} ELSE {})
    \cup (IF v >= 4 THEN {"user_target_id", "login_failed_count",
                          "login_locked_until", "session_enabled"} ELSE {})
    \cup (IF v >= 5 THEN {"approval_state"} ELSE {})

OldIndexes(v) ==
  (IF v >= 4 THEN {"email_unique"} ELSE {})
    \cup (IF v >= 7 THEN {"one_active"} ELSE {})

OldKinds(v) ==
  (IF v >= 1 THEN {"admin", "guest"} ELSE {})
    \cup (IF v = 3 THEN {"unverified"} ELSE {})
    \cup (IF v >= 3 THEN {"active"} ELSE {})
    \cup (IF v >= 4 THEN {"waiting", "disabled"} ELSE {})

\* The row of such an account: "approved" stands for approval_state.
OldRow(v, kind) ==
  LET own == CASE kind = "admin"      -> {"admin"}
               [] kind = "guest"      -> {"scoped"}
               [] kind = "unverified" -> {"email"}
               [] OTHER               -> {"email", "verified"}
  IN own \cup (IF v >= 4 /\ kind \in {"admin", "guest", "active"}
                 THEN {"session_enabled"} ELSE {})
         \cup (IF v >= 5 /\ kind # "waiting" THEN {"approved"} ELSE {})

UpInit ==
  \E v \in Releases :
    \E olds \in SUBSET Users :
      /\ tables = OldTables(v)
      /\ cols = OldColumns(v)
      /\ indexes = OldIndexes(v)
      /\ was \in [Users -> OldKinds(v) \cup {"none"}]
      /\ \A u \in Users : (was[u] # "none") <=> (u \in olds)
      /\ rows = [u \in olds |-> OldRow(v, was[u])]
      /\ casts \in (IF v < 6 THEN {0} ELSE IF v = 6 THEN 0 .. 2 ELSE 0 .. 1)
      /\ line = [p \in Procs |-> 0]
      /\ phase = [p \in Procs |-> "probe"]
      /\ judged = {}
      /\ stops = 0
      /\ torn = FALSE
      /\ rushed = {}
      /\ commands = 0

-----------------------------------------------------------------------------
(* The statements.                                                          *)

\* mutant: a shortcut that takes the youngest index for a current schema.
BootByMarker(p) ==
  /\ line[p] = 0
  /\ IF p = Gateway THEN UNCHANGED commands
     ELSE commands < MaxCommands /\ commands' = commands + 1
  /\ line' = [line EXCEPT ![p] = IF "email_unique" \in indexes THEN Served ELSE 1]
  /\ UNCHANGED <<tables, cols, indexes, rows, casts, phase, was, judged,
                 stops, torn, rushed>>

\* A process opens the database: the gateway, or a command somebody typed.
Boot(p) ==
  /\ line[p] = 0
  /\ IF p = Gateway THEN UNCHANGED commands
     ELSE commands < MaxCommands /\ commands' = commands + 1
  /\ line' = [line EXCEPT ![p] = 1]
  /\ UNCHANGED <<tables, cols, indexes, rows, casts, phase, was, judged,
                 stops, torn, rushed>>

\* CREATE TABLE IF NOT EXISTS.
CreateTable(p) ==
  /\ At(p, "table")
  /\ LET t == Statement(p).of
     IN /\ tables' = tables \cup {t}
        /\ cols' = cols \cup IF t \in tables THEN {} ELSE BornWith(t)
  /\ Advance(p)
  /\ UNCHANGED <<indexes, rows, casts, was, judged, stops, torn, rushed,
                 commands>>

\* No recording can be running while the process that writes it boots.
SweepRecordings(p) ==
  /\ At(p, "sweep")
  /\ casts' = 0
  /\ Advance(p)
  /\ UNCHANGED <<tables, cols, indexes, rows, was, judged, stops, torn,
                 rushed, commands>>

\* What a new index asks of the rows that are there.
IndexHolds(index) ==
  IF index = "one_active" THEN casts <= 1 ELSE "email" \in cols

\* CREATE UNIQUE INDEX IF NOT EXISTS.
CreateIndex(p) ==
  /\ At(p, "index")
  /\ LET i == Statement(p).of
     IN IF i \in indexes \/ IndexHolds(i)
          THEN indexes' = indexes \cup {i} /\ Advance(p)
          ELSE UNCHANGED indexes /\ Dies(p)
  /\ UNCHANGED <<tables, cols, rows, casts, was, judged, stops, torn, rushed,
                 commands>>

\* mutant: the backfill at every boot, not only after the ALTER.
ProbeThenBackfill(p) ==
  /\ At(p, "column")
  /\ phase[p] = "probe"
  /\ IF Statement(p).of \in cols /\ Statement(p).of # "approval_state"
       THEN Advance(p)
       ELSE /\ phase' = [phase EXCEPT ![p] =
                           IF Statement(p).of \in cols THEN "backfill" ELSE "alter"]
            /\ UNCHANGED line
  /\ UNCHANGED <<tables, cols, indexes, rows, casts, was, judged, stops, torn,
                 rushed, commands>>

\* ensure_column asks the schema first...
Probe(p) ==
  /\ At(p, "column")
  /\ phase[p] = "probe"
  /\ IF Statement(p).of \in cols THEN Advance(p)
     ELSE phase' = [phase EXCEPT ![p] = "alter"] /\ UNCHANGED line
  /\ UNCHANGED <<tables, cols, indexes, rows, casts, was, judged, stops, torn,
                 rushed, commands>>

\* The columns that are true, or 'approved', in a row older than they are.
DefaultOf(column) ==
  CASE column = "session_enabled" -> {"session_enabled"}
    [] column = "approval_state"  -> {"approved"}
    [] OTHER                      -> {}

\* ... and adds the column: an error if another process has come first.
Alter(p) ==
  /\ At(p, "column")
  /\ phase[p] = "alter"
  /\ LET c == Statement(p).of
     IN IF c \in cols THEN UNCHANGED <<cols, rows>> /\ Dies(p)
        ELSE /\ cols' = cols \cup {c}
             /\ rows' = [u \in DOMAIN rows |-> rows[u] \cup DefaultOf(c)]
             /\ IF c = "approval_state"
                  THEN phase' = [phase EXCEPT ![p] = "backfill"] /\ UNCHANGED line
                  ELSE Advance(p)
  /\ UNCHANGED <<tables, indexes, casts, was, judged, stops, torn, rushed,
                 commands>>

\* mutant: the inference sqlite.rs:110 tells of, from verified alone.
LooksUnverified(row) ==
  /\ "email" \in row
  /\ row \cap {"scoped", "admin", "session_enabled", "verified"} = {}

\* The mark of an account that waits for its approval before 0.1.4.
LooksWaiting(row) ==
  /\ {"email", "verified"} \subseteq row
  /\ row \cap {"scoped", "admin", "session_enabled"} = {}

BackfillApprovals(p) ==
  /\ At(p, "column")
  /\ phase[p] = "backfill"
  /\ rows' = [u \in DOMAIN rows |->
                IF LooksWaiting(rows[u]) THEN rows[u] \ {"approved"} ELSE rows[u]]
  /\ Advance(p)
  /\ UNCHANGED <<tables, cols, indexes, casts, was, judged, stops, torn,
                 rushed, commands>>

Unverified(row) == "email" \in row /\ "verified" \notin row

\* The rows of the first sign-up go, and nothing else.
DropUnverified(p) ==
  /\ At(p, "delete")
  /\ rows' = [u \in {w \in DOMAIN rows : ~Unverified(rows[w])} |-> rows[u]]
  /\ Advance(p)
  /\ UNCHANGED <<tables, cols, indexes, casts, was, judged, stops, torn,
                 rushed, commands>>

DropTable(p) ==
  /\ At(p, "drop")
  /\ tables' = tables \ {Statement(p).of}
  /\ Advance(p)
  /\ UNCHANGED <<cols, indexes, rows, casts, was, judged, stops, torn, rushed,
                 commands>>

Migrate(p) ==
  \/ CreateTable(p) \/ SweepRecordings(p) \/ CreateIndex(p)
  \/ Probe(p) \/ Alter(p) \/ BackfillApprovals(p)
  \/ DropUnverified(p) \/ DropTable(p)

-----------------------------------------------------------------------------
(* What the open processes do to the same rows.                             *)

BackfillDue == \E p \in Procs : phase[p] = "backfill"

\* An administrator decides on an account.
Judge(u) ==
  /\ judged' = judged \cup {u}
  /\ rushed' = IF BackfillDue THEN rushed \cup {u} ELSE rushed \ {u}

\* A code is verified: the account starts in the queue.
Register(u) ==
  /\ Open(Gateway)
  /\ was[u] = "none"
  /\ rows' = [w \in DOMAIN rows \cup {u} |->
                IF w = u THEN {"email", "verified"} ELSE rows[w]]
  /\ was' = [was EXCEPT ![u] = "waiting"]
  /\ UNCHANGED <<tables, cols, indexes, casts, line, phase, judged, stops,
                 torn, rushed, commands>>

\* An administrator makes an account, enabled or not: that is a decision.
AdminCreate(u, enabled) ==
  /\ Open(Gateway)
  /\ was[u] = "none"
  /\ LET row == {"email", "verified", "approved"}
                  \cup (IF enabled THEN {"session_enabled"} ELSE {})
     IN rows' = [w \in DOMAIN rows \cup {u} |-> IF w = u THEN row ELSE rows[w]]
  /\ was' = [was EXCEPT ![u] = IF enabled THEN "active" ELSE "disabled"]
  /\ Judge(u)
  /\ UNCHANGED <<tables, cols, indexes, casts, line, phase, stops, torn,
                 commands>>

\* set_session_enabled, from the admin page or from `telepair users`: to
\* enable is to approve, to disable leaves the approval alone.
SetEnabled(p, u, enabled) ==
  /\ Open(p)
  /\ u \in DOMAIN rows
  /\ rows' = [rows EXCEPT ![u] = IF enabled THEN @ \cup {"session_enabled", "approved"}
                                 ELSE @ \ {"session_enabled"}]
  /\ Judge(u)
  /\ UNCHANGED <<tables, cols, indexes, casts, line, phase, was, stops, torn,
                 commands>>

\* A recording starts or ends: the index admits one.
Record ==
  /\ Open(Gateway)
  /\ casts' = IF casts = 0 THEN 1 ELSE casts - 1
  /\ UNCHANGED <<tables, cols, indexes, rows, line, phase, was, judged, stops,
                 torn, rushed, commands>>

\* A command has done its work.
Exit(p) ==
  /\ p \in Tools
  /\ Open(p)
  /\ Dies(p)
  /\ UNCHANGED <<tables, cols, indexes, rows, casts, was, judged, stops, torn,
                 rushed, commands>>

\* A process is killed, or a statement fails: the disk, the lock, the power.
Stop(p) ==
  /\ line[p] # 0
  /\ stops < MaxStops
  /\ stops' = stops + 1
  /\ torn' = (torn \/ phase[p] = "backfill")
  /\ Dies(p)
  /\ UNCHANGED <<tables, cols, indexes, rows, casts, was, judged, rushed,
                 commands>>

UpNext ==
  \/ \E p \in Procs : Boot(p) \/ Migrate(p) \/ Stop(p) \/ Exit(p)
  \/ \E u \in Users : Register(u) \/ \E e \in BOOLEAN : AdminCreate(u, e)
  \/ \E p \in Procs, u \in Users, e \in BOOLEAN : SetEnabled(p, u, e)
  \/ Record

UpSpec == UpInit /\ [][UpNext]_upVars

(* The container restarts the gateway (`restart: unless-stopped`), and a    *)
(* process that runs comes to its next statement.                           *)
FairUpSpec ==
  /\ UpSpec
  /\ WF_upVars(Boot(Gateway) \/ Migrate(Gateway))
  /\ \A p \in Tools : WF_upVars(Migrate(p))

-----------------------------------------------------------------------------
(* The schema this release's queries name.                                  *)

Tables == {"users", "sessions", "participants", "invite_tokens", "audit_events",
           "pending_registrations", "user_targets", "recordings",
           "recording_shares"}

Columns == {"closed_reason", "created_at", "email", "password_hash", "verified",
            "user_target_id", "login_failed_count", "login_locked_until",
            "session_enabled", "approval_state"}

Indexes == {"one_active", "email_unique"}

UpTypeOK ==
  /\ tables \subseteq Tables \cup {"email_verifications"}
  /\ cols \subseteq Columns
  /\ indexes \subseteq Indexes
  /\ DOMAIN rows \subseteq Users
  /\ \A u \in DOMAIN rows :
       rows[u] \subseteq {"email", "scoped", "admin", "verified",
                          "session_enabled", "approved"}
  /\ line \in [Procs -> 0 .. Served]
  /\ phase \in [Procs -> {"probe", "alter", "backfill"}]
  /\ casts \in 0 .. 2
  /\ was \in [Users -> {"none", "admin", "guest", "unverified", "active",
                        "waiting", "disabled"}]
  /\ judged \subseteq Users
  /\ stops \in 0 .. MaxStops
  /\ torn \in BOOLEAN
  /\ rushed \subseteq judged
  /\ commands \in Nat

(* A gateway that serves has all of the schema its queries name, and no row *)
(* of the first sign-up, from whatever release and after whatever           *)
(* interrupted upgrades the database came to it (sqlite.rs:48-162).         *)
ServesCurrentSchema ==
  Open(Gateway) =>
    /\ tables = Tables
    /\ cols = Columns
    /\ indexes = Indexes
    /\ casts <= 1
    /\ \A u \in DOMAIN rows : ~Unverified(rows[u])

(* "Existing rows default TRUE so the upgrade does not lock current users   *)
(* out" (sqlite.rs:103-107): an account that could work before can work     *)
(* after every boot, until an administrator decides otherwise.              *)
AccessKept ==
  Open(Gateway) =>
    \A u \in Users \ judged :
      was[u] \in {"admin", "guest", "active"} =>
        u \in DOMAIN rows /\ {"session_enabled", "approved"} \subseteq rows[u]

(* "verified accounts are not touched" (sqlite.rs:153): no boot removes any *)
(* account but those of the first sign-up that never showed their mailbox.  *)
NobodyLost ==
  \A u \in Users : was[u] \notin {"none", "unverified"} => u \in DOMAIN rows

(* The accounts that waited for an approval when the database was older     *)
(* wait for it in the new bucket, once every boot has ended (sqlite.rs:     *)
(* 110-120): whichever process upgraded, whatever it was killed at and      *)
(* however the others came between, but for a kill between the ALTER and    *)
(* its backfill.                                                            *)
Queued == \A u \in Users \ judged : was[u] = "waiting" => "approved" \notin rows[u]

AtRest == Open(Gateway) /\ \A p \in Procs : ~Migrating(p)

QueueKept == AtRest /\ ~torn => Queued

(* An upgrade leaves every account what it was: with its access, without    *)
(* one it did not have, and there at all.                                   *)
AccountsKept == AccessKept /\ NobodyLost /\ QueueKept

(* "Otherwise a legacy pending queue disappears into the Disabled bucket    *)
(* after upgrade" (sqlite.rs:116-120).  False: such a kill loses the        *)
(* backfill for good, as every later boot finds the column.                 *)
QueueOutlivesKills == AtRest => Queued

(* What an administrator has decided is not undone by a later boot: the     *)
(* backfill is for rows nobody could have decided on (sqlite.rs:297-299).   *)
(* Excepted is what is decided through one process while another has added  *)
(* the column and not run the backfill yet.                                 *)
DecisionsStand ==
  [][(\E p \in Procs : Migrate(p)) =>
       \A u \in judged \ rushed : u \in DOMAIN rows' /\ rows'[u] = rows[u]]_upVars

(* Every upgrade comes to an end: a gateway that is restarted when it dies  *)
(* serves for good, from every release and every half of an upgrade.        *)
UpgradeEnds == <>[]Open(Gateway)

=============================================================================
