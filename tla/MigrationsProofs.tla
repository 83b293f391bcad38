--------------------------- MODULE MigrationsProofs ---------------------------
(***************************************************************************)
(* The safety of the migrations, for every sequence of runs, reverts and   *)
(* writes.  A lemma for every statement says what it does and when it does *)
(* not throw, a lemma for every migration that it leads from one version   *)
(* of the schema to the next, or back; the invariant says which version a  *)
(* database has, and what reverts may have lost of it.                     *)
(***************************************************************************)
EXTENDS Migrations, TLAPS

-----------------------------------------------------------------------------
(* What the statements do.  None of them throws where the migrations use it. *)

\* The fields of a table.
Fields == {"required", "optional", "unique", "index", "onDelete", "rows", "null"}

\* A database in which no statement has thrown.
IsDb(d) ==
    /\ DOMAIN d = {"tables", "labels", "held", "default", "thrown"}
    /\ \A t \in DOMAIN d.tables : DOMAIN d.tables[t] = Fields
    /\ d.thrown = FALSE

\* Databases d and e agree outside the tables.
Same(d, e) == e.labels = d.labels /\ e.held = d.held /\ e.default = d.default

\* Database e has the tables of d, which differ in t at most.
Only(d, e, t) ==
    /\ IsDb(e) /\ Same(d, e)
    /\ DOMAIN e.tables = DOMAIN d.tables
    /\ \A s \in DOMAIN d.tables \ {t} : e.tables[s] = d.tables[s]

\* A table keeps all but its columns.
Kept(x, y) ==
    /\ y.unique = x.unique /\ y.index = x.index /\ y.onDelete = x.onDelete

\* A table keeps all but its index and its foreign key.
KeptBut(x, y) ==
    /\ y.required = x.required /\ y.optional = x.optional
    /\ y.unique = x.unique /\ y.null = x.null

\* CREATE TABLE adds a table that is not there and nothing else.
LEMMA CreateTableOk ==
    ASSUME NEW d, IsDb(d), NEW t, t \notin DOMAIN d.tables, NEW table, DOMAIN table = Fields
    PROVE  LET e == CreateTable(d, t, table)
           IN  /\ IsDb(e) /\ Same(d, e)
               /\ DOMAIN e.tables = DOMAIN d.tables \union {t}
               /\ \A s \in DOMAIN d.tables : e.tables[s] = d.tables[s]
               /\ e.tables[t] = table
BY DEF CreateTable, Step, Exists, IsDb, Fields, Same

\* So does CREATE TABLE IF NOT EXISTS then.
LEMMA CreateIfMissingOk ==
    ASSUME NEW d, IsDb(d), NEW t, t \notin DOMAIN d.tables, NEW table, DOMAIN table = Fields
    PROVE  LET e == CreateIfMissing(d, t, table)
           IN  /\ IsDb(e) /\ Same(d, e)
               /\ DOMAIN e.tables = DOMAIN d.tables \union {t}
               /\ \A s \in DOMAIN d.tables : e.tables[s] = d.tables[s]
               /\ e.tables[t] = table
BY CreateTableOk DEF CreateIfMissing, Exists

\* DROP TABLE takes one away, users only when no foreign key refers to it.
LEMMA DropTableOk ==
    ASSUME NEW d, IsDb(d), NEW t \in DOMAIN d.tables,
           t = "users" => \A s \in DOMAIN d.tables : d.tables[s].onDelete = "none"
    PROVE  LET e == DropTable(d, t)
           IN  /\ IsDb(e) /\ Same(d, e)
               /\ DOMAIN e.tables = DOMAIN d.tables \ {t}
               /\ \A s \in DOMAIN d.tables \ {t} : e.tables[s] = d.tables[s]
BY DEF DropTable, Step, Exists, IsDb, Fields, Restrict, Same

\* ALTER TABLE RENAME gives it another name.
LEMMA RenameTableOk ==
    ASSUME NEW d, IsDb(d), NEW t \in DOMAIN d.tables, NEW s, s \notin DOMAIN d.tables
    PROVE  LET e == RenameTable(d, t, s)
           IN  /\ IsDb(e) /\ Same(d, e)
               /\ DOMAIN e.tables = (DOMAIN d.tables \ {t}) \union {s}
               /\ \A u \in DOMAIN d.tables \ {t} : e.tables[u] = d.tables[u]
               /\ e.tables[s] = d.tables[t]
BY DEF RenameTable, Step, Exists, IsDb, Fields, Same

\* ADD COLUMN IF NOT EXISTS adds the columns that are not there.
LEMMA AddMissingOk ==
    ASSUME NEW d, IsDb(d), NEW t \in DOMAIN d.tables, NEW required, NEW optional
    PROVE  LET e == AddMissing(d, t, required, optional)
               x == d.tables[t]
               y == e.tables[t]
           IN  /\ Only(d, e, t) /\ Kept(x, y)
               /\ y.required = x.required \union (required \ (x.required \union x.optional))
               /\ y.optional = x.optional \union (optional \ (x.required \union x.optional))
               /\ x.null \subseteq x.optional => y.null \subseteq y.optional
BY DEF AddMissing, Step, Exists, IsDb, Fields, Same, Only, Kept, Columns

\* ADD COLUMN adds columns of which none is there.
LEMMA AddColumnsOk ==
    ASSUME NEW d, IsDb(d), NEW t \in DOMAIN d.tables, NEW required, NEW optional,
           (d.tables[t].required \union d.tables[t].optional) \intersect (required \union optional) = {}
    PROVE  LET e == AddColumns(d, t, required, optional)
               x == d.tables[t]
               y == e.tables[t]
           IN  /\ Only(d, e, t) /\ Kept(x, y)
               /\ y.required = x.required \union required
               /\ y.optional = x.optional \union optional
               /\ x.null \subseteq x.optional => y.null \subseteq y.optional
<1>1. AddColumns(d, t, required, optional) = AddMissing(d, t, required, optional)
  BY DEF AddColumns, Step, Exists, IsDb, Columns
<1>2. /\ required \ (d.tables[t].required \union d.tables[t].optional) = required
      /\ optional \ (d.tables[t].required \union d.tables[t].optional) = optional
  OBVIOUS
<1> QED BY <1>1, <1>2, AddMissingOk

\* The case in which all of them may be NULL.
LEMMA AddOptionalOk ==
    ASSUME NEW d, IsDb(d), NEW t \in DOMAIN d.tables, NEW optional,
           (d.tables[t].required \union d.tables[t].optional) \intersect optional = {}
    PROVE  LET e == AddColumns(d, t, {}, optional)
               x == d.tables[t]
               y == e.tables[t]
           IN  /\ Only(d, e, t) /\ Kept(x, y)
               /\ y.required = x.required /\ y.optional = x.optional \union optional
               /\ x.null \subseteq x.optional => y.null \subseteq y.optional
<1> DEFINE none == {}
           e == AddColumns(d, t, none, optional)
<1>1. none \union optional = optional /\ \A s : s \union none = s
  OBVIOUS
<1> HIDE DEF none
<1>2. /\ Only(d, e, t) /\ Kept(d.tables[t], e.tables[t])
      /\ e.tables[t].required = d.tables[t].required \union none
      /\ e.tables[t].optional = d.tables[t].optional \union optional
      /\ d.tables[t].null \subseteq d.tables[t].optional => e.tables[t].null \subseteq e.tables[t].optional
  BY <1>1, AddColumnsOk
<1>3. e.tables[t].required = d.tables[t].required
  BY <1>1, <1>2
<1> QED BY <1>2, <1>3 DEF none

\* DROP COLUMN IF EXISTS takes columns away, with the NULLs in them.
LEMMA DropIfThereOk ==
    ASSUME NEW d, IsDb(d), NEW t \in DOMAIN d.tables, NEW columns
    PROVE  LET e == DropIfThere(d, t, columns)
               x == d.tables[t]
               y == e.tables[t]
           IN  /\ Only(d, e, t) /\ Kept(x, y)
               /\ y.required = x.required \ columns /\ y.optional = x.optional \ columns
               /\ y.null = x.null \ columns
BY DEF DropIfThere, Step, Exists, IsDb, Fields, Same, Only, Kept

\* DROP COLUMN does so when all of them are there.
LEMMA DropColumnsOk ==
    ASSUME NEW d, IsDb(d), NEW t \in DOMAIN d.tables, NEW columns,
           columns \subseteq d.tables[t].required \union d.tables[t].optional
    PROVE  LET e == DropColumns(d, t, columns)
               x == d.tables[t]
               y == e.tables[t]
           IN  /\ Only(d, e, t) /\ Kept(x, y)
               /\ y.required = x.required \ columns /\ y.optional = x.optional \ columns
               /\ y.null = x.null \ columns
<1>1. DropColumns(d, t, columns) = DropIfThere(d, t, columns)
  BY DEF DropColumns, Step, Exists, IsDb, Columns
<1> QED BY <1>1, DropIfThereOk

\* UPDATE leaves no NULL in a column.
LEMMA FillOk ==
    ASSUME NEW d, IsDb(d), NEW t \in DOMAIN d.tables, NEW c
    PROVE  LET e == Fill(d, t, c)
               x == d.tables[t]
               y == e.tables[t]
           IN  /\ Only(d, e, t) /\ Kept(x, y)
               /\ y.required = x.required /\ y.optional = x.optional
               /\ y.null = x.null \ {c}
BY DEF Fill, Step, Exists, IsDb, Fields, Same, Only, Kept

\* SET NOT NULL works on a column without NULL,
LEMMA SetNotNullOk ==
    ASSUME NEW d, IsDb(d), NEW t \in DOMAIN d.tables, NEW c, ~HasNull(d, t, c),
           c \in d.tables[t].required \union d.tables[t].optional
    PROVE  LET e == SetNotNull(d, t, c)
               x == d.tables[t]
               y == e.tables[t]
           IN  /\ Only(d, e, t) /\ Kept(x, y)
               /\ y.required = x.required \union {c} /\ y.optional = x.optional \ {c}
               /\ y.null = x.null
BY DEF SetNotNull, Step, Exists, IsDb, Fields, Same, Only, Kept, Columns

\* and throws on one with NULL.
LEMMA SetNotNullThrows ==
    ASSUME NEW d, IsDb(d), NEW t, NEW c, HasNull(d, t, c)
    PROVE  SetNotNull(d, t, c).thrown = TRUE
BY DEF SetNotNull, Step, IsDb

\* DROP NOT NULL works on any column that is there.
LEMMA DropNotNullOk ==
    ASSUME NEW d, IsDb(d), NEW t \in DOMAIN d.tables, NEW c,
           c \in d.tables[t].required \union d.tables[t].optional
    PROVE  LET e == DropNotNull(d, t, c)
               x == d.tables[t]
               y == e.tables[t]
           IN  /\ Only(d, e, t) /\ Kept(x, y)
               /\ y.required = x.required \ {c} /\ y.optional = x.optional \union {c}
               /\ y.null = x.null
BY DEF DropNotNull, Step, Exists, IsDb, Fields, Same, Only, Kept, Columns

\* CREATE INDEX and DROP INDEX change the indexes of a table only.
LEMMA IndexOk ==
    ASSUME NEW d, IsDb(d), NEW t \in DOMAIN d.tables, NEW i
    PROVE  /\ LET e == AddIndexIfMissing(d, t, i)
                  x == d.tables[t]
                  y == e.tables[t]
              IN  /\ Only(d, e, t) /\ KeptBut(x, y)
                  /\ y.onDelete = x.onDelete /\ y.index = x.index \union {i}
           /\ LET e == DropIndexIfThere(d, t, i)
                  x == d.tables[t]
                  y == e.tables[t]
              IN  /\ Only(d, e, t) /\ KeptBut(x, y)
                  /\ y.onDelete = x.onDelete /\ y.index = x.index \ {i}
           /\ i \in d.tables[t].index => DropIndex(d, t, i) = DropIndexIfThere(d, t, i)
           /\ i \notin d.tables[t].index => AddIndex(d, t, i) = AddIndexIfMissing(d, t, i)
BY DEF AddIndexIfMissing, DropIndexIfThere, AddIndex, DropIndex, Step, Exists, IsDb,
       Fields, Same,
       Only, KeptBut

\* ADD CONSTRAINT sets the rule of the foreign key only,
LEMMA ReferenceOk ==
    ASSUME NEW d, IsDb(d), NEW t \in DOMAIN d.tables, "users" \in DOMAIN d.tables, NEW rule
    PROVE  LET e == Reference(d, t, rule)
               x == d.tables[t]
               y == e.tables[t]
           IN  /\ Only(d, e, t) /\ KeptBut(x, y)
               /\ y.index = x.index /\ y.onDelete = rule
BY DEF Reference, Step, Exists, IsDb, Fields, Same, Only, KeptBut

\* DROP CONSTRAINT removes it.
LEMMA DropReferenceOk ==
    ASSUME NEW d, IsDb(d), NEW t \in DOMAIN d.tables
    PROVE  LET e == DropReference(d, t)
               x == d.tables[t]
               y == e.tables[t]
           IN  /\ Only(d, e, t) /\ KeptBut(x, y)
               /\ y.index = x.index /\ y.onDelete = "none"
BY DEF DropReference, Step, Exists, IsDb, Fields, Same, Only, KeptBut

\* The cast of users.role works when every role held has a label after it.
LEMMA RecastRoleOk ==
    ASSUME NEW d, IsDb(d), "users" \in DOMAIN d.tables, NEW labels, NEW rewritten,
           \A r \in d.held : rewritten[r] \in labels, NEW default
    PROVE  LET e == RecastRole(d, labels, rewritten, default)
           IN  /\ IsDb(e) /\ e.tables = d.tables
               /\ e.labels = labels /\ e.held \subseteq labels /\ e.default = default
BY DEF RecastRole, Step, Exists, IsDb

\* ALTER TYPE RENAME VALUE renames the label in the type and in the rows.
LEMMA RenameRoleOk ==
    ASSUME NEW d, IsDb(d), "users" \in DOMAIN d.tables, NEW from \in d.labels,
           NEW to, to \notin d.labels, d.held \subseteq d.labels
    PROVE  LET e == RenameRole(d, from, to)
           IN  /\ IsDb(e) /\ e.tables = d.tables
               /\ e.labels = (d.labels \ {from}) \union {to}
               /\ e.held \subseteq e.labels /\ e.default = to
BY DEF RenameRole, Step, Exists, IsDb

-----------------------------------------------------------------------------
(* The schema after the first k migrations, and what they change.           *)

\* The tables that a later migration changes or drops, named after the migration that made
\* them so.  The others are the entities' own.
Users1 ==
    Table({"email", "password", "first_name", "last_name", "role", "created_at", "updated_at"},
          {"avatar_url", "refresh_token_hash", "deleted_at"}, {{"email"}})
Users2 ==
    Table(Users1.required \union {"country", "is_verified", "onboarding_complete"},
          Users1.optional, {{"email"}})
Users7 == Table(Users2.required \ {"password"}, Users2.optional \union {"password"}, {{"email"}})
OAuth4 ==
    Table({"user_id", "provider", "provider_id", "created_at"}, {},
          {{"provider"}, {"provider_id"}, {"user_id"}})
Waitlist5 == Table({"email", "created_at"}, {}, {{"email"}})
Talent8 ==
    Table({"user_id", "role_track", "status", "is_published", "created_at", "updated_at"},
          {"bio", "profile_share_link", "published_at"}, {{"user_id"}, {"profile_share_link"}})
Talent16 ==
    Table((Talent8.required \ {"role_track"}) \union {"onboarding_step"},
          Talent8.optional \union {"role_track", "goal", "role_tracks", "region", "education_level",
                                   "linkedin_url"}, Talent8.unique)
Employer8 ==
    Table({"user_id", "company_name", "created_at", "updated_at"},
          {"company_size", "industry", "website_url", "company_description", "hiring_region"},
          {{"user_id"}})
Employer17 ==
    Table(Employer8.required \ {"company_name"},
          Employer8.optional \union {"company_name", "joining_as", "desired_roles", "region",
                                     "hiring_count_range", "company_website"}, {{"user_id"}})
ResetTokens ==
    Table({"user_id", "token_lookup_hash", "token_hash", "expires_at", "created_at"},
          {"used_at"}, {{"token_lookup_hash"}})

\* A table with its index and the rule of its foreign key.
Made(table, index, onDelete) ==
    [required |-> table.required, optional |-> table.optional, unique |-> table.unique,
     index |-> index, onDelete |-> onDelete]

\* The table t after the first k migrations.
Version(k, t) ==
    CASE t = "users" ->
           Made(IF k < 2 THEN Users1 ELSE IF k < 7 THEN Users2
                ELSE IF k < 13 THEN Users7 ELSE UserEntity, {}, "none")
      [] t = "verification_otps" -> Made(VerificationOtpEntity, {"user_created_at"}, "CASCADE")
      [] t = "user_oauth_accounts" ->
           Made(IF k < 6 THEN OAuth4 ELSE OAuthUserEntity, {}, "NO ACTION")
      [] t = "waitlist_entries" ->
           Made(IF k < 13 THEN Waitlist5 ELSE WaitlistEntryEntity, {"created_at"}, "none")
      [] t = "contact_messages" -> Made(ContactMessageEntity, {"created_at"}, "none")
      [] t = "candidate_profiles" -> Made(Talent8, {}, "CASCADE")
      [] t = "talent_profiles" ->
           Made(IF k < 16 THEN Talent8 ELSE IF k < 19 THEN Talent16
                ELSE TalentProfileEntity, {}, "CASCADE")
      [] t = "employer_profiles" ->
           Made(IF k < 17 THEN Employer8 ELSE IF k < 18 THEN Employer17
                ELSE EmployerProfileEntity, {}, "CASCADE")
      [] t = "password_reset_tokens" -> Made(ResetTokens, {"user_used_expires"}, "CASCADE")
      [] t = "password_reset_otps" ->
           Made(PasswordResetOtpEntity, {"user_used_expires"}, "CASCADE")

\* The migrations that change it.
Touched(t) ==
    CASE t = "users"                 -> {1, 2, 7, 9, 13}
      [] t = "verification_otps"     -> {3, 10}
      [] t = "user_oauth_accounts"   -> {4, 6}
      [] t = "waitlist_entries"      -> {5, 10, 13}
      [] t = "contact_messages"      -> {5, 10}
      [] t = "candidate_profiles"    -> {8, 14}
      [] t = "talent_profiles"       -> {14, 16, 19}
      [] t = "employer_profiles"     -> {8, 17, 18}
      [] t = "password_reset_tokens" -> {11, 15}
      [] t = "password_reset_otps"   -> {15}

From(k, n, name) == IF k >= n THEN {name} ELSE {}
Within(k, m, n, name) == IF k \in m..n THEN {name} ELSE {}

\* The tables there are after the first k migrations.
Names(k) ==
    From(k, 1, "users") \union From(k, 3, "verification_otps")
    \union From(k, 4, "user_oauth_accounts") \union From(k, 5, "waitlist_entries")
    \union From(k, 5, "contact_messages") \union Within(k, 8, 13, "candidate_profiles")
    \union From(k, 14, "talent_profiles") \union From(k, 8, "employer_profiles")
    \union Within(k, 11, 14, "password_reset_tokens") \union From(k, 15, "password_reset_otps")

\* All names.
TableNames == {"users", "verification_otps", "user_oauth_accounts", "waitlist_entries",
               "contact_messages", "candidate_profiles", "talent_profiles", "employer_profiles",
               "password_reset_tokens", "password_reset_otps"}

\* Table x has the columns, the keys and the foreign key of v,
Shaped(x, v) ==
    /\ x.required = v.required /\ x.optional = v.optional /\ x.unique = v.unique
    /\ x.onDelete = v.onDelete /\ x.null \subseteq x.optional

\* and its index.
Like(x, v) == Shaped(x, v) /\ x.index = v.index

\* What reverts have taken back too much by version k: the password is NOT NULL again, or the
\* indexes are gone.
Lost(k, t, x) ==
    \/ t = "users" /\ k \in 7..8 /\ Like(x, Version(6, t))
    \/ /\ t \in {"verification_otps", "waitlist_entries", "contact_messages"} /\ k \in 6..9
       /\ Shaped(x, Version(k, t)) /\ x.index = {}

\* Table x is version k of t.  Only where reverts happened may something be lost.
TableOk(how, k, t, x) == Like(x, Version(k, t)) \/ (how = "reverted" /\ Lost(k, t, x))

\* The type users_role_enum, and the roles that users hold.
RolesOk(k, d) ==
    /\ d.held \subseteq d.labels
    /\ d.labels = IF k = 0 THEN {} ELSE IF k = 1 THEN {"admin", "user"}
                  ELSE IF k < 12 THEN {"admin", "candidate", "employer"}
                  ELSE {"admin", "talent", "employer"}
    /\ d.default = IF k = 0 THEN "none" ELSE IF k = 1 THEN "user"
                   ELSE IF k < 12 THEN "candidate" ELSE "talent"

\* Database d has the schema of the first k migrations.
Good(how, k, d) ==
    /\ IsDb(d)
    /\ RolesOk(k, d)
    /\ DOMAIN d.tables = Names(k)
    /\ \A t \in Names(k) : TableOk(how, k, t, d.tables[t])

\* When each table is there.
LEMMA NamesAt ==
    ASSUME NEW k \in 0..19
    PROVE  /\ Names(k) \subseteq TableNames
           /\ "users" \in Names(k) <=> k >= 1
           /\ "verification_otps" \in Names(k) <=> k >= 3
           /\ "user_oauth_accounts" \in Names(k) <=> k >= 4
           /\ "waitlist_entries" \in Names(k) <=> k >= 5
           /\ "contact_messages" \in Names(k) <=> k >= 5
           /\ "candidate_profiles" \in Names(k) <=> k \in 8..13
           /\ "talent_profiles" \in Names(k) <=> k >= 14
           /\ "employer_profiles" \in Names(k) <=> k >= 8
           /\ "password_reset_tokens" \in Names(k) <=> k \in 11..14
           /\ "password_reset_otps" \in Names(k) <=> k >= 15
BY DEF Names, From, Within, TableNames

\* There are no other tables.
LEMMA KnownNames == ASSUME NEW k \in 0..19 PROVE Names(k) \subseteq TableNames
BY NamesAt

\* A migration leaves every table alone that it is not said to change; from version 6 there is
\* no way back.
LEMMA Untouched ==
    ASSUME NEW k \in 1..19, NEW t \in TableNames, k \notin Touched(t)
    PROVE  /\ t \in Names(k) <=> t \in Names(k - 1)
           /\ Version(k, t) = Version(k - 1, t)
           /\ \A x : Lost(k - 1, t, x) => Lost(k, t, x)
           /\ k # 6 => \A x : Lost(k, t, x) => Lost(k - 1, t, x)
<1>1. t \in Names(k) <=> t \in Names(k - 1)
  BY NamesAt DEF Touched, TableNames
<1>2. Version(k, t) = Version(k - 1, t)
  <2>1. CASE t = "users"
    <3>1. (k < 2 <=> k - 1 < 2) /\ (k < 7 <=> k - 1 < 7) /\ (k < 13 <=> k - 1 < 13)
      BY <2>1 DEF Touched
    <3> QED BY <2>1, <3>1 DEF Version
  <2>2. CASE t = "user_oauth_accounts"
    <3>1. k < 6 <=> k - 1 < 6
      BY <2>2 DEF Touched
    <3> QED BY <2>2, <3>1 DEF Version
  <2>3. CASE t = "waitlist_entries"
    <3>1. k < 13 <=> k - 1 < 13
      BY <2>3 DEF Touched
    <3> QED BY <2>3, <3>1 DEF Version
  <2>4. CASE t = "talent_profiles"
    <3>1. (k < 16 <=> k - 1 < 16) /\ (k < 19 <=> k - 1 < 19)
      BY <2>4 DEF Touched
    <3> QED BY <2>4, <3>1 DEF Version
  <2>5. CASE t = "employer_profiles"
    <3>1. (k < 17 <=> k - 1 < 17) /\ (k < 18 <=> k - 1 < 18)
      BY <2>5 DEF Touched
    <3> QED BY <2>5, <3>1 DEF Version
  <2>6. CASE t \notin {"users", "user_oauth_accounts", "waitlist_entries", "talent_profiles",
                       "employer_profiles"}
    BY <2>6 DEF Version, TableNames
  <2> QED BY <2>1, <2>2, <2>3, <2>4, <2>5, <2>6
<1>3. ASSUME NEW x
      PROVE  /\ Lost(k - 1, t, x) => Lost(k, t, x)
             /\ k # 6 /\ Lost(k, t, x) => Lost(k - 1, t, x)
  <2>1. /\ t = "users" => (k \in 7..8 <=> k - 1 \in 7..8)
        /\ t \in {"verification_otps", "waitlist_entries", "contact_messages"}
           => /\ k - 1 \in 6..9 => k \in 6..9
              /\ k # 6 /\ k \in 6..9 => k - 1 \in 6..9
    BY DEF Touched
  <2> QED BY <1>2, <2>1 DEF Lost
<1> QED BY <1>1, <1>2, <1>3

-----------------------------------------------------------------------------
(* From one version to the next.                                            *)

\* Database e is as migration k leaves it, which turns d into version j or back into it.
Renewed(how, j, k, d, e) ==
    /\ IsDb(e) /\ RolesOk(j, e) /\ DOMAIN e.tables = Names(j)
    /\ \A t \in Names(j) : IF k \in Touched(t) THEN TableOk(how, j, t, e.tables[t])
                           ELSE e.tables[t] = d.tables[t]

\* Migration k leads from version j to version k, and back; Plain: and keeps the roles.
After(j, k) == k \in 1..19 /\ j = k - 1
Before(j, k) == After(j, k) /\ k # 6
Plain(j, k) == After(j, k) /\ k \notin {1, 2, 12}
PlainBack(j, k) == Plain(j, k) /\ k # 6

\* So only the tables that a migration changes have to be looked at, on the way up
LEMMA CarriedUp ==
    ASSUME NEW how, NEW j, NEW k, After(j, k), NEW d, Good(how, j, d),
           NEW e, Renewed(how, k, k, d, e)
    PROVE  Good(how, k, e)
<1>0. k \in 1..19 /\ j = k - 1
  BY DEF After
<1>1. ASSUME NEW t \in Names(k), k \notin Touched(t) PROVE TableOk(how, k, t, e.tables[t])
  <2>1. t \in Names(k - 1) /\ t \in TableNames
    BY <1>0, <1>1, Untouched, NamesAt
  <2>2. TableOk(how, k - 1, t, d.tables[t])
    BY <1>0, <2>1 DEF Good
  <2> QED BY <1>0, <1>1, <2>1, <2>2, Untouched DEF TableOk, Renewed
<1> QED BY <1>0, <1>1 DEF Good, Renewed

\* and on the way down.
LEMMA CarriedDown ==
    ASSUME NEW how, NEW j, NEW k, Before(j, k), NEW d, Good(how, k, d),
           NEW e, Renewed(how, j, k, d, e)
    PROVE  Good(how, j, e)
<1>0. k \in 1..19 /\ j = k - 1 /\ k # 6
  BY DEF Before, After
<1>1. ASSUME NEW t \in Names(k - 1), k \notin Touched(t) PROVE TableOk(how, k - 1, t, e.tables[t])
  <2>0. k - 1 \in 0..19
    BY <1>0
  <2>1. t \in Names(k) /\ t \in TableNames
    BY <1>0, <1>1, <2>0, Untouched, NamesAt
  <2>2. TableOk(how, k, t, d.tables[t])
    BY <1>0, <2>1 DEF Good
  <2> QED BY <1>0, <1>1, <2>1, <2>2, Untouched DEF TableOk, Renewed
<1> QED BY <1>0, <1>1 DEF Good, Renewed

\* Migration k changes the tables ts.
Changes(k, ts) == \A s \in TableNames : k \in Touched(s) <=> s \in ts

\* The tables ts are as migration k leaves them.
AllOk(how, k, ts, e) == \A t \in ts : TableOk(how, k, t, e.tables[t])

\* Only migrations 1, 2 and 12 change the roles.
LEMMA RolesStay ==
    ASSUME NEW i \in 0..19, NEW j \in 0..19, i # 0, j # 0, i < 2 <=> j < 2,
           i < 12 <=> j < 12, NEW d, NEW e, RolesOk(i, d), Same(d, e)
    PROVE  RolesOk(j, e)
BY DEF RolesOk, Same

\* Up through a migration that changes one table,
LEMMA OneUp ==
    ASSUME NEW how, NEW j, NEW k, Plain(j, k), NEW d, Good(how, j, d),
           NEW t, Names(k) = Names(j), Changes(k, {t}),
           NEW e, Only(d, e, t), TableOk(how, k, t, e.tables[t])
    PROVE  Good(how, k, e)
<1>1. /\ IsDb(e) /\ Same(d, e) /\ DOMAIN e.tables = Names(k)
      /\ \A s \in Names(k) \ {t} : e.tables[s] = d.tables[s]
  BY DEF Only, Good
<1>2. RolesOk(k, e)
  BY <1>1, RolesStay DEF Good, Plain, After
<1>3. Renewed(how, k, k, d, e)
  BY <1>1, <1>2, KnownNames DEF Renewed, Changes, PlainBack, Plain, After
<1> QED BY <1>3, CarriedUp DEF Plain

\* down through it,
LEMMA OneDown ==
    ASSUME NEW how, NEW j, NEW k, PlainBack(j, k),
           NEW d, Good(how, k, d),
           NEW t, Names(k) = Names(j), Changes(k, {t}),
           NEW e, Only(d, e, t), TableOk(how, j, t, e.tables[t])
    PROVE  Good(how, j, e)
<1>1. /\ IsDb(e) /\ Same(d, e) /\ DOMAIN e.tables = Names(j)
      /\ \A s \in Names(j) \ {t} : e.tables[s] = d.tables[s]
  BY DEF Only, Good
<1>2. RolesOk(j, e)
  BY <1>1, RolesStay DEF Good, PlainBack, Plain, After
<1>3. Renewed(how, j, k, d, e)
  BY <1>1, <1>2, KnownNames DEF Renewed, Changes, PlainBack, Plain, After
<1> QED BY <1>3, CarriedDown DEF PlainBack, Plain, Before

\* Database e has the tables of d and those of ts.
Grown(d, e, ts) ==
    /\ IsDb(e) /\ Same(d, e)
    /\ DOMAIN e.tables = DOMAIN d.tables \union ts
    /\ \A s \in DOMAIN d.tables \ ts : e.tables[s] = d.tables[s]

\* Database e has the tables of d without those of ts.
Shrunk(d, e, ts) ==
    /\ IsDb(e) /\ Same(d, e)
    /\ DOMAIN e.tables = DOMAIN d.tables \ ts
    /\ \A s \in DOMAIN d.tables \ ts : e.tables[s] = d.tables[s]

\* up through one that adds tables,
LEMMA AddedUp ==
    ASSUME NEW how, NEW j, NEW k, Plain(j, k), NEW d, Good(how, j, d),
           NEW ts, Names(k) = Names(j) \union ts, Changes(k, ts),
           NEW e, Grown(d, e, ts), AllOk(how, k, ts, e)
    PROVE  Good(how, k, e)
<1>1. /\ IsDb(e) /\ Same(d, e) /\ DOMAIN e.tables = Names(k)
      /\ \A s \in Names(k) \ ts : e.tables[s] = d.tables[s]
  BY DEF Grown, Good
<1>2. RolesOk(k, e)
  BY <1>1, RolesStay DEF Good, Plain, After
<1>3. Renewed(how, k, k, d, e)
  BY <1>1, <1>2, KnownNames DEF Renewed, Changes, AllOk, Plain, After
<1> QED BY <1>3, CarriedUp DEF Plain

\* down through it.
LEMMA RemovedDown ==
    ASSUME NEW how, NEW j, NEW k, PlainBack(j, k),
           NEW d, Good(how, k, d),
           NEW ts, Names(j) = Names(k) \ ts, Changes(k, ts),
           NEW e, Shrunk(d, e, ts)
    PROVE  Good(how, j, e)
<1>1. /\ IsDb(e) /\ Same(d, e) /\ DOMAIN e.tables = Names(j)
      /\ \A s \in Names(j) : e.tables[s] = d.tables[s]
  BY DEF Shrunk, Good
<1>2. RolesOk(j, e)
  BY <1>1, RolesStay DEF Good, PlainBack, Plain, After
<1>3. Renewed(how, j, k, d, e)
  BY <1>1, <1>2, KnownNames DEF Renewed, Changes, PlainBack, Plain, After
<1> QED BY <1>3, CarriedDown DEF PlainBack, Plain, Before

\* A table created with a foreign key is as it was declared,
LEMMA NewTable ==
    ASSUME NEW d, IsDb(d), "users" \in DOMAIN d.tables, NEW t, t \notin DOMAIN d.tables,
           NEW table, DOMAIN table = Fields, table.index = {}, table.null = {},
           NEW rule
    PROVE  LET e == Reference(CreateIfMissing(d, t, table), t, rule)
           IN  Grown(d, e, {t}) /\ Like(e.tables[t], Made(table, {}, rule))
<1> DEFINE a == CreateIfMissing(d, t, table)
           e == Reference(a, t, rule)
<1>1. /\ IsDb(a) /\ Same(d, a) /\ DOMAIN a.tables = DOMAIN d.tables \union {t}
      /\ \A s \in DOMAIN d.tables : a.tables[s] = d.tables[s]
      /\ a.tables[t] = table
  BY CreateIfMissingOk
<1> HIDE DEF a
<1>2. /\ Only(a, e, t) /\ KeptBut(table, e.tables[t])
      /\ e.tables[t].index = {} /\ e.tables[t].onDelete = rule
  BY <1>1, ReferenceOk
<1>3. Grown(d, e, {t})
  BY <1>1, <1>2 DEF Only, Grown, Same
<1>4. Like(e.tables[t], Made(table, {}, rule))
  BY <1>2 DEF Like, Shaped, Made, KeptBut
<1> QED BY <1>3, <1>4 DEF a

\* also when it gets an index,
LEMMA NewIndexedTable ==
    ASSUME NEW d, IsDb(d), "users" \in DOMAIN d.tables, NEW t, t \notin DOMAIN d.tables,
           NEW table, DOMAIN table = Fields, table.index = {}, table.null = {},
           NEW rule, NEW i
    PROVE  LET e == AddIndex(Reference(CreateIfMissing(d, t, table), t, rule), t, i)
           IN  Grown(d, e, {t}) /\ Like(e.tables[t], Made(table, {i}, rule))
<1> DEFINE a == Reference(CreateIfMissing(d, t, table), t, rule)
           e == AddIndex(a, t, i)
<1>1. Grown(d, a, {t}) /\ Like(a.tables[t], Made(table, {}, rule))
  BY NewTable
<1> HIDE DEF a
<1>2. IsDb(a) /\ t \in DOMAIN a.tables /\ a.tables[t].index = {}
  BY <1>1 DEF Grown, Like, Made
<1>3. e = AddIndexIfMissing(a, t, i)
  BY <1>2, IndexOk
<1>4. /\ Only(a, e, t) /\ KeptBut(a.tables[t], e.tables[t])
      /\ e.tables[t].onDelete = a.tables[t].onDelete /\ e.tables[t].index = {i}
  BY <1>2, <1>3, IndexOk
<1>5. Grown(d, e, {t})
  BY <1>1, <1>4 DEF Only, Grown, Same
<1>6. Like(e.tables[t], Made(table, {i}, rule))
  BY <1>1, <1>4 DEF Like, Shaped, Made, KeptBut
<1> QED BY <1>5, <1>6 DEF a

\* or an index and no foreign key.
LEMMA NewPlainTable ==
    ASSUME NEW d, IsDb(d), NEW t, t \notin DOMAIN d.tables,
           NEW table, DOMAIN table = Fields, table.index = {}, table.null = {},
           table.onDelete = "none", NEW i
    PROVE  LET e == AddIndex(CreateIfMissing(d, t, table), t, i)
           IN  Grown(d, e, {t}) /\ Like(e.tables[t], Made(table, {i}, "none"))
<1> DEFINE a == CreateIfMissing(d, t, table)
           e == AddIndex(a, t, i)
<1>1. /\ IsDb(a) /\ Same(d, a) /\ DOMAIN a.tables = DOMAIN d.tables \union {t}
      /\ \A s \in DOMAIN d.tables : a.tables[s] = d.tables[s]
      /\ a.tables[t] = table
  BY CreateIfMissingOk
<1> HIDE DEF a
<1>2. e = AddIndexIfMissing(a, t, i)
  BY <1>1, IndexOk
<1>3. /\ Only(a, e, t) /\ KeptBut(table, e.tables[t])
      /\ e.tables[t].onDelete = "none" /\ e.tables[t].index = {i}
  BY <1>1, <1>2, IndexOk
<1>4. Grown(d, e, {t})
  BY <1>1, <1>3 DEF Only, Grown, Same
<1>5. Like(e.tables[t], Made(table, {i}, "none"))
  BY <1>3 DEF Like, Shaped, Made, KeptBut
<1> QED BY <1>4, <1>5 DEF a

\* A table is dropped with its foreign key,
LEMMA OldTable ==
    ASSUME NEW d, IsDb(d), NEW t \in DOMAIN d.tables, t # "users"
    PROVE  LET e == DropTable(DropReference(d, t), t)
           IN  Shrunk(d, e, {t})
<1> DEFINE a == DropReference(d, t)
           e == DropTable(a, t)
<1>1. Only(d, a, t)
  BY DropReferenceOk
<1> HIDE DEF a
<1>2. IsDb(a) /\ t \in DOMAIN a.tables
  BY <1>1 DEF Only
<1>3. /\ IsDb(e) /\ Same(a, e) /\ DOMAIN e.tables = DOMAIN a.tables \ {t}
      /\ \A s \in DOMAIN a.tables \ {t} : e.tables[s] = a.tables[s]
  BY <1>2, DropTableOk
<1>4. Shrunk(d, e, {t})
  BY <1>1, <1>3 DEF Only, Shrunk, Same
<1> QED BY <1>4 DEF a

\* and with its index.
LEMMA ShrunkThenGone ==
    ASSUME NEW d, IsDb(d), NEW t \in DOMAIN d.tables, t # "users", NEW i \in d.tables[t].index
    PROVE  /\ Shrunk(d, DropTable(DropIndex(d, t, i), t), {t})
           /\ Shrunk(d, DropTable(DropReference(DropIndex(d, t, i), t), t), {t})
           /\ Shrunk(d, DropTable(DropIndex(DropReference(d, t), t, i), t), {t})
<1>1. ASSUME NEW a, Only(d, a, t) PROVE Shrunk(d, DropTable(a, t), {t})
  <2>1. IsDb(a) /\ t \in DOMAIN a.tables
    BY <1>1 DEF Only
  <2> DEFINE e == DropTable(a, t)
  <2>2. /\ IsDb(e) /\ Same(a, e) /\ DOMAIN e.tables = DOMAIN a.tables \ {t}
        /\ \A s \in DOMAIN a.tables \ {t} : e.tables[s] = a.tables[s]
    BY <2>1, DropTableOk
  <2> QED BY <1>1, <2>2 DEF Only, Shrunk, Same
<1> DEFINE a == DropIndex(d, t, i)
           b == DropReference(a, t)
           c == DropReference(d, t)
           f == DropIndex(c, t, i)
<1>2. Only(d, a, t)
  BY IndexOk
<1>3. Only(d, c, t) /\ c.tables[t].index = d.tables[t].index
  BY DropReferenceOk
<1> HIDE DEF a, c
<1>4. Only(a, b, t)
  BY <1>2, DropReferenceOk DEF Only
<1>5. Only(c, f, t)
  <2>1. IsDb(c) /\ t \in DOMAIN c.tables /\ i \in c.tables[t].index
    BY <1>3 DEF Only
  <2> QED BY <2>1, IndexOk
<1>6. Only(d, b, t) /\ Only(d, f, t)
  BY <1>2, <1>3, <1>4, <1>5 DEF Only, Same
<1> QED BY <1>1, <1>2, <1>6 DEF a, c

-----------------------------------------------------------------------------
(* The migrations.                                                          *)

\* 1. CreateUsers.
LEMMA Up1 ==
    ASSUME NEW how, NEW d, Good(how, 0, d)
    PROVE  Good(how, 1, CreateUsersUp(d))
<1> DEFINE b == [d EXCEPT !.labels = {"admin", "user"}, !.default = "user"]
           e == CreateUsersUp(d)
<1>1. Names(0) = {} /\ Names(1) = {"users"}
  BY DEF Names, From, Within
<1>2. IsDb(d) /\ DOMAIN d.tables = {} /\ d.held = {}
  BY <1>1 DEF Good, RolesOk
<1>3. /\ IsDb(b)
      /\ b.tables = d.tables
      /\ b.held = {}
      /\ b.labels = {"admin", "user"}
      /\ b.default = "user"
  BY <1>2 DEF IsDb
<1>4. e = CreateIfMissing(b, "users", Users1) /\ DOMAIN Users1 = Fields
  BY DEF CreateUsersUp, Users1, Table, Fields
<1> HIDE DEF b, e
<1>5. /\ IsDb(e) /\ Same(b, e) /\ DOMAIN e.tables = {"users"} /\ e.tables["users"] = Users1
  <2>1. IsDb(b) /\ "users" \notin DOMAIN b.tables
    BY <1>2, <1>3
  <2>2. /\ IsDb(e) /\ Same(b, e) /\ DOMAIN e.tables = DOMAIN b.tables \union {"users"}
        /\ e.tables["users"] = Users1
    BY <2>1, <1>4, CreateIfMissingOk
  <2> QED BY <2>2, <1>2, <1>3
<1>6. Like(e.tables["users"], Version(1, "users"))
  BY <1>5 DEF Like, Shaped, Made, Version, Users1, Table
<1>7. RolesOk(1, e)
  BY <1>3, <1>5 DEF RolesOk, Same
<1> QED BY <1>1, <1>5, <1>6, <1>7 DEF Good, TableOk, e

\* 2. AlignUsers.
LEMMA Up2 ==
    ASSUME NEW how, NEW d, Good(how, 1, d)
    PROVE  Good(how, 2, AlignUsersUp(d))
<1> DEFINE t == "users"
           new == {"is_verified", "onboarding_complete"}
           a == RecastRole(d, {"admin", "candidate", "employer"},
                           [r \in d.labels |-> IF r = "user" THEN "candidate" ELSE r], "candidate")
           b == AddColumns(a, t, new, {"country"})
           c == Fill(b, t, "country")
           e == AlignUsersUp(d)
<1>1. Names(1) = {t} /\ Names(2) = {t}
  BY DEF Names, From, Within
<1>2. Version(1, t) = Made(Users1, {}, "none") /\ Version(2, t) = Made(Users2, {}, "none")
  BY DEF Version
<1>3. IsDb(d) /\ DOMAIN d.tables = {t} /\ Like(d.tables[t], Made(Users1, {}, "none"))
  BY <1>1, <1>2 DEF Good, TableOk, Lost
<1>4. /\ IsDb(a) /\ a.tables = d.tables /\ a.labels = {"admin", "candidate", "employer"}
      /\ a.held \subseteq a.labels /\ a.default = "candidate"
  <2>1. d.labels = {"admin", "user"} /\ d.held \subseteq d.labels
    BY DEF Good, RolesOk
  <2> QED BY <1>3, <2>1, RecastRoleOk
<1> HIDE DEF a
<1>5. /\ (Users1.required \union Users1.optional) \intersect (new \union {"country"}) = {}
      /\ (Users1.required \union new) \union {"country"} = Users2.required
      /\ (Users1.optional \union {"country"}) \ {"country"} = Users2.optional
      /\ Users1.unique = Users2.unique
  BY DEF Users1, Users2, Table
<1>6. /\ Only(a, b, t) /\ Kept(d.tables[t], b.tables[t])
      /\ b.tables[t].required = Users1.required \union new
      /\ b.tables[t].optional = Users1.optional \union {"country"}
      /\ b.tables[t].null \subseteq b.tables[t].optional
  BY <1>3, <1>4, <1>5, AddColumnsOk DEF Like, Shaped, Made
<1> HIDE DEF b
<1>7. /\ Only(b, c, t) /\ Kept(b.tables[t], c.tables[t])
      /\ c.tables[t].required = b.tables[t].required
      /\ c.tables[t].optional = b.tables[t].optional
      /\ c.tables[t].null = b.tables[t].null \ {"country"}
  BY <1>3, <1>4, <1>6, FillOk DEF Only
<1>8. e = SetNotNull(c, t, "country")
  BY DEF AlignUsersUp, a, b
<1> HIDE DEF c
<1>9. /\ Only(c, e, t) /\ Kept(c.tables[t], e.tables[t])
      /\ e.tables[t].required = c.tables[t].required \union {"country"}
      /\ e.tables[t].optional = c.tables[t].optional \ {"country"}
      /\ e.tables[t].null = c.tables[t].null
  BY <1>3, <1>4, <1>6, <1>7, <1>8, SetNotNullOk DEF Only, HasNull
<1>10. Like(e.tables[t], Made(Users2, {}, "none"))
  BY <1>3, <1>5, <1>6, <1>7, <1>9 DEF Like, Shaped, Made, Kept
<1>11. /\ IsDb(e) /\ DOMAIN e.tables = Names(2) /\ RolesOk(2, e)
  BY <1>1, <1>3, <1>4, <1>6, <1>7, <1>9 DEF Only, Same, RolesOk
<1> QED BY <1>1, <1>2, <1>10, <1>11 DEF Good, TableOk

\* 3. CreateVerificationOtps.
LEMMA Up3 ==
    ASSUME NEW how, NEW d, Good(how, 2, d)
    PROVE  Good(how, 3, CreateVerificationOtpsUp(d))
<1> DEFINE t == "verification_otps"
           e == CreateVerificationOtpsUp(d)
<1>1. Names(3) = Names(2) \union {t} /\ "users" \in Names(2) /\ t \notin Names(2)
  BY DEF Names, From, Within
<1>2. IsDb(d) /\ DOMAIN d.tables = Names(2)
  BY DEF Good
<1>3. DOMAIN CodeTable = Fields /\ CodeTable.index = {} /\ CodeTable.null = {}
  BY DEF CodeTable, Table, Fields
<1>4. Grown(d, e, {t}) /\ Like(e.tables[t], Made(CodeTable, {"user_created_at"}, "CASCADE"))
  BY <1>1, <1>2, <1>3, NewIndexedTable DEF CreateVerificationOtpsUp
<1>5. Version(3, t) = Made(CodeTable, {"user_created_at"}, "CASCADE")
  BY DEF Version, VerificationOtpEntity
<1>6. Changes(3, {t})
  BY DEF Changes, Touched, TableNames
<1>7. AllOk(how, 3, {t}, e)
  BY <1>4, <1>5 DEF TableOk, AllOk
<1> HIDE DEF e
<1>8. Grown(d, e, {t}) /\ Names(3) = Names(2) \union {t}
  BY <1>1, <1>4
<1>9. Plain(2, 3)
  BY DEF Plain, After
<1>10. Good(how, 3, e)
  BY <1>9, <1>6, <1>7, <1>8, AddedUp
<1> QED BY <1>10 DEF e

\* 4. CreateUserOauthAccounts.
LEMMA Up4 ==
    ASSUME NEW how, NEW d, Good(how, 3, d)
    PROVE  Good(how, 4, CreateUserOauthAccountsUp(d))
<1> DEFINE t == "user_oauth_accounts"
           e == CreateUserOauthAccountsUp(d)
<1>1. Names(4) = Names(3) \union {t} /\ "users" \in Names(3) /\ t \notin Names(3)
  BY DEF Names, From, Within
<1>2. IsDb(d) /\ DOMAIN d.tables = Names(3)
  BY DEF Good
<1>3. DOMAIN OAuth4 = Fields /\ OAuth4.index = {} /\ OAuth4.null = {}
  BY DEF OAuth4, Table, Fields
<1>4. Grown(d, e, {t}) /\ Like(e.tables[t], Made(OAuth4, {}, "NO ACTION"))
  BY <1>1, <1>2, <1>3, NewTable DEF CreateUserOauthAccountsUp, CreateIfMissing, Exists, OAuth4
<1>5. Version(4, t) = Made(OAuth4, {}, "NO ACTION")
  BY DEF Version, VerificationOtpEntity
<1>6. Changes(4, {t})
  BY DEF Changes, Touched, TableNames
<1>7. AllOk(how, 4, {t}, e)
  BY <1>4, <1>5 DEF TableOk, AllOk
<1> HIDE DEF e
<1>8. Grown(d, e, {t}) /\ Names(4) = Names(3) \union {t}
  BY <1>1, <1>4
<1>9. Plain(3, 4)
  BY DEF Plain, After
<1>10. Good(how, 4, e)
  BY <1>9, <1>6, <1>7, <1>8, AddedUp
<1> QED BY <1>10 DEF e

\* 5. CreateInquiriesTables.
LEMMA Up5 ==
    ASSUME NEW how, NEW d, Good(how, 4, d)
    PROVE  Good(how, 5, CreateInquiriesTablesUp(d))
<1> DEFINE t == "waitlist_entries"
           u == "contact_messages"
           b == AddIndex(CreateIfMissing(d, t, Waitlist5), t, "created_at")
           e == CreateInquiriesTablesUp(d)
<1>1. Names(5) = Names(4) \union {t, u} /\ t \notin Names(4) /\ u \notin Names(4)
  BY DEF Names, From, Within
<1>2. IsDb(d) /\ DOMAIN d.tables = Names(4)
  BY DEF Good
<1>3. /\ DOMAIN Waitlist5 = Fields /\ Waitlist5.index = {} /\ Waitlist5.null = {}
      /\ Waitlist5.onDelete = "none"
      /\ DOMAIN ContactMessageEntity = Fields /\ ContactMessageEntity.index = {}
      /\ ContactMessageEntity.null = {} /\ ContactMessageEntity.onDelete = "none"
  BY DEF Waitlist5, ContactMessageEntity, Table, Fields
<1>4. Grown(d, b, {t}) /\ Like(b.tables[t], Made(Waitlist5, {"created_at"}, "none"))
  BY <1>1, <1>2, <1>3, NewPlainTable
<1>5. e = AddIndex(CreateIfMissing(b, u, ContactMessageEntity), u, "created_at")
  BY DEF CreateInquiriesTablesUp, ContactMessageEntity, Waitlist5
<1> HIDE DEF b, e
<1>6. IsDb(b) /\ u \notin DOMAIN b.tables /\ t \in DOMAIN b.tables
  BY <1>1, <1>2, <1>4 DEF Grown
<1>7. Grown(b, e, {u}) /\ Like(e.tables[u], Made(ContactMessageEntity, {"created_at"}, "none"))
  BY <1>3, <1>5, <1>6, NewPlainTable
<1>8. Grown(d, e, {t, u}) /\ e.tables[t] = b.tables[t]
  BY <1>4, <1>6, <1>7 DEF Grown, Same
<1>9. /\ Version(5, t) = Made(Waitlist5, {"created_at"}, "none")
      /\ Version(5, u) = Made(ContactMessageEntity, {"created_at"}, "none")
  BY DEF Version
<1>10. AllOk(how, 5, {t, u}, e)
  BY <1>4, <1>7, <1>8, <1>9 DEF AllOk, TableOk
<1>11. Changes(5, {t, u})
  BY DEF Changes, Touched, TableNames
<1>12. Grown(d, e, {t, u}) /\ Names(5) = Names(4) \union {t, u}
  BY <1>1, <1>8
<1>13. Plain(4, 5)
  BY DEF Plain, After
<1>14. Good(how, 5, e)
  BY <1>13, <1>10, <1>11, <1>12, AddedUp
<1> QED BY <1>14 DEF e

\* 6. FixUserOauthConstraints.
LEMMA Up6 ==
    ASSUME NEW how, NEW d, Good(how, 5, d)
    PROVE  Good(how, 6, FixUserOauthConstraintsUp(d))
<1> DEFINE t == "user_oauth_accounts"
           e == FixUserOauthConstraintsUp(d)
           x == d.tables[t]
           y == e.tables[t]
<1>1. Names(6) = Names(5) /\ t \in Names(5)
  BY DEF Names, From, Within
<1>2. IsDb(d) /\ t \in DOMAIN d.tables /\ TableOk(how, 5, t, x)
  BY <1>1 DEF Good
<1>3. /\ Version(5, t) = Made(OAuth4, {}, "NO ACTION")
      /\ Version(6, t) = Made(OAuthUserEntity, {}, "NO ACTION")
  BY DEF Version
<1>4. Like(x, Made(OAuth4, {}, "NO ACTION"))
  BY <1>2, <1>3 DEF TableOk, Lost
<1>5. /\ OAuthUserEntity.required = OAuth4.required
      /\ OAuthUserEntity.optional = OAuth4.optional
      /\ OAuth4.unique = {{"provider"}, {"provider_id"}, {"user_id"}}
      /\ OAuthUserEntity.unique = {{"user_id", "provider"}, {"provider", "provider_id"}}
  BY DEF OAuth4, OAuthUserEntity, Table
<1>6. /\ Only(d, e, t) /\ y.required = x.required /\ y.optional = x.optional
      /\ y.index = x.index /\ y.onDelete = x.onDelete /\ y.null = x.null
      /\ y.unique = (x.unique \ {{"provider"}, {"provider_id"}, {"user_id"}})
                     \union {{"user_id", "provider"}, {"provider", "provider_id"}}
  BY <1>2 DEF FixUserOauthConstraintsUp, Step, Exists, IsDb, Fields, Only, Same
<1>7. Like(y, Made(OAuthUserEntity, {}, "NO ACTION"))
  BY <1>4, <1>5, <1>6 DEF Like, Shaped, Made
<1>8. Changes(6, {t})
  BY DEF Changes, Touched, TableNames
<1>9. Only(d, e, t) /\ TableOk(how, 6, t, y)
  BY <1>3, <1>6, <1>7 DEF TableOk
<1> HIDE DEF e
<1>10. Plain(5, 6)
  BY DEF Plain, After
<1>11. Good(how, 6, e)
  BY <1>10, <1>1, <1>8, <1>9, OneUp
<1> QED BY <1>11 DEF e

\* 7. PasswordNullableForOAuth.
LEMMA Up7 ==
    ASSUME NEW how, NEW d, Good(how, 6, d)
    PROVE  Good(how, 7, PasswordNullableUp(d))
<1> DEFINE t == "users"
           e == PasswordNullableUp(d)
           x == d.tables[t]
           y == e.tables[t]
<1>1. Names(7) = Names(6) /\ t \in Names(6)
  BY DEF Names, From, Within
<1>2. IsDb(d) /\ t \in DOMAIN d.tables /\ TableOk(how, 6, t, x)
  BY <1>1 DEF Good
<1>3. Version(6, t) = Made(Users2, {}, "none") /\ Version(7, t) = Made(Users7, {}, "none")
  BY DEF Version
<1>4. Like(x, Made(Users2, {}, "none"))
  BY <1>2, <1>3 DEF TableOk, Lost
<1>5. /\ "password" \in Users2.required /\ Users7.required = Users2.required \ {"password"}
      /\ Users7.optional = Users2.optional \union {"password"} /\ Users7.unique = Users2.unique
  BY DEF Users1, Users2, Users7, Table
<1>6. /\ Only(d, e, t) /\ Kept(x, y)
      /\ y.required = x.required \ {"password"} /\ y.optional = x.optional \union {"password"}
      /\ y.null = x.null
  BY <1>2, <1>4, <1>5, DropNotNullOk DEF PasswordNullableUp, Like, Shaped, Made
<1>7. Like(y, Made(Users7, {}, "none"))
  BY <1>4, <1>5, <1>6 DEF Like, Shaped, Made, Kept
<1>8. Changes(7, {t})
  BY DEF Changes, Touched, TableNames
<1>9. Only(d, e, t) /\ TableOk(how, 7, t, y)
  BY <1>3, <1>6, <1>7 DEF TableOk
<1> HIDE DEF e
<1>10. Plain(6, 7)
  BY DEF Plain, After
<1>11. Good(how, 7, e)
  BY <1>10, <1>1, <1>8, <1>9, OneUp
<1> QED BY <1>11 DEF e

\* 8. CreateRoleProfiles.
LEMMA Up8 ==
    ASSUME NEW how, NEW d, Good(how, 7, d)
    PROVE  Good(how, 8, CreateRoleProfilesUp(d))
<1> DEFINE t == "candidate_profiles"
           u == "employer_profiles"
           a == CreateTable(d, t, Talent8)
           b == CreateTable(a, u, Employer8)
           c == Reference(b, t, "CASCADE")
           e == CreateRoleProfilesUp(d)
<1>1. /\ Names(8) = Names(7) \union {t, u}
      /\ t \notin Names(7)
      /\ u \notin Names(7)
      /\ "users" \in Names(7)
  BY DEF Names, From, Within
<1>2. IsDb(d) /\ DOMAIN d.tables = Names(7)
  BY DEF Good
<1>3. /\ DOMAIN Talent8 = Fields /\ Talent8.index = {} /\ Talent8.null = {}
      /\ DOMAIN Employer8 = Fields /\ Employer8.index = {} /\ Employer8.null = {}
  BY DEF Talent8, Employer8, Table, Fields
<1>4. Grown(d, a, {t}) /\ a.tables[t] = Talent8
  BY <1>1, <1>2, <1>3, CreateTableOk DEF Grown
<1> HIDE DEF a
<1>5. Grown(a, b, {u}) /\ b.tables[u] = Employer8
  <2>1. IsDb(a) /\ u \notin DOMAIN a.tables
    BY <1>1, <1>2, <1>4 DEF Grown
  <2> QED BY <2>1, <1>3, CreateTableOk DEF Grown
<1> HIDE DEF b
<1>6. Grown(d, b, {t, u}) /\ b.tables[t] = Talent8
  BY <1>1, <1>2, <1>4, <1>5 DEF Grown, Same
<1>7. IsDb(b) /\ t \in DOMAIN b.tables /\ u \in DOMAIN b.tables /\ "users" \in DOMAIN b.tables
  BY <1>1, <1>2, <1>6 DEF Grown
<1>8. /\ Only(b, c, t) /\ KeptBut(Talent8, c.tables[t]) /\ c.tables[t].index = {}
      /\ c.tables[t].onDelete = "CASCADE"
  BY <1>3, <1>6, <1>7, ReferenceOk
<1>9. e = Reference(c, u, "CASCADE")
  BY DEF CreateRoleProfilesUp, a, b, Talent8, Employer8
<1> HIDE DEF c
<1>10. /\ IsDb(c)
       /\ u \in DOMAIN c.tables
       /\ "users" \in DOMAIN c.tables
       /\ c.tables[u] = Employer8
  BY <1>5, <1>7, <1>8 DEF Only
<1> HIDE DEF e
<1>11. /\ Only(c, e, u) /\ KeptBut(Employer8, e.tables[u]) /\ e.tables[u].index = {}
       /\ e.tables[u].onDelete = "CASCADE"
  BY <1>3, <1>9, <1>10, ReferenceOk
<1>12. Grown(d, e, {t, u}) /\ e.tables[t] = c.tables[t]
  BY <1>6, <1>7, <1>8, <1>11 DEF Grown, Only, Same
<1>13. /\ Version(8, t) = Made(Talent8, {}, "CASCADE")
       /\ Version(8, u) = Made(Employer8, {}, "CASCADE")
  BY DEF Version
<1>14. /\ Like(e.tables[t], Made(Talent8, {}, "CASCADE"))
       /\ Like(e.tables[u], Made(Employer8, {}, "CASCADE"))
  BY <1>3, <1>8, <1>11, <1>12 DEF Like, Shaped, Made, KeptBut
<1>15. AllOk(how, 8, {t, u}, e)
  BY <1>13, <1>14 DEF AllOk, TableOk
<1>16. Changes(8, {t, u})
  BY DEF Changes, Touched, TableNames
<1>17. Grown(d, e, {t, u}) /\ Names(8) = Names(7) \union {t, u}
  BY <1>1, <1>12
<1>18. Plain(7, 8)
  BY DEF Plain, After
<1>19. Good(how, 8, e)
  BY <1>18, <1>15, <1>16, <1>17, AddedUp
<1> QED BY <1>19 DEF e

\* 9. PasswordNullable.
LEMMA Up9 ==
    ASSUME NEW how, NEW d, Good(how, 8, d)
    PROVE  Good(how, 9, PasswordNullableUp(d))
<1> DEFINE t == "users"
           e == PasswordNullableUp(d)
           x == d.tables[t]
           y == e.tables[t]
<1>1. Names(9) = Names(8) /\ t \in Names(8)
  BY DEF Names, From, Within
<1>2. IsDb(d) /\ t \in DOMAIN d.tables /\ TableOk(how, 8, t, x)
  BY <1>1 DEF Good
<1>3. Version(8, t) = Made(Users7, {}, "none") /\ Version(9, t) = Made(Users7, {}, "none")
  BY DEF Version
<1>4. Like(x, Made(Users2, {}, "none"))
      \/ Like(x, Made(Users7, {}, "none"))
  BY <1>2, <1>3, Version(6, t) = Made(Users2, {}, "none") DEF TableOk, Lost, Version
<1>5. /\ "password" \in Users2.required /\ Users7.required = Users2.required \ {"password"}
      /\ Users7.optional = Users2.optional \union {"password"} /\ Users7.unique = Users2.unique
  BY DEF Users1, Users2, Users7, Table
<1>6. /\ Only(d, e, t) /\ Kept(x, y)
      /\ y.required = x.required \ {"password"} /\ y.optional = x.optional \union {"password"}
      /\ y.null = x.null
  BY <1>2, <1>4, <1>5, DropNotNullOk DEF PasswordNullableUp, Like, Shaped, Made
<1>7. Like(y, Made(Users7, {}, "none"))
  BY <1>4, <1>5, <1>6 DEF Like, Shaped, Made, Kept
<1>8. Changes(9, {t})
  BY DEF Changes, Touched, TableNames
<1>9. Only(d, e, t) /\ TableOk(how, 9, t, y)
  BY <1>3, <1>6, <1>7 DEF TableOk
<1> HIDE DEF e
<1>10. Plain(8, 9)
  BY DEF Plain, After
<1>11. Good(how, 9, e)
  BY <1>10, <1>1, <1>8, <1>9, OneUp
<1> QED BY <1>11 DEF e

\* 10. RestoreIndexes.
LEMMA Up10 ==
    ASSUME NEW how, NEW d, Good(how, 9, d)
    PROVE  Good(how, 10, RestoreIndexesUp(d))
<1> DEFINE t == "waitlist_entries"
           u == "contact_messages"
           v == "verification_otps"
           a == AddIndexIfMissing(d, t, "created_at")
           b == AddIndexIfMissing(a, u, "created_at")
           e == RestoreIndexesUp(d)
<1>1. Names(10) = Names(9) /\ t \in Names(9) /\ u \in Names(9) /\ v \in Names(9)
  BY DEF Names, From, Within
<1>2. /\ IsDb(d) /\ DOMAIN d.tables = Names(9) /\ RolesOk(9, d)
      /\ TableOk(how, 9, t, d.tables[t]) /\ TableOk(how, 9, u, d.tables[u])
      /\ TableOk(how, 9, v, d.tables[v])
  BY <1>1 DEF Good
<1>3. /\ Version(9, t) = Made(Waitlist5, {"created_at"}, "none")
      /\ Version(10, t) = Version(9, t)
      /\ Version(9, u) = Made(ContactMessageEntity, {"created_at"}, "none")
      /\ Version(10, u) = Version(9, u)
      /\ Version(9, v) = Made(VerificationOtpEntity, {"user_created_at"}, "CASCADE")
      /\ Version(10, v) = Version(9, v)
  BY DEF Version
<1>4. /\ d.tables[t].index \union {"created_at"} = {"created_at"}
      /\ Shaped(d.tables[t], Version(9, t))
      /\ d.tables[u].index \union {"created_at"} = {"created_at"}
      /\ Shaped(d.tables[u], Version(9, u))
      /\ d.tables[v].index \union {"user_created_at"} = {"user_created_at"}
      /\ Shaped(d.tables[v], Version(9, v))
  BY <1>2, <1>3 DEF TableOk, Lost, Like, Made
<1>5. /\ Only(d, a, t) /\ KeptBut(d.tables[t], a.tables[t])
      /\ a.tables[t].onDelete = d.tables[t].onDelete /\ a.tables[t].index = {"created_at"}
  BY <1>1, <1>2, <1>4, IndexOk
<1> HIDE DEF a
<1>6. /\ IsDb(a)
      /\ DOMAIN a.tables = Names(9)
      /\ a.tables[u] = d.tables[u]
      /\ a.tables[v] = d.tables[v]
  BY <1>1, <1>2, <1>5 DEF Only
<1>7. /\ Only(a, b, u) /\ KeptBut(d.tables[u], b.tables[u])
      /\ b.tables[u].onDelete = d.tables[u].onDelete /\ b.tables[u].index = {"created_at"}
  BY <1>1, <1>4, <1>6, IndexOk
<1>8. e = AddIndexIfMissing(b, v, "user_created_at")
  BY DEF RestoreIndexesUp, a
<1> HIDE DEF b, e
<1>9. IsDb(b) /\ DOMAIN b.tables = Names(9) /\ b.tables[v] = d.tables[v]
  BY <1>1, <1>6, <1>7 DEF Only
<1>10. /\ Only(b, e, v) /\ KeptBut(d.tables[v], e.tables[v])
       /\ e.tables[v].onDelete = d.tables[v].onDelete /\ e.tables[v].index = {"user_created_at"}
  BY <1>1, <1>4, <1>8, <1>9, IndexOk
<1>11. /\ IsDb(e) /\ Same(d, e) /\ DOMAIN e.tables = Names(10)
       /\ \A s \in Names(10) \ {t, u, v} : e.tables[s] = d.tables[s]
       /\ e.tables[t] = a.tables[t] /\ e.tables[u] = b.tables[u]
  BY <1>1, <1>2, <1>5, <1>6, <1>7, <1>9, <1>10 DEF Only, Same
<1>12. /\ Like(e.tables[t], Version(10, t)) /\ Like(e.tables[u], Version(10, u))
       /\ Like(e.tables[v], Version(10, v))
  <2>1. /\ Shaped(e.tables[t], Version(9, t)) /\ Shaped(e.tables[u], Version(9, u))
        /\ Shaped(e.tables[v], Version(9, v))
    BY <1>4, <1>5, <1>7, <1>10, <1>11 DEF Shaped, KeptBut
  <2>2. /\ e.tables[t].index = Version(9, t).index /\ e.tables[u].index = Version(9, u).index
        /\ e.tables[v].index = Version(9, v).index
    <3>1. /\ Version(9, t).index = {"created_at"} /\ Version(9, u).index = {"created_at"}
          /\ Version(9, v).index = {"user_created_at"}
      BY <1>3 DEF Made
    <3> QED BY <3>1, <1>5, <1>7, <1>10, <1>11
  <2> QED BY <1>3, <2>1, <2>2 DEF Like
<1>13. RolesOk(10, e)
  BY <1>2, <1>11, RolesStay
<1>14. \A s \in Names(10) : 10 \in Touched(s) <=> s \in {t, u, v}
  BY NamesAt DEF Touched, TableNames
<1>15. Renewed(how, 10, 10, d, e)
  BY <1>11, <1>12, <1>13, <1>14 DEF Renewed, TableOk
<1>16. After(9, 10)
  BY DEF After
<1>17. Good(how, 10, e)
  BY <1>16, <1>15, CarriedUp
<1> QED BY <1>17 DEF e

\* 11. CreateResetTokens.
LEMMA Up11 ==
    ASSUME NEW how, NEW d, Good(how, 10, d)
    PROVE  Good(how, 11, CreateResetTokensUp(d))
<1> DEFINE t == "password_reset_tokens"
           e == CreateResetTokensUp(d)
<1>1. Names(11) = Names(10) \union {t} /\ "users" \in Names(10) /\ t \notin Names(10)
  BY DEF Names, From, Within
<1>2. IsDb(d) /\ DOMAIN d.tables = Names(10)
  BY DEF Good
<1>3. DOMAIN ResetTokens = Fields /\ ResetTokens.index = {} /\ ResetTokens.null = {}
  BY DEF ResetTokens, Table, Fields
<1>4. Grown(d, e, {t}) /\ Like(e.tables[t], Made(ResetTokens, {"user_used_expires"}, "CASCADE"))
  BY <1>1, <1>2, <1>3, NewIndexedTable DEF CreateResetTokensUp, ResetTokens
<1>5. Version(11, t) = Made(ResetTokens, {"user_used_expires"}, "CASCADE")
  BY DEF Version, VerificationOtpEntity
<1>6. Changes(11, {t})
  BY DEF Changes, Touched, TableNames
<1>7. AllOk(how, 11, {t}, e)
  BY <1>4, <1>5 DEF TableOk, AllOk
<1> HIDE DEF e
<1>8. Grown(d, e, {t}) /\ Names(11) = Names(10) \union {t}
  BY <1>1, <1>4
<1>9. Plain(10, 11)
  BY DEF Plain, After
<1>10. Good(how, 11, e)
  BY <1>9, <1>6, <1>7, <1>8, AddedUp
<1> QED BY <1>10 DEF e

\* 12. CandidateToTalent.
LEMMA Up12 ==
    ASSUME NEW how, NEW d, Good(how, 11, d)
    PROVE  Good(how, 12, CandidateToTalentUp(d))
<1> DEFINE e == CandidateToTalentUp(d)
<1>1. Names(12) = Names(11) /\ "users" \in Names(11)
  BY DEF Names, From, Within
<1>2. /\ IsDb(d) /\ DOMAIN d.tables = Names(11)
      /\ d.labels = {"admin", "candidate", "employer"} /\ d.held \subseteq d.labels
  BY DEF Good, RolesOk
<1>3. /\ IsDb(e) /\ e.tables = d.tables
      /\ e.labels = (d.labels \ {"candidate"}) \union {"talent"}
      /\ e.held \subseteq e.labels /\ e.default = "talent"
  BY <1>1, <1>2, RenameRoleOk DEF CandidateToTalentUp
<1> HIDE DEF e
<1>4. RolesOk(12, e)
  BY <1>2, <1>3 DEF RolesOk
<1>5. \A s \in Names(12) : 12 \notin Touched(s)
  BY NamesAt DEF Touched, TableNames
<1>6. Renewed(how, 12, 12, d, e)
  BY <1>1, <1>2, <1>3, <1>4, <1>5 DEF Renewed
<1>7. After(11, 12)
  BY DEF After
<1>8. Good(how, 12, e)
  BY <1>7, <1>6, CarriedUp
<1> QED BY <1>8 DEF e

\* 13. ExtendWaitlist.
LEMMA Up13 ==
    ASSUME NEW how, NEW d, Good(how, 12, d)
    PROVE  Good(how, 13, ExtendWaitlistUp(d))
<1> DEFINE t == "users"
           u == "waitlist_entries"
           new == {"joining_as", "full_name", "preferred_role", "referral_source"}
           a == AddColumns(d, t, {}, {"signup_reason"})
           e == ExtendWaitlistUp(d)
           x == d.tables[t]
           y == d.tables[u]
<1>1. Names(13) = Names(12) /\ t \in Names(12) /\ u \in Names(12)
  BY DEF Names, From, Within
<1>2. /\ Version(12, t) = Made(Users7, {}, "none")
      /\ Version(13, t) = Made(UserEntity, {}, "none")
      /\ Version(12, u) = Made(Waitlist5, {"created_at"}, "none")
      /\ Version(13, u) = Made(WaitlistEntryEntity, {"created_at"}, "none")
  BY DEF Version
<1>3. /\ IsDb(d) /\ DOMAIN d.tables = Names(12) /\ RolesOk(12, d)
      /\ Like(x, Made(Users7, {}, "none")) /\ Like(y, Made(Waitlist5, {"created_at"}, "none"))
  BY <1>1, <1>2 DEF Good, TableOk, Lost
<1>4. /\ (Users7.required \union Users7.optional) \intersect {"signup_reason"} = {}
      /\ Users7.required = UserEntity.required
      /\ Users7.optional \union {"signup_reason"} = UserEntity.optional
      /\ Users7.unique = UserEntity.unique
  BY DEF Users1, Users2, Users7, UserEntity, Table
<1>5. /\ (Waitlist5.required \union Waitlist5.optional) \intersect new = {}
      /\ Waitlist5.required = WaitlistEntryEntity.required
      /\ Waitlist5.optional \union new = WaitlistEntryEntity.optional
      /\ Waitlist5.unique = WaitlistEntryEntity.unique
  BY DEF Waitlist5, WaitlistEntryEntity, Table
<1>6. /\ x.required = Users7.required
      /\ x.optional = Users7.optional
      /\ x.null \subseteq x.optional
      /\ y.required = Waitlist5.required /\ y.optional = Waitlist5.optional
      /\ y.null \subseteq y.optional
  BY <1>3 DEF Like, Shaped, Made
<1>7. /\ Only(d, a, t) /\ Kept(x, a.tables[t])
      /\ a.tables[t].required = x.required
      /\ a.tables[t].optional = x.optional \union {"signup_reason"}
      /\ a.tables[t].null \subseteq a.tables[t].optional
  BY <1>1, <1>3, <1>4, <1>6, AddOptionalOk
<1>8. e = AddColumns(a, u, {}, new)
  BY DEF ExtendWaitlistUp
<1> HIDE DEF a, e, new
<1>9. IsDb(a) /\ u \in DOMAIN a.tables /\ a.tables[u] = y
  BY <1>1, <1>3, <1>7 DEF Only
<1>10. /\ Only(a, e, u) /\ Kept(y, e.tables[u])
      /\ e.tables[u].required = y.required
      /\ e.tables[u].optional = y.optional \union new
      /\ e.tables[u].null \subseteq e.tables[u].optional
  BY <1>5, <1>6, <1>8, <1>9, AddOptionalOk
<1>11. /\ IsDb(e) /\ Same(d, e) /\ DOMAIN e.tables = Names(13) /\ e.tables[t] = a.tables[t]
       /\ \A s \in Names(13) \ {t, u} : e.tables[s] = d.tables[s]
  BY <1>1, <1>3, <1>7, <1>10 DEF Only, Same
<1>12. /\ Like(e.tables[t], Made(UserEntity, {}, "none"))
       /\ Like(e.tables[u], Made(WaitlistEntryEntity, {"created_at"}, "none"))
  BY <1>3, <1>4, <1>5, <1>6, <1>7, <1>10, <1>11 DEF Like, Shaped, Made, Kept
<1>13. RolesOk(13, e)
  BY <1>3, <1>11, RolesStay
<1>14. \A s \in Names(13) : 13 \in Touched(s) <=> s \in {t, u}
  BY NamesAt DEF Touched, TableNames
<1>15. Renewed(how, 13, 13, d, e)
  BY <1>2, <1>11, <1>12, <1>13, <1>14 DEF Renewed, TableOk
<1>16. After(12, 13)
  BY DEF After
<1>17. Good(how, 13, e)
  BY <1>16, <1>15, CarriedUp
<1> QED BY <1>17 DEF e

\* 14. TalentProfiles.
LEMMA Up14 ==
    ASSUME NEW how, NEW d, Good(how, 13, d)
    PROVE  Good(how, 14, TalentProfilesUp(d))
<1> DEFINE t == "candidate_profiles"
           u == "talent_profiles"
           e == TalentProfilesUp(d)
<1>1. Names(14) = (Names(13) \ {t}) \union {u} /\ t \in Names(13) /\ u \notin Names(13)
  BY DEF Names, From, Within
<1>2. /\ IsDb(d)
      /\ DOMAIN d.tables = Names(13)
      /\ RolesOk(13, d)
      /\ TableOk(how, 13, t, d.tables[t])
  BY <1>1 DEF Good
<1>3. /\ IsDb(e) /\ Same(d, e) /\ DOMAIN e.tables = Names(14)
      /\ \A s \in Names(13) \ {t} : e.tables[s] = d.tables[s]
      /\ e.tables[u] = d.tables[t]
  <2>1. t \in DOMAIN d.tables /\ u \notin DOMAIN d.tables
    BY <1>1, <1>2
  <2>2. /\ IsDb(e) /\ Same(d, e) /\ DOMAIN e.tables = (DOMAIN d.tables \ {t}) \union {u}
        /\ \A s \in DOMAIN d.tables \ {t} : e.tables[s] = d.tables[s]
        /\ e.tables[u] = d.tables[t]
    BY <1>2, <2>1, RenameTableOk DEF TalentProfilesUp
  <2> QED BY <1>1, <1>2, <2>2
<1> HIDE DEF e
<1>4. /\ Version(14, u) = Made(Talent8, {}, "CASCADE")
      /\ Version(13, t) = Made(Talent8, {}, "CASCADE")
  BY DEF Version
<1>5. TableOk(how, 14, u, e.tables[u])
  BY <1>2, <1>3, <1>4 DEF TableOk, Lost
<1>6. \A s \in Names(14) : 14 \in Touched(s) <=> s = u
  BY <1>1, NamesAt DEF Touched, TableNames
<1>7. RolesOk(14, e)
  BY <1>2, <1>3, RolesStay
<1>8. Renewed(how, 14, 14, d, e)
  BY <1>1, <1>3, <1>5, <1>6, <1>7 DEF Renewed
<1>9. After(13, 14)
  BY DEF After
<1>10. Good(how, 14, e)
  BY <1>9, <1>8, CarriedUp
<1> QED BY <1>10 DEF e

\* 15. ResetOtps.
LEMMA Up15 ==
    ASSUME NEW how, NEW d, Good(how, 14, d)
    PROVE  Good(how, 15, ResetOtpsUp(d))
<1> DEFINE t == "password_reset_tokens"
           u == "password_reset_otps"
           a == DropTable(DropReference(d, t), t)
           e == ResetOtpsUp(d)
<1>1. /\ Names(15) = (Names(14) \ {t}) \union {u} /\ t \in Names(14) /\ u \notin Names(14)
      /\ "users" \in Names(14)
  BY DEF Names, From, Within
<1>2. IsDb(d) /\ DOMAIN d.tables = Names(14) /\ RolesOk(14, d)
  BY <1>1 DEF Good
<1>3. Shrunk(d, a, {t})
  BY <1>1, <1>2, OldTable
<1>4. e = AddIndex(Reference(CreateIfMissing(a, u, CodeTable), u, "CASCADE"), u, "user_used_expires")
  BY <1>1, <1>2 DEF ResetOtpsUp, Exists
<1> HIDE DEF a, e
<1>5. IsDb(a) /\ "users" \in DOMAIN a.tables /\ u \notin DOMAIN a.tables
  BY <1>1, <1>2, <1>3 DEF Shrunk
<1>6. DOMAIN CodeTable = Fields /\ CodeTable.index = {} /\ CodeTable.null = {}
  BY DEF CodeTable, Table, Fields
<1>7. Grown(a, e, {u}) /\ Like(e.tables[u], Made(CodeTable, {"user_used_expires"}, "CASCADE"))
  BY <1>4, <1>5, <1>6, NewIndexedTable
<1>8. /\ IsDb(e) /\ Same(d, e) /\ DOMAIN e.tables = Names(15)
      /\ \A s \in Names(15) \ {u} : e.tables[s] = d.tables[s]
  BY <1>1, <1>2, <1>3, <1>7 DEF Shrunk, Grown, Same
<1>9. Version(15, u) = Made(CodeTable, {"user_used_expires"}, "CASCADE")
  BY DEF Version, PasswordResetOtpEntity
<1>10. \A s \in Names(15) : 15 \in Touched(s) <=> s = u
  BY <1>1, NamesAt DEF Touched, TableNames
<1>11. RolesOk(15, e)
  BY <1>2, <1>8, RolesStay
<1>12. Renewed(how, 15, 15, d, e)
  BY <1>7, <1>8, <1>9, <1>10, <1>11 DEF Renewed, TableOk
<1>13. After(14, 15)
  BY DEF After
<1>14. Good(how, 15, e)
  BY <1>13, <1>12, CarriedUp
<1> QED BY <1>14 DEF e

\* 16. TalentStepFields.
LEMMA Up16 ==
    ASSUME NEW how, NEW d, Good(how, 15, d)
    PROVE  Good(how, 16, TalentStepFieldsUp(d))
<1> DEFINE t == "talent_profiles"
           e == TalentStepFieldsUp(d)
           x == d.tables[t]
           y == e.tables[t]
           required == {"onboarding_step"}
           optional == {"goal", "role_tracks", "region", "education_level", "linkedin_url"}
           a == DropNotNull(d, t, "role_track")
<1>1. Names(16) = Names(15) /\ t \in Names(15)
  BY DEF Names, From, Within
<1>2. IsDb(d) /\ t \in DOMAIN d.tables /\ TableOk(how, 15, t, x)
  BY <1>1 DEF Good
<1>3. /\ Version(15, t) = Made(Talent8, {}, "CASCADE")
      /\ Version(16, t) = Made(Talent16, {}, "CASCADE")
  BY DEF Version
<1>4. Like(x, Made(Talent8, {}, "CASCADE"))
  BY <1>2, <1>3 DEF TableOk, Lost
<1>5. /\ "role_track" \in Talent8.required
      /\ required \ ((Talent8.required \ {"role_track"}) \union (Talent8.optional \union {"role_track"})) = required
      /\ optional \ ((Talent8.required \ {"role_track"}) \union (Talent8.optional \union {"role_track"})) = optional
      /\ Talent16.required = (Talent8.required \ {"role_track"}) \union required
      /\ Talent16.optional = (Talent8.optional \union {"role_track"}) \union optional
      /\ Talent16.unique = Talent8.unique
  BY DEF Talent8, Talent16, Table
<1>6. /\ Only(d, a, t)
      /\ Kept(x, a.tables[t])
      /\ a.tables[t].null \subseteq a.tables[t].optional
      /\ a.tables[t].required = (Talent8.required \ {"role_track"})
      /\ a.tables[t].optional = (Talent8.optional \union {"role_track"})
  BY <1>2, <1>4, <1>5, DropNotNullOk DEF Like, Shaped, Made
<1>7. e = AddMissing(a, t, required, optional)
  BY DEF TalentStepFieldsUp
<1>8. /\ Only(a, e, t) /\ Kept(a.tables[t], y) /\ y.null \subseteq y.optional
      /\ y.required = (Talent8.required \ {"role_track"}) \union required
      /\ y.optional = (Talent8.optional \union {"role_track"}) \union optional
  BY <1>2, <1>5, <1>6, <1>7, AddMissingOk DEF Only
<1>9. Only(d, e, t)
  BY <1>6, <1>8 DEF Only, Same
<1>10. Like(y, Made(Talent16, {}, "CASCADE"))
  BY <1>4, <1>5, <1>6, <1>8 DEF Like, Shaped, Made, Kept
<1>11. Changes(16, {t})
  BY DEF Changes, Touched, TableNames
<1>12. Only(d, e, t) /\ TableOk(how, 16, t, y)
  BY <1>3, <1>9, <1>10 DEF TableOk
<1> HIDE DEF e
<1>13. Plain(15, 16)
  BY DEF Plain, After
<1>14. Good(how, 16, e)
  BY <1>13, <1>1, <1>11, <1>12, OneUp
<1> QED BY <1>14 DEF e

\* 17. EmployerFields.
LEMMA Up17 ==
    ASSUME NEW how, NEW d, Good(how, 16, d)
    PROVE  Good(how, 17, EmployerFieldsUp(d))
<1> DEFINE t == "employer_profiles"
           e == EmployerFieldsUp(d)
           x == d.tables[t]
           y == e.tables[t]
           required == {}
           optional == {"joining_as", "desired_roles", "region", "hiring_count_range", "company_website"}
           a == DropNotNull(d, t, "company_name")
<1>1. Names(17) = Names(16) /\ t \in Names(16)
  BY DEF Names, From, Within
<1>2. IsDb(d) /\ t \in DOMAIN d.tables /\ TableOk(how, 16, t, x)
  BY <1>1 DEF Good
<1>3. /\ Version(16, t) = Made(Employer8, {}, "CASCADE")
      /\ Version(17, t) = Made(Employer17, {}, "CASCADE")
  BY DEF Version
<1>4. Like(x, Made(Employer8, {}, "CASCADE"))
  BY <1>2, <1>3 DEF TableOk, Lost
<1>5. /\ "company_name" \in Employer8.required
      /\ required \ ((Employer8.required \ {"company_name"}) \union (Employer8.optional \union {"company_name"})) = required
      /\ optional \ ((Employer8.required \ {"company_name"}) \union (Employer8.optional \union {"company_name"})) = optional
      /\ Employer17.required = (Employer8.required \ {"company_name"}) \union required
      /\ Employer17.optional = (Employer8.optional \union {"company_name"}) \union optional
      /\ Employer17.unique = Employer8.unique
  BY DEF Employer8, Employer17, Table
<1>6. /\ Only(d, a, t)
      /\ Kept(x, a.tables[t])
      /\ a.tables[t].null \subseteq a.tables[t].optional
      /\ a.tables[t].required = (Employer8.required \ {"company_name"})
      /\ a.tables[t].optional = (Employer8.optional \union {"company_name"})
  BY <1>2, <1>4, <1>5, DropNotNullOk DEF Like, Shaped, Made
<1>7. e = AddMissing(a, t, required, optional)
  BY DEF EmployerFieldsUp
<1>8. /\ Only(a, e, t) /\ Kept(a.tables[t], y) /\ y.null \subseteq y.optional
      /\ y.required = (Employer8.required \ {"company_name"}) \union required
      /\ y.optional = (Employer8.optional \union {"company_name"}) \union optional
  BY <1>2, <1>5, <1>6, <1>7, AddMissingOk DEF Only
<1>9. Only(d, e, t)
  BY <1>6, <1>8 DEF Only, Same
<1>10. Like(y, Made(Employer17, {}, "CASCADE"))
  BY <1>4, <1>5, <1>6, <1>8 DEF Like, Shaped, Made, Kept
<1>11. Changes(17, {t})
  BY DEF Changes, Touched, TableNames
<1>12. Only(d, e, t) /\ TableOk(how, 17, t, y)
  BY <1>3, <1>9, <1>10 DEF TableOk
<1> HIDE DEF e
<1>13. Plain(16, 17)
  BY DEF Plain, After
<1>14. Good(how, 17, e)
  BY <1>13, <1>1, <1>11, <1>12, OneUp
<1> QED BY <1>14 DEF e

\* 18. EmployerNewFields.
LEMMA Up18 ==
    ASSUME NEW how, NEW d, Good(how, 17, d)
    PROVE  Good(how, 18, EmployerNewFieldsUp(d))
<1> DEFINE t == "employer_profiles"
           e == EmployerNewFieldsUp(d)
           x == d.tables[t]
           y == e.tables[t]
           required == {}
           optional == {"employer_type", "hiring_roles", "hiring_locations"}
<1>1. Names(18) = Names(17) /\ t \in Names(17)
  BY DEF Names, From, Within
<1>2. IsDb(d) /\ t \in DOMAIN d.tables /\ TableOk(how, 17, t, x)
  BY <1>1 DEF Good
<1>3. /\ Version(17, t) = Made(Employer17, {}, "CASCADE")
      /\ Version(18, t) = Made(EmployerProfileEntity, {}, "CASCADE")
  BY DEF Version
<1>4. Like(x, Made(Employer17, {}, "CASCADE"))
  BY <1>2, <1>3 DEF TableOk, Lost
<1>5. /\ required \ (Employer17.required \union Employer17.optional) = required
      /\ optional \ (Employer17.required \union Employer17.optional) = optional
      /\ EmployerProfileEntity.required = Employer17.required \union required
      /\ EmployerProfileEntity.optional = Employer17.optional \union optional
      /\ EmployerProfileEntity.unique = Employer17.unique
  BY DEF Employer8, Employer17, EmployerProfileEntity, Table
<1>6. e = AddMissing(d, t, required, optional)
  BY DEF EmployerNewFieldsUp
<1>7. /\ x.required = Employer17.required
      /\ x.optional = Employer17.optional
      /\ x.null \subseteq x.optional
  BY <1>4 DEF Like, Shaped, Made
<1> HIDE DEF required, optional
<1>8. /\ Only(d, e, t) /\ Kept(x, y) /\ y.null \subseteq y.optional
      /\ y.required = Employer17.required \union required
      /\ y.optional = Employer17.optional \union optional
  BY <1>2, <1>5, <1>6, <1>7, AddMissingOk
<1>9. Like(y, Made(EmployerProfileEntity, {}, "CASCADE"))
  BY <1>4, <1>5, <1>8 DEF Like, Shaped, Made, Kept
<1>10. Changes(18, {t})
  BY DEF Changes, Touched, TableNames
<1>11. Only(d, e, t) /\ TableOk(how, 18, t, y)
  BY <1>3, <1>8, <1>9 DEF TableOk
<1> HIDE DEF e
<1>12. Plain(17, 18)
  BY DEF Plain, After
<1>13. Good(how, 18, e)
  BY <1>12, <1>1, <1>10, <1>11, OneUp
<1> QED BY <1>13 DEF e

\* 19. TalentTrack.
LEMMA Up19 ==
    ASSUME NEW how, NEW d, Good(how, 18, d)
    PROVE  Good(how, 19, TalentTrackUp(d))
<1> DEFINE t == "talent_profiles"
           e == TalentTrackUp(d)
           x == d.tables[t]
           y == e.tables[t]
           required == {"profile_verified"}
           optional == {"track"}
<1>1. Names(19) = Names(18) /\ t \in Names(18)
  BY DEF Names, From, Within
<1>2. IsDb(d) /\ t \in DOMAIN d.tables /\ TableOk(how, 18, t, x)
  BY <1>1 DEF Good
<1>3. /\ Version(18, t) = Made(Talent16, {}, "CASCADE")
      /\ Version(19, t) = Made(TalentProfileEntity, {}, "CASCADE")
  BY DEF Version
<1>4. Like(x, Made(Talent16, {}, "CASCADE"))
  BY <1>2, <1>3 DEF TableOk, Lost
<1>5. /\ required \ (Talent16.required \union Talent16.optional) = required
      /\ optional \ (Talent16.required \union Talent16.optional) = optional
      /\ TalentProfileEntity.required = Talent16.required \union required
      /\ TalentProfileEntity.optional = Talent16.optional \union optional
      /\ TalentProfileEntity.unique = Talent16.unique
  BY DEF Talent8, Talent16, TalentProfileEntity, Table
<1>6. e = AddMissing(d, t, required, optional)
  BY DEF TalentTrackUp
<1>7. /\ x.required = Talent16.required
      /\ x.optional = Talent16.optional
      /\ x.null \subseteq x.optional
  BY <1>4 DEF Like, Shaped, Made
<1> HIDE DEF required, optional
<1>8. /\ Only(d, e, t) /\ Kept(x, y) /\ y.null \subseteq y.optional
      /\ y.required = Talent16.required \union required
      /\ y.optional = Talent16.optional \union optional
  BY <1>2, <1>5, <1>6, <1>7, AddMissingOk
<1>9. Like(y, Made(TalentProfileEntity, {}, "CASCADE"))
  BY <1>4, <1>5, <1>8 DEF Like, Shaped, Made, Kept
<1>10. Changes(19, {t})
  BY DEF Changes, Touched, TableNames
<1>11. Only(d, e, t) /\ TableOk(how, 19, t, y)
  BY <1>3, <1>8, <1>9 DEF TableOk
<1> HIDE DEF e
<1>12. Plain(18, 19)
  BY DEF Plain, After
<1>13. Good(how, 19, e)
  BY <1>12, <1>1, <1>10, <1>11, OneUp
<1> QED BY <1>13 DEF e

-----------------------------------------------------------------------------
(* The way back.  Migration 6 has none.                                     *)

\* 1. CreateUsers, back.
LEMMA Down1 ==
    ASSUME NEW d, Good("reverted", 1, d)
    PROVE  Good("reverted", 0, CreateUsersDown(d))
<1> DEFINE a == DropTable(d, "users")
           e == CreateUsersDown(d)
<1>1. Names(0) = {} /\ Names(1) = {"users"}
  BY DEF Names, From, Within
<1>2. IsDb(d) /\ DOMAIN d.tables = {"users"} /\ d.tables["users"].onDelete = "none"
  <2>1. Version(1, "users") = Made(Users1, {}, "none")
    BY DEF Version
  <2> QED BY <1>1, <2>1 DEF Good, TableOk, Lost, Like, Shaped, Made
<1>3. /\ IsDb(a) /\ DOMAIN a.tables = DOMAIN d.tables \ {"users"}
  BY <1>2, DropTableOk
<1> HIDE DEF a
<1>4. e = [a EXCEPT !.labels = {}, !.held = {}, !.default = "none"]
  BY DEF CreateUsersDown, a
<1> HIDE DEF e
<1>5. /\ IsDb(e) /\ DOMAIN e.tables = {} /\ e.labels = {} /\ e.held = {} /\ e.default = "none"
  BY <1>2, <1>3, <1>4 DEF IsDb
<1>6. Good("reverted", 0, e)
  BY <1>1, <1>5 DEF Good, RolesOk
<1> QED BY <1>6 DEF e

\* 2. AlignUsers, back.
LEMMA Down2 ==
    ASSUME NEW d, Good("reverted", 2, d)
    PROVE  Good("reverted", 1, AlignUsersDown(d))
<1> DEFINE t == "users"
           columns == {"onboarding_complete", "is_verified", "country"}
           a == RecastRole(d, {"admin", "user"},
                           [r \in d.labels |-> IF r = "admin" THEN r ELSE "user"], "user")
           e == AlignUsersDown(d)
<1>1. Names(1) = {t} /\ Names(2) = {t}
  BY DEF Names, From, Within
<1>2. Version(1, t) = Made(Users1, {}, "none") /\ Version(2, t) = Made(Users2, {}, "none")
  BY DEF Version
<1>3. IsDb(d) /\ DOMAIN d.tables = {t} /\ Like(d.tables[t], Made(Users2, {}, "none"))
  BY <1>1, <1>2 DEF Good, TableOk, Lost
<1>4. /\ IsDb(a) /\ a.tables = d.tables /\ a.labels = {"admin", "user"}
      /\ a.held \subseteq a.labels /\ a.default = "user"
  <2>1. d.held \subseteq d.labels
    BY DEF Good, RolesOk
  <2> QED BY <1>3, <2>1, RecastRoleOk
<1>5. e = DropColumns(a, t, columns)
  BY DEF AlignUsersDown
<1> HIDE DEF a
<1>6. /\ columns \subseteq Users2.required \union Users2.optional
      /\ Users2.required \ columns = Users1.required
      /\ Users2.optional \ columns = Users1.optional
      /\ Users1.unique = Users2.unique
  BY DEF Users1, Users2, Table
<1>7. /\ Only(a, e, t) /\ Kept(d.tables[t], e.tables[t])
      /\ e.tables[t].required = Users1.required /\ e.tables[t].optional = Users1.optional
      /\ e.tables[t].null \subseteq e.tables[t].optional
  <2>1. /\ d.tables[t].required = Users2.required /\ d.tables[t].optional = Users2.optional
        /\ d.tables[t].null \subseteq d.tables[t].optional
    BY <1>3 DEF Like, Shaped, Made
  <2>2. t \in DOMAIN a.tables
    BY <1>3, <1>4
  <2> HIDE DEF columns, e
  <2>3. /\ Only(a, e, t) /\ Kept(d.tables[t], e.tables[t])
        /\ e.tables[t].required = d.tables[t].required \ columns
        /\ e.tables[t].optional = d.tables[t].optional \ columns
        /\ e.tables[t].null = d.tables[t].null \ columns
    BY <1>4, <1>5, <1>6, <2>1, <2>2, DropColumnsOk
  <2> QED BY <1>6, <2>1, <2>3
<1> HIDE DEF e
<1>8. Like(e.tables[t], Made(Users1, {}, "none"))
  BY <1>3, <1>6, <1>7 DEF Like, Shaped, Made, Kept
<1>9. /\ IsDb(e) /\ DOMAIN e.tables = Names(1) /\ RolesOk(1, e)
  BY <1>1, <1>3, <1>4, <1>7 DEF Only, Same, RolesOk
<1>10. Good("reverted", 1, e)
  BY <1>1, <1>2, <1>8, <1>9 DEF Good, TableOk
<1> QED BY <1>10 DEF e

\* 3. CreateVerificationOtps, back.
LEMMA Down3 ==
    ASSUME NEW d, Good("reverted", 3, d)
    PROVE  Good("reverted", 2, CreateVerificationOtpsDown(d))
<1> DEFINE t == "verification_otps"
           e == CreateVerificationOtpsDown(d)
<1>1. Names(2) = Names(3) \ {t} /\ t \in Names(3)
  BY DEF Names, From, Within
<1>2. IsDb(d) /\ t \in DOMAIN d.tables /\ TableOk("reverted", 3, t, d.tables[t])
  BY <1>1 DEF Good
<1>3. Version(3, t) = Made(VerificationOtpEntity, {"user_created_at"}, "CASCADE")
  BY DEF Version
<1>4. d.tables[t].index = {"user_created_at"}
  BY <1>2, <1>3 DEF TableOk, Lost, Like, Made
<1>5. Shrunk(d, e, {t}) /\ Names(2) = Names(3) \ {t}
  BY <1>1, <1>2, <1>4, ShrunkThenGone DEF CreateVerificationOtpsDown
<1>6. Changes(3, {t})
  BY DEF Changes, Touched, TableNames
<1> HIDE DEF e
<1>7. PlainBack(2, 3)
  BY DEF PlainBack, Plain, After
<1>8. Good("reverted", 2, e)
  BY <1>7, <1>5, <1>6, RemovedDown
<1> QED BY <1>8 DEF e

\* 4. CreateUserOauthAccounts, back.
LEMMA Down4 ==
    ASSUME NEW d, Good("reverted", 4, d)
    PROVE  Good("reverted", 3, CreateUserOauthAccountsDown(d))
<1> DEFINE t == "user_oauth_accounts"
           e == CreateUserOauthAccountsDown(d)
<1>1. Names(3) = Names(4) \ {t} /\ t \in Names(4)
  BY DEF Names, From, Within
<1>2. IsDb(d) /\ t \in DOMAIN d.tables
  BY <1>1 DEF Good
<1>3. Shrunk(d, e, {t}) /\ Names(3) = Names(4) \ {t}
  BY <1>1, <1>2, OldTable DEF CreateUserOauthAccountsDown
<1>4. Changes(4, {t})
  BY DEF Changes, Touched, TableNames
<1> HIDE DEF e
<1>5. PlainBack(3, 4)
  BY DEF PlainBack, Plain, After
<1>6. Good("reverted", 3, e)
  BY <1>5, <1>3, <1>4, RemovedDown
<1> QED BY <1>6 DEF e

\* 5. CreateInquiriesTables, back.
LEMMA Down5 ==
    ASSUME NEW d, Good("reverted", 5, d)
    PROVE  Good("reverted", 4, CreateInquiriesTablesDown(d))
<1> DEFINE t == "waitlist_entries"
           u == "contact_messages"
           a == DropTable(DropIndex(d, u, "created_at"), u)
           e == CreateInquiriesTablesDown(d)
<1>1. Names(4) = Names(5) \ {t, u} /\ t \in Names(5) /\ u \in Names(5)
  BY DEF Names, From, Within
<1>2. /\ IsDb(d) /\ DOMAIN d.tables = Names(5)
      /\ TableOk("reverted", 5, t, d.tables[t]) /\ TableOk("reverted", 5, u, d.tables[u])
  BY <1>1 DEF Good
<1>3. /\ Version(5, t) = Made(Waitlist5, {"created_at"}, "none")
      /\ Version(5, u) = Made(ContactMessageEntity, {"created_at"}, "none")
  BY DEF Version
<1>4. d.tables[t].index = {"created_at"} /\ d.tables[u].index = {"created_at"}
  BY <1>2, <1>3 DEF TableOk, Lost, Like, Made
<1>5. Shrunk(d, a, {u})
  BY <1>1, <1>2, <1>4, ShrunkThenGone
<1>6. e = DropTable(DropIndex(a, t, "created_at"), t)
  BY DEF CreateInquiriesTablesDown
<1> HIDE DEF a, e
<1>7. IsDb(a) /\ t \in DOMAIN a.tables /\ a.tables[t] = d.tables[t]
  BY <1>1, <1>2, <1>5 DEF Shrunk
<1>8. Shrunk(a, e, {t})
  BY <1>4, <1>6, <1>7, ShrunkThenGone
<1>9. Shrunk(d, e, {t, u}) /\ Names(4) = Names(5) \ {t, u}
  BY <1>1, <1>5, <1>8 DEF Shrunk, Same
<1>10. Changes(5, {t, u})
  BY DEF Changes, Touched, TableNames
<1>11. PlainBack(4, 5)
  BY DEF PlainBack, Plain, After
<1>12. Good("reverted", 4, e)
  BY <1>11, <1>9, <1>10, RemovedDown
<1> QED BY <1>12 DEF e

\* 7. PasswordNullableForOAuth, back: refused when a user has no password.
LEMMA Down7 ==
    ASSUME NEW d, Good("reverted", 7, d)
    PROVE  IF HasNull(d, "users", "password") THEN PasswordNullableDown(d).thrown
           ELSE Good("reverted", 6, PasswordNullableDown(d))
<1> DEFINE t == "users"
           e == PasswordNullableDown(d)
           x == d.tables[t]
           y == e.tables[t]
<1>1. Names(7) = Names(6) /\ t \in Names(7)
  BY DEF Names, From, Within
<1>2. IsDb(d) /\ t \in DOMAIN d.tables /\ TableOk("reverted", 7, t, x)
  BY <1>1 DEF Good
<1>3. CASE HasNull(d, t, "password")
  BY <1>2, <1>3 DEF PasswordNullableDown, Step, IsDb
<1>4. CASE ~HasNull(d, t, "password")
  <2>1. /\ Version(6, t) = Made(Users2, {}, "none") /\ Version(7, t) = Made(Users7, {}, "none")
        /\ Version(9, t) = Made(Users7, {}, "none")
    BY DEF Version
  <2>2. Like(x, Made(Users2, {}, "none")) \/ Like(x, Made(Users7, {}, "none"))
    BY <1>2, <2>1 DEF TableOk, Lost
  <2>3. /\ Users7.required = Users2.required \ {"password"} /\ "password" \in Users2.required
        /\ Users7.optional = Users2.optional \union {"password"}
        /\ Users7.unique = Users2.unique
        /\ "password" \notin Users2.optional
    BY DEF Users1, Users2, Users7, Table
  <2>4. "password" \in x.required \union x.optional
    BY <2>2, <2>3 DEF Like, Shaped, Made
  <2>5. e = SetNotNull(d, t, "password")
    BY <1>2, <1>4 DEF PasswordNullableDown, Step, IsDb
  <2> HIDE DEF e
  <2>6. /\ Only(d, e, t) /\ Kept(x, y)
        /\ y.required = x.required \union {"password"} /\ y.optional = x.optional \ {"password"}
        /\ y.null = x.null
    BY <1>2, <1>4, <2>4, <2>5, SetNotNullOk
  <2>7. /\ x.required \union {"password"} = Users2.required
        /\ x.optional \ {"password"} = Users2.optional
    BY <2>2, <2>3 DEF Like, Shaped, Made
  <2>8. "password" \notin x.null /\ x.null \subseteq x.optional /\ x.unique = Users2.unique
        /\ x.index = {} /\ x.onDelete = "none"
    BY <1>4, <2>2, <2>3 DEF HasNull, Like, Shaped, Made
  <2>9. Like(y, Made(Users2, {}, "none"))
    BY <2>6, <2>7, <2>8 DEF Like, Shaped, Made, Kept
  <2>10. TableOk("reverted", 6, t, y)
    BY <2>1, <2>9 DEF TableOk, Lost
  <2>11. Changes(7, {t})
    BY DEF Changes, Touched, TableNames
  <2>12. PlainBack(6, 7)
    BY DEF PlainBack, Plain, After
  <2>13. Good("reverted", 6, e)
    BY <1>1, <2>6, <2>10, <2>11, <2>12, OneDown
  <2> QED BY <1>4, <2>13 DEF e
<1> QED BY <1>3, <1>4

\* 8. CreateRoleProfiles, back.
LEMMA Down8 ==
    ASSUME NEW d, Good("reverted", 8, d)
    PROVE  Good("reverted", 7, CreateRoleProfilesDown(d))
<1> DEFINE t == "candidate_profiles"
           u == "employer_profiles"
           a == DropTable(d, u)
           e == CreateRoleProfilesDown(d)
<1>1. Names(7) = Names(8) \ {t, u} /\ t \in Names(8) /\ u \in Names(8)
  BY DEF Names, From, Within
<1>2. IsDb(d) /\ DOMAIN d.tables = Names(8)
  BY DEF Good
<1>3. Shrunk(d, a, {u})
  BY <1>1, <1>2, DropTableOk DEF Shrunk
<1>4. e = DropTable(a, t)
  BY DEF CreateRoleProfilesDown
<1> HIDE DEF a, e
<1>5. IsDb(a) /\ t \in DOMAIN a.tables
  BY <1>1, <1>2, <1>3 DEF Shrunk
<1>6. Shrunk(a, e, {t})
  BY <1>4, <1>5, DropTableOk DEF Shrunk
<1>7. Shrunk(d, e, {t, u}) /\ Names(7) = Names(8) \ {t, u}
  BY <1>1, <1>3, <1>6 DEF Shrunk, Same
<1>8. Changes(8, {t, u})
  BY DEF Changes, Touched, TableNames
<1>9. PlainBack(7, 8)
  BY DEF PlainBack, Plain, After
<1>10. Good("reverted", 7, e)
  BY <1>9, <1>7, <1>8, RemovedDown
<1> QED BY <1>10 DEF e

\* 9. PasswordNullable, back: refused when a user has no password.
LEMMA Down9 ==
    ASSUME NEW d, Good("reverted", 9, d)
    PROVE  IF HasNull(d, "users", "password") THEN PasswordNullableDown(d).thrown
           ELSE Good("reverted", 8, PasswordNullableDown(d))
<1> DEFINE t == "users"
           e == PasswordNullableDown(d)
           x == d.tables[t]
           y == e.tables[t]
<1>1. Names(9) = Names(8) /\ t \in Names(9)
  BY DEF Names, From, Within
<1>2. IsDb(d) /\ t \in DOMAIN d.tables /\ TableOk("reverted", 9, t, x)
  BY <1>1 DEF Good
<1>3. CASE HasNull(d, t, "password")
  BY <1>2, <1>3 DEF PasswordNullableDown, Step, IsDb
<1>4. CASE ~HasNull(d, t, "password")
  <2>1. /\ Version(6, t) = Made(Users2, {}, "none") /\ Version(7, t) = Made(Users7, {}, "none")
        /\ Version(9, t) = Made(Users7, {}, "none")
    BY DEF Version
  <2>2. Like(x, Made(Users2, {}, "none")) \/ Like(x, Made(Users7, {}, "none"))
    BY <1>2, <2>1 DEF TableOk, Lost
  <2>3. /\ Users7.required = Users2.required \ {"password"} /\ "password" \in Users2.required
        /\ Users7.optional = Users2.optional \union {"password"}
        /\ Users7.unique = Users2.unique
        /\ "password" \notin Users2.optional
    BY DEF Users1, Users2, Users7, Table
  <2>4. "password" \in x.required \union x.optional
    BY <2>2, <2>3 DEF Like, Shaped, Made
  <2>5. e = SetNotNull(d, t, "password")
    BY <1>2, <1>4 DEF PasswordNullableDown, Step, IsDb
  <2> HIDE DEF e
  <2>6. /\ Only(d, e, t) /\ Kept(x, y)
        /\ y.required = x.required \union {"password"} /\ y.optional = x.optional \ {"password"}
        /\ y.null = x.null
    BY <1>2, <1>4, <2>4, <2>5, SetNotNullOk
  <2>7. /\ x.required \union {"password"} = Users2.required
        /\ x.optional \ {"password"} = Users2.optional
    BY <2>2, <2>3 DEF Like, Shaped, Made
  <2>8. "password" \notin x.null /\ x.null \subseteq x.optional /\ x.unique = Users2.unique
        /\ x.index = {} /\ x.onDelete = "none"
    BY <1>4, <2>2, <2>3 DEF HasNull, Like, Shaped, Made
  <2>9. Like(y, Made(Users2, {}, "none"))
    BY <2>6, <2>7, <2>8 DEF Like, Shaped, Made, Kept
  <2>10. TableOk("reverted", 8, t, y)
    BY <2>1, <2>9 DEF TableOk, Lost
  <2>11. Changes(9, {t})
    BY DEF Changes, Touched, TableNames
  <2>12. PlainBack(8, 9)
    BY DEF PlainBack, Plain, After
  <2>13. Good("reverted", 8, e)
    BY <1>1, <2>6, <2>10, <2>11, <2>12, OneDown
  <2> QED BY <1>4, <2>13 DEF e
<1> QED BY <1>3, <1>4

\* 10. RestoreIndexes, back.
LEMMA Down10 ==
    ASSUME NEW d, Good("reverted", 10, d)
    PROVE  Good("reverted", 9, RestoreIndexesDown(d))
<1> DEFINE t == "waitlist_entries"
           u == "contact_messages"
           v == "verification_otps"
           a == DropIndexIfThere(d, v, "user_created_at")
           b == DropIndexIfThere(a, u, "created_at")
           e == RestoreIndexesDown(d)
<1>1. Names(10) = Names(9) /\ t \in Names(9) /\ u \in Names(9) /\ v \in Names(9)
  BY DEF Names, From, Within
<1>2. /\ IsDb(d) /\ DOMAIN d.tables = Names(9) /\ RolesOk(10, d)
      /\ TableOk("reverted", 10, t, d.tables[t]) /\ TableOk("reverted", 10, u, d.tables[u])
      /\ TableOk("reverted", 10, v, d.tables[v])
  BY <1>1 DEF Good
<1>3. /\ Version(10, t) = Made(Waitlist5, {"created_at"}, "none")
      /\ Version(10, t) = Version(9, t)
      /\ Version(10, u) = Made(ContactMessageEntity, {"created_at"}, "none")
      /\ Version(10, u) = Version(9, u)
      /\ Version(10, v) = Made(VerificationOtpEntity, {"user_created_at"}, "CASCADE")
      /\ Version(10, v) = Version(9, v)
  BY DEF Version
<1>4. /\ d.tables[t].index \ {"created_at"} = {} /\ Shaped(d.tables[t], Version(9, t))
      /\ d.tables[u].index \ {"created_at"} = {} /\ Shaped(d.tables[u], Version(9, u))
      /\ d.tables[v].index \ {"user_created_at"} = {} /\ Shaped(d.tables[v], Version(9, v))
  BY <1>2, <1>3 DEF TableOk, Lost, Like, Made
<1>5. /\ Only(d, a, v) /\ KeptBut(d.tables[v], a.tables[v])
      /\ a.tables[v].onDelete = d.tables[v].onDelete /\ a.tables[v].index = {}
  BY <1>1, <1>2, <1>4, IndexOk
<1> HIDE DEF a
<1>6. /\ IsDb(a)
      /\ DOMAIN a.tables = Names(9)
      /\ a.tables[u] = d.tables[u]
      /\ a.tables[t] = d.tables[t]
  BY <1>1, <1>2, <1>5 DEF Only
<1>7. /\ Only(a, b, u) /\ KeptBut(d.tables[u], b.tables[u])
      /\ b.tables[u].onDelete = d.tables[u].onDelete /\ b.tables[u].index = {}
  BY <1>1, <1>4, <1>6, IndexOk
<1>8. e = DropIndexIfThere(b, t, "created_at")
  BY DEF RestoreIndexesDown, a
<1> HIDE DEF b, e
<1>9. IsDb(b) /\ DOMAIN b.tables = Names(9) /\ b.tables[t] = d.tables[t]
  BY <1>1, <1>6, <1>7 DEF Only
<1>10. /\ Only(b, e, t) /\ KeptBut(d.tables[t], e.tables[t])
       /\ e.tables[t].onDelete = d.tables[t].onDelete /\ e.tables[t].index = {}
  BY <1>1, <1>4, <1>8, <1>9, IndexOk
<1>11. /\ IsDb(e) /\ Same(d, e) /\ DOMAIN e.tables = Names(9)
       /\ \A s \in Names(9) \ {t, u, v} : e.tables[s] = d.tables[s]
       /\ e.tables[v] = a.tables[v] /\ e.tables[u] = b.tables[u]
  BY <1>1, <1>2, <1>5, <1>6, <1>7, <1>9, <1>10 DEF Only, Same
<1>12. /\ Lost(9, t, e.tables[t]) /\ Lost(9, u, e.tables[u]) /\ Lost(9, v, e.tables[v])
  BY <1>4, <1>5, <1>7, <1>10, <1>11 DEF Lost, Shaped, KeptBut
<1>13. RolesOk(9, e)
  BY <1>2, <1>11, RolesStay
<1>14. \A s \in Names(9) : 10 \in Touched(s) <=> s \in {t, u, v}
  BY NamesAt DEF Touched, TableNames
<1>15. Renewed("reverted", 9, 10, d, e)
  BY <1>11, <1>12, <1>13, <1>14 DEF Renewed, TableOk
<1>16. Before(9, 10)
  BY DEF Before, After
<1>17. Good("reverted", 9, e)
  BY <1>16, <1>15, CarriedDown
<1> QED BY <1>17 DEF e

\* 11. CreateResetTokens, back.
LEMMA Down11 ==
    ASSUME NEW d, Good("reverted", 11, d)
    PROVE  Good("reverted", 10, CreateResetTokensDown(d))
<1> DEFINE t == "password_reset_tokens"
           e == CreateResetTokensDown(d)
<1>1. Names(10) = Names(11) \ {t} /\ t \in Names(11)
  BY DEF Names, From, Within
<1>2. IsDb(d) /\ t \in DOMAIN d.tables /\ TableOk("reverted", 11, t, d.tables[t])
  BY <1>1 DEF Good
<1>3. Version(11, t) = Made(ResetTokens, {"user_used_expires"}, "CASCADE")
  BY DEF Version
<1>4. d.tables[t].index = {"user_used_expires"}
  BY <1>2, <1>3 DEF TableOk, Lost, Like, Made
<1>5. Shrunk(d, e, {t}) /\ Names(10) = Names(11) \ {t}
  BY <1>1, <1>2, <1>4, ShrunkThenGone DEF CreateResetTokensDown
<1>6. Changes(11, {t})
  BY DEF Changes, Touched, TableNames
<1> HIDE DEF e
<1>7. PlainBack(10, 11)
  BY DEF PlainBack, Plain, After
<1>8. Good("reverted", 10, e)
  BY <1>7, <1>5, <1>6, RemovedDown
<1> QED BY <1>8 DEF e

\* 12. CandidateToTalent, back.
LEMMA Down12 ==
    ASSUME NEW d, Good("reverted", 12, d)
    PROVE  Good("reverted", 11, CandidateToTalentDown(d))
<1> DEFINE e == CandidateToTalentDown(d)
<1>1. Names(12) = Names(11) /\ "users" \in Names(11)
  BY DEF Names, From, Within
<1>2. /\ IsDb(d) /\ DOMAIN d.tables = Names(11)
      /\ d.labels = {"admin", "talent", "employer"} /\ d.held \subseteq d.labels
  BY <1>1 DEF Good, RolesOk
<1>3. /\ IsDb(e) /\ e.tables = d.tables
      /\ e.labels = (d.labels \ {"talent"}) \union {"candidate"}
      /\ e.held \subseteq e.labels /\ e.default = "candidate"
  BY <1>1, <1>2, RenameRoleOk DEF CandidateToTalentDown
<1> HIDE DEF e
<1>4. RolesOk(11, e)
  BY <1>2, <1>3 DEF RolesOk
<1>5. \A s \in Names(11) : 12 \notin Touched(s)
  BY NamesAt DEF Touched, TableNames
<1>6. Renewed("reverted", 11, 12, d, e)
  BY <1>1, <1>2, <1>3, <1>4, <1>5 DEF Renewed
<1>7. Before(11, 12)
  BY DEF Before, After
<1>8. Good("reverted", 11, e)
  BY <1>7, <1>6, CarriedDown
<1> QED BY <1>8 DEF e

\* 13. ExtendWaitlist, back.
LEMMA Down13 ==
    ASSUME NEW d, Good("reverted", 13, d)
    PROVE  Good("reverted", 12, ExtendWaitlistDown(d))
<1> DEFINE t == "users"
           u == "waitlist_entries"
           old == {"referral_source", "preferred_role", "full_name", "joining_as"}
           reason == {"signup_reason"}
           a == DropColumns(d, u, old)
           e == ExtendWaitlistDown(d)
           x == d.tables[t]
           y == d.tables[u]
<1>1. Names(13) = Names(12) /\ t \in Names(12) /\ u \in Names(12)
  BY DEF Names, From, Within
<1>2. /\ Version(12, t) = Made(Users7, {}, "none")
      /\ Version(13, t) = Made(UserEntity, {}, "none")
      /\ Version(12, u) = Made(Waitlist5, {"created_at"}, "none")
      /\ Version(13, u) = Made(WaitlistEntryEntity, {"created_at"}, "none")
  BY DEF Version
<1>3. /\ IsDb(d) /\ DOMAIN d.tables = Names(12) /\ RolesOk(13, d)
      /\ Like(x, Made(UserEntity, {}, "none"))
      /\ Like(y, Made(WaitlistEntryEntity, {"created_at"}, "none"))
  BY <1>1, <1>2 DEF Good, TableOk, Lost
<1>4. /\ reason \subseteq UserEntity.required \union UserEntity.optional
      /\ UserEntity.required \ reason = Users7.required
      /\ UserEntity.optional \ reason = Users7.optional
      /\ Users7.unique = UserEntity.unique
  BY DEF Users1, Users2, Users7, UserEntity, Table
<1>5. /\ old \subseteq WaitlistEntryEntity.required \union WaitlistEntryEntity.optional
      /\ WaitlistEntryEntity.required \ old = Waitlist5.required
      /\ WaitlistEntryEntity.optional \ old = Waitlist5.optional
      /\ Waitlist5.unique = WaitlistEntryEntity.unique
  BY DEF Waitlist5, WaitlistEntryEntity, Table
<1>6. /\ x.required = UserEntity.required /\ x.optional = UserEntity.optional
      /\ x.null \subseteq x.optional
      /\ y.required = WaitlistEntryEntity.required /\ y.optional = WaitlistEntryEntity.optional
      /\ y.null \subseteq y.optional
  BY <1>3 DEF Like, Shaped, Made
<1>7. e = DropColumns(a, t, reason)
  BY DEF ExtendWaitlistDown
<1> HIDE DEF old, reason, e
<1>8. /\ Only(d, a, u) /\ Kept(y, a.tables[u])
      /\ a.tables[u].required = Waitlist5.required /\ a.tables[u].optional = Waitlist5.optional
      /\ a.tables[u].null \subseteq a.tables[u].optional
  <2>1. /\ Only(d, a, u) /\ Kept(y, a.tables[u]) /\ a.tables[u].required = y.required \ old
        /\ a.tables[u].optional = y.optional \ old /\ a.tables[u].null = y.null \ old
    BY <1>1, <1>3, <1>5, <1>6, DropColumnsOk
  <2> QED BY <1>5, <1>6, <2>1
<1> HIDE DEF a
<1>9. IsDb(a) /\ t \in DOMAIN a.tables /\ a.tables[t] = x
  BY <1>1, <1>3, <1>8 DEF Only
<1>10. /\ Only(a, e, t) /\ Kept(x, e.tables[t])
       /\ e.tables[t].required = Users7.required /\ e.tables[t].optional = Users7.optional
       /\ e.tables[t].null \subseteq e.tables[t].optional
  <2>1. /\ Only(a, e, t) /\ Kept(x, e.tables[t]) /\ e.tables[t].required = x.required \ reason
        /\ e.tables[t].optional = x.optional \ reason /\ e.tables[t].null = x.null \ reason
    BY <1>4, <1>6, <1>7, <1>9, DropColumnsOk
  <2> QED BY <1>4, <1>6, <2>1
<1>11. /\ IsDb(e) /\ Same(d, e) /\ DOMAIN e.tables = Names(12) /\ e.tables[u] = a.tables[u]
       /\ \A s \in Names(12) \ {t, u} : e.tables[s] = d.tables[s]
  BY <1>1, <1>3, <1>8, <1>10 DEF Only, Same
<1>12. /\ Like(e.tables[t], Made(Users7, {}, "none"))
       /\ Like(e.tables[u], Made(Waitlist5, {"created_at"}, "none"))
  BY <1>3, <1>4, <1>5, <1>6, <1>8, <1>10, <1>11 DEF Like, Shaped, Made, Kept
<1>13. RolesOk(12, e)
  BY <1>3, <1>11, RolesStay
<1>14. \A s \in Names(12) : 13 \in Touched(s) <=> s \in {t, u}
  BY NamesAt DEF Touched, TableNames
<1>15. Renewed("reverted", 12, 13, d, e)
  BY <1>2, <1>11, <1>12, <1>13, <1>14 DEF Renewed, TableOk
<1>16. Before(12, 13)
  BY DEF Before, After
<1>17. Good("reverted", 12, e)
  BY <1>16, <1>15, CarriedDown
<1> QED BY <1>17 DEF e

\* 14. TalentProfiles, back.
LEMMA Down14 ==
    ASSUME NEW d, Good("reverted", 14, d)
    PROVE  Good("reverted", 13, TalentProfilesDown(d))
<1> DEFINE t == "candidate_profiles"
           u == "talent_profiles"
           e == TalentProfilesDown(d)
<1>1. Names(13) = (Names(14) \ {u}) \union {t} /\ u \in Names(14) /\ t \notin Names(14)
  BY DEF Names, From, Within
<1>2. /\ IsDb(d) /\ DOMAIN d.tables = Names(14) /\ RolesOk(14, d)
      /\ TableOk("reverted", 14, u, d.tables[u])
  BY <1>1 DEF Good
<1>3. /\ IsDb(e) /\ Same(d, e) /\ DOMAIN e.tables = Names(13)
      /\ \A s \in Names(14) \ {u} : e.tables[s] = d.tables[s]
      /\ e.tables[t] = d.tables[u]
  <2>1. u \in DOMAIN d.tables /\ t \notin DOMAIN d.tables
    BY <1>1, <1>2
  <2>2. /\ IsDb(e) /\ Same(d, e) /\ DOMAIN e.tables = (DOMAIN d.tables \ {u}) \union {t}
        /\ \A s \in DOMAIN d.tables \ {u} : e.tables[s] = d.tables[s]
        /\ e.tables[t] = d.tables[u]
    BY <1>2, <2>1, RenameTableOk DEF TalentProfilesDown
  <2> QED BY <1>1, <1>2, <2>2
<1> HIDE DEF e
<1>4. /\ Version(14, u) = Made(Talent8, {}, "CASCADE")
      /\ Version(13, t) = Made(Talent8, {}, "CASCADE")
  BY DEF Version
<1>5. TableOk("reverted", 13, t, e.tables[t])
  BY <1>2, <1>3, <1>4 DEF TableOk, Lost
<1>6. \A s \in Names(13) : 14 \in Touched(s) <=> s = t
  BY <1>1, NamesAt DEF Touched, TableNames
<1>7. RolesOk(13, e)
  BY <1>2, <1>3, RolesStay
<1>8. Renewed("reverted", 13, 14, d, e)
  BY <1>1, <1>3, <1>5, <1>6, <1>7 DEF Renewed
<1>9. Before(13, 14)
  BY DEF Before, After
<1>10. Good("reverted", 13, e)
  BY <1>9, <1>8, CarriedDown
<1> QED BY <1>10 DEF e

\* 15. ResetOtps, back.
LEMMA Down15 ==
    ASSUME NEW d, Good("reverted", 15, d)
    PROVE  Good("reverted", 14, ResetOtpsDown(d))
<1> DEFINE t == "password_reset_tokens"
           u == "password_reset_otps"
           i == "user_used_expires"
           a == DropOtps(d)
           e == ResetOtpsDown(d)
<1>1. /\ Names(14) = (Names(15) \ {u}) \union {t} /\ u \in Names(15) /\ t \notin Names(15)
      /\ "users" \in Names(15)
  BY DEF Names, From, Within
<1>2. /\ IsDb(d) /\ DOMAIN d.tables = Names(15) /\ RolesOk(15, d)
      /\ TableOk("reverted", 15, u, d.tables[u])
  BY <1>1 DEF Good
<1>3. Version(15, u) = Made(PasswordResetOtpEntity, {i}, "CASCADE")
  BY DEF Version
<1>4. d.tables[u].index = {i}
  BY <1>2, <1>3 DEF TableOk, Lost, Like, Made
<1>5. a = DropTable(DropIndex(DropReference(d, u), u, i), u)
  BY <1>1, <1>2 DEF DropOtps, Exists
<1>6. e = CreateResetTokensUp(a)
  BY DEF ResetOtpsDown
<1> HIDE DEF a, e
<1>7. Shrunk(d, a, {u})
  BY <1>1, <1>2, <1>4, <1>5, ShrunkThenGone
<1>8. IsDb(a) /\ "users" \in DOMAIN a.tables /\ t \notin DOMAIN a.tables
  BY <1>1, <1>2, <1>7 DEF Shrunk
<1>9. DOMAIN ResetTokens = Fields /\ ResetTokens.index = {} /\ ResetTokens.null = {}
  BY DEF ResetTokens, Table, Fields
<1>10. e = AddIndex(Reference(CreateIfMissing(a, t, ResetTokens), t, "CASCADE"), t, i)
  BY <1>6 DEF CreateResetTokensUp, ResetTokens
<1>11. Grown(a, e, {t}) /\ Like(e.tables[t], Made(ResetTokens, {i}, "CASCADE"))
  BY <1>8, <1>9, <1>10, NewIndexedTable
<1>12. /\ IsDb(e) /\ Same(d, e) /\ DOMAIN e.tables = Names(14)
       /\ \A s \in Names(14) \ {t} : e.tables[s] = d.tables[s]
  BY <1>1, <1>2, <1>7, <1>11 DEF Shrunk, Grown, Same
<1>13. Version(14, t) = Made(ResetTokens, {i}, "CASCADE")
  BY DEF Version
<1>14. \A s \in Names(14) : 15 \in Touched(s) <=> s = t
  BY <1>1, NamesAt DEF Touched, TableNames
<1>15. RolesOk(14, e)
  BY <1>2, <1>12, RolesStay
<1>16. Renewed("reverted", 14, 15, d, e)
  BY <1>11, <1>12, <1>13, <1>14, <1>15 DEF Renewed, TableOk
<1>17. Before(14, 15)
  BY DEF Before, After
<1>18. Good("reverted", 14, e)
  BY <1>17, <1>16, CarriedDown
<1> QED BY <1>18 DEF e

\* 16. TalentStepFields, back: refused when a row holds NULL.
LEMMA Down16 ==
    ASSUME NEW d, Good("reverted", 16, d)
    PROVE  IF HasNull(d, "talent_profiles", "role_track") THEN TalentStepFieldsDown(d).thrown
           ELSE Good("reverted", 15, TalentStepFieldsDown(d))
<1> DEFINE t == "talent_profiles"
           columns == {"onboarding_step", "linkedin_url", "education_level", "region", "role_tracks",
                       "goal"}
           a == DropIfThere(d, t, columns)
           e == TalentStepFieldsDown(d)
           x == d.tables[t]
           y == e.tables[t]
<1>1. Names(16) = Names(15) /\ t \in Names(16)
  BY DEF Names, From, Within
<1>2. IsDb(d) /\ t \in DOMAIN d.tables /\ TableOk("reverted", 16, t, x)
  BY <1>1 DEF Good
<1>3. /\ Version(16, t) = Made(Talent16, {}, "CASCADE")
      /\ Version(15, t) = Made(Talent8, {}, "CASCADE")
  BY DEF Version
<1>4. Like(x, Made(Talent16, {}, "CASCADE"))
  BY <1>2, <1>3 DEF TableOk, Lost
<1>5. /\ Talent16.required \ columns = Talent8.required \ {"role_track"}
      /\ Talent16.optional \ columns = Talent8.optional \union {"role_track"}
      /\ Talent8.unique = Talent16.unique
  BY DEF Talent8, Talent16, Table
<1>6. /\ x.required = Talent16.required
      /\ x.optional = Talent16.optional
      /\ x.null \subseteq x.optional
  BY <1>4 DEF Like, Shaped, Made
<1>7. /\ "role_track" \notin columns
      /\ "role_track" \in Talent8.required
      /\ "role_track" \notin Talent8.optional
      /\ (Talent8.required \ {"role_track"}) \union {"role_track"} = Talent8.required
      /\ (Talent8.optional \union {"role_track"}) \ {"role_track"} = Talent8.optional
  BY DEF Talent8, Talent16, Table
<1>8. e = SetNotNull(a, t, "role_track")
  BY DEF TalentStepFieldsDown
<1> HIDE DEF columns, e
<1>9. /\ Only(d, a, t) /\ Kept(x, a.tables[t]) /\ a.tables[t].null = x.null \ columns
      /\ a.tables[t].required = Talent8.required \ {"role_track"}
      /\ a.tables[t].optional = Talent8.optional \union {"role_track"}
      /\ a.tables[t].null \subseteq a.tables[t].optional
  BY <1>2, <1>5, <1>6, DropIfThereOk
<1> HIDE DEF a
<1>10. IsDb(a) /\ t \in DOMAIN a.tables /\ (HasNull(a, t, "role_track") <=> HasNull(d, t, "role_track"))
  BY <1>2, <1>7, <1>9 DEF Only, HasNull
<1>11. CASE HasNull(d, t, "role_track")
  BY <1>8, <1>10, <1>11, SetNotNullThrows DEF e
<1>12. CASE ~HasNull(d, t, "role_track")
  <2>1. /\ Only(a, e, t) /\ Kept(a.tables[t], y) /\ y.null = a.tables[t].null
        /\ y.required = a.tables[t].required \union {"role_track"}
        /\ y.optional = a.tables[t].optional \ {"role_track"}
    BY <1>8, <1>9, <1>10, <1>12, SetNotNullOk
  <2>2. Only(d, e, t)
    BY <1>9, <2>1 DEF Only, Same
  <2>3. /\ y.required = Talent8.required
        /\ y.optional = Talent8.optional
        /\ y.null \subseteq y.optional
    BY <1>7, <1>9, <1>10, <1>12, <2>1 DEF HasNull
  <2>4. Like(y, Made(Talent8, {}, "CASCADE"))
    BY <1>4, <1>5, <1>9, <2>1, <2>3 DEF Like, Shaped, Made, Kept
  <2>5. TableOk("reverted", 15, t, y)
    BY <1>3, <2>4 DEF TableOk
  <2>6. Changes(16, {t})
    BY DEF Changes, Touched, TableNames
  <2>7. PlainBack(15, 16)
    BY DEF PlainBack, Plain, After
  <2>8. Good("reverted", 15, e)
    BY <1>1, <2>2, <2>5, <2>6, <2>7, OneDown
  <2> QED BY <1>12, <2>8 DEF e
<1> QED BY <1>11, <1>12

\* 17. EmployerFields, back: refused when a row holds NULL.
LEMMA Down17 ==
    ASSUME NEW d, Good("reverted", 17, d)
    PROVE  IF HasNull(d, "employer_profiles", "company_name") THEN EmployerFieldsDown(d).thrown
           ELSE Good("reverted", 16, EmployerFieldsDown(d))
<1> DEFINE t == "employer_profiles"
           columns == {"company_website", "hiring_count_range", "region", "desired_roles", "joining_as"}
           a == DropIfThere(d, t, columns)
           e == EmployerFieldsDown(d)
           x == d.tables[t]
           y == e.tables[t]
<1>1. Names(17) = Names(16) /\ t \in Names(17)
  BY DEF Names, From, Within
<1>2. IsDb(d) /\ t \in DOMAIN d.tables /\ TableOk("reverted", 17, t, x)
  BY <1>1 DEF Good
<1>3. /\ Version(17, t) = Made(Employer17, {}, "CASCADE")
      /\ Version(16, t) = Made(Employer8, {}, "CASCADE")
  BY DEF Version
<1>4. Like(x, Made(Employer17, {}, "CASCADE"))
  BY <1>2, <1>3 DEF TableOk, Lost
<1>5. /\ Employer17.required \ columns = Employer8.required \ {"company_name"}
      /\ Employer17.optional \ columns = Employer8.optional \union {"company_name"}
      /\ Employer8.unique = Employer17.unique
  BY DEF Employer8, Employer17, Table
<1>6. /\ x.required = Employer17.required
      /\ x.optional = Employer17.optional
      /\ x.null \subseteq x.optional
  BY <1>4 DEF Like, Shaped, Made
<1>7. /\ "company_name" \notin columns
      /\ "company_name" \in Employer8.required
      /\ "company_name" \notin Employer8.optional
      /\ (Employer8.required \ {"company_name"}) \union {"company_name"} = Employer8.required
      /\ (Employer8.optional \union {"company_name"}) \ {"company_name"} = Employer8.optional
  BY DEF Employer8, Employer17, Table
<1>8. e = SetNotNull(a, t, "company_name")
  BY DEF EmployerFieldsDown
<1> HIDE DEF columns, e
<1>9. /\ Only(d, a, t) /\ Kept(x, a.tables[t]) /\ a.tables[t].null = x.null \ columns
      /\ a.tables[t].required = Employer8.required \ {"company_name"}
      /\ a.tables[t].optional = Employer8.optional \union {"company_name"}
      /\ a.tables[t].null \subseteq a.tables[t].optional
  BY <1>2, <1>5, <1>6, DropIfThereOk
<1> HIDE DEF a
<1>10. IsDb(a) /\ t \in DOMAIN a.tables /\ (HasNull(a, t, "company_name") <=> HasNull(d, t, "company_name"))
  BY <1>2, <1>7, <1>9 DEF Only, HasNull
<1>11. CASE HasNull(d, t, "company_name")
  BY <1>8, <1>10, <1>11, SetNotNullThrows DEF e
<1>12. CASE ~HasNull(d, t, "company_name")
  <2>1. /\ Only(a, e, t) /\ Kept(a.tables[t], y) /\ y.null = a.tables[t].null
        /\ y.required = a.tables[t].required \union {"company_name"}
        /\ y.optional = a.tables[t].optional \ {"company_name"}
    BY <1>8, <1>9, <1>10, <1>12, SetNotNullOk
  <2>2. Only(d, e, t)
    BY <1>9, <2>1 DEF Only, Same
  <2>3. /\ y.required = Employer8.required
        /\ y.optional = Employer8.optional
        /\ y.null \subseteq y.optional
    BY <1>7, <1>9, <1>10, <1>12, <2>1 DEF HasNull
  <2>4. Like(y, Made(Employer8, {}, "CASCADE"))
    BY <1>4, <1>5, <1>9, <2>1, <2>3 DEF Like, Shaped, Made, Kept
  <2>5. TableOk("reverted", 16, t, y)
    BY <1>3, <2>4 DEF TableOk
  <2>6. Changes(17, {t})
    BY DEF Changes, Touched, TableNames
  <2>7. PlainBack(16, 17)
    BY DEF PlainBack, Plain, After
  <2>8. Good("reverted", 16, e)
    BY <1>1, <2>2, <2>5, <2>6, <2>7, OneDown
  <2> QED BY <1>12, <2>8 DEF e
<1> QED BY <1>11, <1>12

\* 18. EmployerNewFields, back.
LEMMA Down18 ==
    ASSUME NEW d, Good("reverted", 18, d)
    PROVE  Good("reverted", 17, EmployerNewFieldsDown(d))
<1> DEFINE t == "employer_profiles"
           columns == {"hiring_locations", "hiring_roles", "employer_type"}
           e == EmployerNewFieldsDown(d)
           x == d.tables[t]
           y == e.tables[t]
<1>1. Names(18) = Names(17) /\ t \in Names(18)
  BY DEF Names, From, Within
<1>2. IsDb(d) /\ t \in DOMAIN d.tables /\ TableOk("reverted", 18, t, x)
  BY <1>1 DEF Good
<1>3. /\ Version(18, t) = Made(EmployerProfileEntity, {}, "CASCADE")
      /\ Version(17, t) = Made(Employer17, {}, "CASCADE")
  BY DEF Version
<1>4. Like(x, Made(EmployerProfileEntity, {}, "CASCADE"))
  BY <1>2, <1>3 DEF TableOk, Lost
<1>5. /\ EmployerProfileEntity.required \ columns = Employer17.required
      /\ EmployerProfileEntity.optional \ columns = Employer17.optional
      /\ Employer17.unique = EmployerProfileEntity.unique
  BY DEF Employer8, Employer17, EmployerProfileEntity, Table
<1>6. /\ x.required = EmployerProfileEntity.required
      /\ x.optional = EmployerProfileEntity.optional
      /\ x.null \subseteq x.optional
  BY <1>4 DEF Like, Shaped, Made
<1>7. e = DropIfThere(d, t, columns)
  BY DEF EmployerNewFieldsDown
<1> HIDE DEF columns, e
<1>8. /\ Only(d, e, t)
      /\ Kept(x, y)
      /\ y.required = Employer17.required
      /\ y.optional = Employer17.optional
      /\ y.null \subseteq y.optional
  <2>1. /\ Only(d, e, t) /\ Kept(x, y) /\ y.required = x.required \ columns
        /\ y.optional = x.optional \ columns /\ y.null = x.null \ columns
    BY <1>2, <1>7, DropIfThereOk
  <2> QED BY <1>5, <1>6, <2>1
<1>9. Like(y, Made(Employer17, {}, "CASCADE"))
  BY <1>4, <1>5, <1>8 DEF Like, Shaped, Made, Kept
<1>10. TableOk("reverted", 17, t, y)
  BY <1>3, <1>9 DEF TableOk
<1>11. Changes(18, {t})
  BY DEF Changes, Touched, TableNames
<1>12. PlainBack(17, 18)
  BY DEF PlainBack, Plain, After
<1>13. Good("reverted", 17, e)
  BY <1>1, <1>8, <1>10, <1>11, <1>12, OneDown
<1> QED BY <1>13 DEF e

\* 19. TalentTrack, back.
LEMMA Down19 ==
    ASSUME NEW d, Good("reverted", 19, d)
    PROVE  Good("reverted", 18, TalentTrackDown(d))
<1> DEFINE t == "talent_profiles"
           columns == {"profile_verified", "track"}
           e == TalentTrackDown(d)
           x == d.tables[t]
           y == e.tables[t]
<1>1. Names(19) = Names(18) /\ t \in Names(19)
  BY DEF Names, From, Within
<1>2. IsDb(d) /\ t \in DOMAIN d.tables /\ TableOk("reverted", 19, t, x)
  BY <1>1 DEF Good
<1>3. /\ Version(19, t) = Made(TalentProfileEntity, {}, "CASCADE")
      /\ Version(18, t) = Made(Talent16, {}, "CASCADE")
  BY DEF Version
<1>4. Like(x, Made(TalentProfileEntity, {}, "CASCADE"))
  BY <1>2, <1>3 DEF TableOk, Lost
<1>5. /\ TalentProfileEntity.required \ columns = Talent16.required
      /\ TalentProfileEntity.optional \ columns = Talent16.optional
      /\ Talent16.unique = TalentProfileEntity.unique
  BY DEF Talent8, Talent16, TalentProfileEntity, Table
<1>6. /\ x.required = TalentProfileEntity.required
      /\ x.optional = TalentProfileEntity.optional
      /\ x.null \subseteq x.optional
  BY <1>4 DEF Like, Shaped, Made
<1>7. e = DropIfThere(d, t, columns)
  BY DEF TalentTrackDown
<1> HIDE DEF columns, e
<1>8. /\ Only(d, e, t)
      /\ Kept(x, y)
      /\ y.required = Talent16.required
      /\ y.optional = Talent16.optional
      /\ y.null \subseteq y.optional
  <2>1. /\ Only(d, e, t) /\ Kept(x, y) /\ y.required = x.required \ columns
        /\ y.optional = x.optional \ columns /\ y.null = x.null \ columns
    BY <1>2, <1>7, DropIfThereOk
  <2> QED BY <1>5, <1>6, <2>1
<1>9. Like(y, Made(Talent16, {}, "CASCADE"))
  BY <1>4, <1>5, <1>8 DEF Like, Shaped, Made, Kept
<1>10. TableOk("reverted", 18, t, y)
  BY <1>3, <1>9 DEF TableOk
<1>11. Changes(19, {t})
  BY DEF Changes, Touched, TableNames
<1>12. PlainBack(18, 19)
  BY DEF PlainBack, Plain, After
<1>13. Good("reverted", 18, e)
  BY <1>1, <1>8, <1>10, <1>11, <1>12, OneDown
<1> QED BY <1>13 DEF e

-----------------------------------------------------------------------------
(* All of them in their order.                                              *)

\* The order of the migrations.
LEMMA OrderIs ==
    /\ Latest = 19
    /\ Order[1] = "CreateUsers"
    /\ Order[2] = "AlignUsers"
    /\ Order[3] = "CreateVerificationOtps"
    /\ Order[4] = "CreateUserOauthAccounts"
    /\ Order[5] = "CreateInquiriesTables"
    /\ Order[6] = "FixUserOauthConstraints"
    /\ Order[7] = "PasswordNullableForOAuth"
    /\ Order[8] = "CreateRoleProfiles"
    /\ Order[9] = "PasswordNullable"
    /\ Order[10] = "RestoreIndexes"
    /\ Order[11] = "CreateResetTokens"
    /\ Order[12] = "CandidateToTalent"
    /\ Order[13] = "ExtendWaitlist"
    /\ Order[14] = "TalentProfiles"
    /\ Order[15] = "ResetOtps"
    /\ Order[16] = "TalentStepFields"
    /\ Order[17] = "EmployerFields"
    /\ Order[18] = "EmployerNewFields"
    /\ Order[19] = "TalentTrack"
BY DEF Order, Latest

\* Every migration leads from the schema before it to the one after it, without throwing.
LEMMA UpOk ==
    ASSUME NEW how, NEW j, NEW k, After(j, k), NEW d, Good(how, j, d)
    PROVE  Good(how, k, Up(Order[k], d))
<1>0. k \in 1..19 /\ j = k - 1
  BY DEF After
<1>1. CASE k = 1
  <2>1. Up("CreateUsers", d) = CreateUsersUp(d)
    BY DEF Up
  <2>2. j = 0
    BY <1>0, <1>1
  <2> QED BY <1>1, <2>1, <2>2, OrderIs, Up1
<1>2. CASE k = 2
  <2>1. Up("AlignUsers", d) = AlignUsersUp(d)
    BY DEF Up
  <2>2. j = 1
    BY <1>0, <1>2
  <2> QED BY <1>2, <2>1, <2>2, OrderIs, Up2
<1>3. CASE k = 3
  <2>1. Up("CreateVerificationOtps", d) = CreateVerificationOtpsUp(d)
    BY DEF Up
  <2>2. j = 2
    BY <1>0, <1>3
  <2> QED BY <1>3, <2>1, <2>2, OrderIs, Up3
<1>4. CASE k = 4
  <2>1. Up("CreateUserOauthAccounts", d) = CreateUserOauthAccountsUp(d)
    BY DEF Up
  <2>2. j = 3
    BY <1>0, <1>4
  <2> QED BY <1>4, <2>1, <2>2, OrderIs, Up4
<1>5. CASE k = 5
  <2>1. Up("CreateInquiriesTables", d) = CreateInquiriesTablesUp(d)
    BY DEF Up
  <2>2. j = 4
    BY <1>0, <1>5
  <2> QED BY <1>5, <2>1, <2>2, OrderIs, Up5
<1>6. CASE k = 6
  <2>1. Up("FixUserOauthConstraints", d) = FixUserOauthConstraintsUp(d)
    BY DEF Up
  <2>2. j = 5
    BY <1>0, <1>6
  <2> QED BY <1>6, <2>1, <2>2, OrderIs, Up6
<1>7. CASE k = 7
  <2>1. Up("PasswordNullableForOAuth", d) = PasswordNullableUp(d)
    BY DEF Up
  <2>2. j = 6
    BY <1>0, <1>7
  <2> QED BY <1>7, <2>1, <2>2, OrderIs, Up7
<1>8. CASE k = 8
  <2>1. Up("CreateRoleProfiles", d) = CreateRoleProfilesUp(d)
    BY DEF Up
  <2>2. j = 7
    BY <1>0, <1>8
  <2> QED BY <1>8, <2>1, <2>2, OrderIs, Up8
<1>9. CASE k = 9
  <2>1. Up("PasswordNullable", d) = PasswordNullableUp(d)
    BY DEF Up
  <2>2. j = 8
    BY <1>0, <1>9
  <2> QED BY <1>9, <2>1, <2>2, OrderIs, Up9
<1>10. CASE k = 10
  <2>1. Up("RestoreIndexes", d) = RestoreIndexesUp(d)
    BY DEF Up
  <2>2. j = 9
    BY <1>0, <1>10
  <2> QED BY <1>10, <2>1, <2>2, OrderIs, Up10
<1>11. CASE k = 11
  <2>1. Up("CreateResetTokens", d) = CreateResetTokensUp(d)
    BY DEF Up
  <2>2. j = 10
    BY <1>0, <1>11
  <2> QED BY <1>11, <2>1, <2>2, OrderIs, Up11
<1>12. CASE k = 12
  <2>1. Up("CandidateToTalent", d) = CandidateToTalentUp(d)
    BY DEF Up
  <2>2. j = 11
    BY <1>0, <1>12
  <2> QED BY <1>12, <2>1, <2>2, OrderIs, Up12
<1>13. CASE k = 13
  <2>1. Up("ExtendWaitlist", d) = ExtendWaitlistUp(d)
    BY DEF Up
  <2>2. j = 12
    BY <1>0, <1>13
  <2> QED BY <1>13, <2>1, <2>2, OrderIs, Up13
<1>14. CASE k = 14
  <2>1. Up("TalentProfiles", d) = TalentProfilesUp(d)
    BY DEF Up
  <2>2. j = 13
    BY <1>0, <1>14
  <2> QED BY <1>14, <2>1, <2>2, OrderIs, Up14
<1>15. CASE k = 15
  <2>1. Up("ResetOtps", d) = ResetOtpsUp(d)
    BY DEF Up
  <2>2. j = 14
    BY <1>0, <1>15
  <2> QED BY <1>15, <2>1, <2>2, OrderIs, Up15
<1>16. CASE k = 16
  <2>1. Up("TalentStepFields", d) = TalentStepFieldsUp(d)
    BY DEF Up
  <2>2. j = 15
    BY <1>0, <1>16
  <2> QED BY <1>16, <2>1, <2>2, OrderIs, Up16
<1>17. CASE k = 17
  <2>1. Up("EmployerFields", d) = EmployerFieldsUp(d)
    BY DEF Up
  <2>2. j = 16
    BY <1>0, <1>17
  <2> QED BY <1>17, <2>1, <2>2, OrderIs, Up17
<1>18. CASE k = 18
  <2>1. Up("EmployerNewFields", d) = EmployerNewFieldsUp(d)
    BY DEF Up
  <2>2. j = 17
    BY <1>0, <1>18
  <2> QED BY <1>18, <2>1, <2>2, OrderIs, Up18
<1>19. CASE k = 19
  <2>1. Up("TalentTrack", d) = TalentTrackUp(d)
    BY DEF Up
  <2>2. j = 18
    BY <1>0, <1>19
  <2> QED BY <1>19, <2>1, <2>2, OrderIs, Up19
<1> QED BY <1>0, <1>1, <1>2, <1>3, <1>4, <1>5, <1>6, <1>7, <1>8, <1>9, <1>10, <1>11, <1>12,
           <1>13, <1>14, <1>15, <1>16, <1>17, <1>18, <1>19

\* Why migration k may refuse to be reverted.
Excused(k, d) ==
    \/ k = 6
    \/ k \in {7, 9} /\ HasNull(d, "users", "password")
    \/ k = 16 /\ HasNull(d, "talent_profiles", "role_track")
    \/ k = 17 /\ HasNull(d, "employer_profiles", "company_name")

\* Every revert leads back, unless it has one of these reasons to throw.
LEMMA DownOk ==
    ASSUME NEW j, NEW k, After(j, k), NEW d, Good("reverted", k, d)
    PROVE  IF Excused(k, d) THEN Down(Order[k], d).thrown
           ELSE Good("reverted", j, Down(Order[k], d))
<1>0. k \in 1..19 /\ j = k - 1
  BY DEF After
<1>1. CASE k = 1
  <2>1. Down("CreateUsers", d) = CreateUsersDown(d)
    BY DEF Down
  <2>2. j = 0
    BY <1>0, <1>1
  <2> QED BY <1>1, <2>1, <2>2, OrderIs, Down1 DEF Excused
<1>2. CASE k = 2
  <2>1. Down("AlignUsers", d) = AlignUsersDown(d)
    BY DEF Down
  <2>2. j = 1
    BY <1>0, <1>2
  <2> QED BY <1>2, <2>1, <2>2, OrderIs, Down2 DEF Excused
<1>3. CASE k = 3
  <2>1. Down("CreateVerificationOtps", d) = CreateVerificationOtpsDown(d)
    BY DEF Down
  <2>2. j = 2
    BY <1>0, <1>3
  <2> QED BY <1>3, <2>1, <2>2, OrderIs, Down3 DEF Excused
<1>4. CASE k = 4
  <2>1. Down("CreateUserOauthAccounts", d) = CreateUserOauthAccountsDown(d)
    BY DEF Down
  <2>2. j = 3
    BY <1>0, <1>4
  <2> QED BY <1>4, <2>1, <2>2, OrderIs, Down4 DEF Excused
<1>5. CASE k = 5
  <2>1. Down("CreateInquiriesTables", d) = CreateInquiriesTablesDown(d)
    BY DEF Down
  <2>2. j = 4
    BY <1>0, <1>5
  <2> QED BY <1>5, <2>1, <2>2, OrderIs, Down5 DEF Excused
<1>6. CASE k = 6
  <2>1. Down("FixUserOauthConstraints", d) = FixUserOauthConstraintsDown(d)
    BY DEF Down
  <2>2. IsDb(d)
    BY DEF Good
  <2>3. FixUserOauthConstraintsDown(d).thrown
    BY <2>2 DEF IsDb, FixUserOauthConstraintsDown
  <2> QED BY <1>6, <2>1, <2>3, OrderIs DEF Excused
<1>7. CASE k = 7
  <2>1. Down("PasswordNullableForOAuth", d) = PasswordNullableDown(d)
    BY DEF Down
  <2>2. j = 6
    BY <1>0, <1>7
  <2> QED BY <1>7, <2>1, <2>2, OrderIs, Down7 DEF Excused
<1>8. CASE k = 8
  <2>1. Down("CreateRoleProfiles", d) = CreateRoleProfilesDown(d)
    BY DEF Down
  <2>2. j = 7
    BY <1>0, <1>8
  <2> QED BY <1>8, <2>1, <2>2, OrderIs, Down8 DEF Excused
<1>9. CASE k = 9
  <2>1. Down("PasswordNullable", d) = PasswordNullableDown(d)
    BY DEF Down
  <2>2. j = 8
    BY <1>0, <1>9
  <2> QED BY <1>9, <2>1, <2>2, OrderIs, Down9 DEF Excused
<1>10. CASE k = 10
  <2>1. Down("RestoreIndexes", d) = RestoreIndexesDown(d)
    BY DEF Down
  <2>2. j = 9
    BY <1>0, <1>10
  <2> QED BY <1>10, <2>1, <2>2, OrderIs, Down10 DEF Excused
<1>11. CASE k = 11
  <2>1. Down("CreateResetTokens", d) = CreateResetTokensDown(d)
    BY DEF Down
  <2>2. j = 10
    BY <1>0, <1>11
  <2> QED BY <1>11, <2>1, <2>2, OrderIs, Down11 DEF Excused
<1>12. CASE k = 12
  <2>1. Down("CandidateToTalent", d) = CandidateToTalentDown(d)
    BY DEF Down
  <2>2. j = 11
    BY <1>0, <1>12
  <2> QED BY <1>12, <2>1, <2>2, OrderIs, Down12 DEF Excused
<1>13. CASE k = 13
  <2>1. Down("ExtendWaitlist", d) = ExtendWaitlistDown(d)
    BY DEF Down
  <2>2. j = 12
    BY <1>0, <1>13
  <2> QED BY <1>13, <2>1, <2>2, OrderIs, Down13 DEF Excused
<1>14. CASE k = 14
  <2>1. Down("TalentProfiles", d) = TalentProfilesDown(d)
    BY DEF Down
  <2>2. j = 13
    BY <1>0, <1>14
  <2> QED BY <1>14, <2>1, <2>2, OrderIs, Down14 DEF Excused
<1>15. CASE k = 15
  <2>1. Down("ResetOtps", d) = ResetOtpsDown(d)
    BY DEF Down
  <2>2. j = 14
    BY <1>0, <1>15
  <2> QED BY <1>15, <2>1, <2>2, OrderIs, Down15 DEF Excused
<1>16. CASE k = 16
  <2>1. Down("TalentStepFields", d) = TalentStepFieldsDown(d)
    BY DEF Down
  <2>2. j = 15
    BY <1>0, <1>16
  <2> QED BY <1>16, <2>1, <2>2, OrderIs, Down16 DEF Excused
<1>17. CASE k = 17
  <2>1. Down("EmployerFields", d) = EmployerFieldsDown(d)
    BY DEF Down
  <2>2. j = 16
    BY <1>0, <1>17
  <2> QED BY <1>17, <2>1, <2>2, OrderIs, Down17 DEF Excused
<1>18. CASE k = 18
  <2>1. Down("EmployerNewFields", d) = EmployerNewFieldsDown(d)
    BY DEF Down
  <2>2. j = 17
    BY <1>0, <1>18
  <2> QED BY <1>18, <2>1, <2>2, OrderIs, Down18 DEF Excused
<1>19. CASE k = 19
  <2>1. Down("TalentTrack", d) = TalentTrackDown(d)
    BY DEF Down
  <2>2. j = 18
    BY <1>0, <1>19
  <2> QED BY <1>19, <2>1, <2>2, OrderIs, Down19 DEF Excused
<1> QED BY <1>0, <1>1, <1>2, <1>3, <1>4, <1>5, <1>6, <1>7, <1>8, <1>9, <1>10, <1>11, <1>12,
           <1>13, <1>14, <1>15, <1>16, <1>17, <1>18, <1>19

\* Migrated applies one migration after the other.  TLA+ defines a recursive function as some
\* function that satisfies its equation; there is one, built step by step.
LEMMA MigratedSteps ==
    ASSUME NEW d, NEW k \in 0..19
    PROVE  /\ Migrated(d, k, k) = d
           /\ \A n \in k..18 : Migrated(d, k, n + 1) = Up(Order[n + 1], Migrated(d, k, n))
<1> DEFINE F(g, m) == g = [i \in k..m |-> IF i = k THEN d ELSE Up(Order[i], g[i - 1])]
           Built(m) == m >= k => \E g : F(g, m)
<1>1. \E g : F(g, k)
  <2> DEFINE g == [i \in k..k |-> d]
  <2>1. F(g, k)
    OBVIOUS
  <2> QED BY <2>1
<1>2. ASSUME NEW m \in 0..18, Built(m) PROVE Built(m + 1)
  <2>1. CASE m + 1 = k
    BY <1>1, <2>1
  <2>2. CASE m >= k
    <3>1. PICK g : F(g, m)
      BY <1>2, <2>2
    <3> DEFINE h == [i \in k..(m + 1) |-> IF i = m + 1 THEN Up(Order[m + 1], g[m]) ELSE g[i]]
               G(i) == IF i = k THEN d ELSE Up(Order[i], h[i - 1])
    <3>2. ASSUME NEW i \in k..(m + 1) PROVE h[i] = G(i)
      <4>1. CASE i = m + 1
        BY <2>2, <4>1
      <4>2. CASE i \in k..m
        <5>1. g[i] = IF i = k THEN d ELSE Up(Order[i], g[i - 1])
          BY <3>1, <4>2
        <5>2. h[i] = g[i] /\ (i # k => h[i - 1] = g[i - 1])
          BY <4>2
        <5> QED BY <5>1, <5>2
      <4> QED BY <4>1, <4>2
    <3>3. h = [i \in k..(m + 1) |-> G(i)]
      BY <3>2
    <3> QED BY <3>3
  <2> QED BY <2>1, <2>2
<1>3. Built(0)
  <2>1. CASE k = 0
    BY <1>1, <2>1
  <2>2. CASE k # 0
    BY <2>2
  <2> QED BY <2>1, <2>2
<1> HIDE DEF Built
<1>4. Built(1)
  <2>1. Built(0 + 1)
    BY <1>2, <1>3
  <2> QED BY <2>1
<1>5. Built(2)
  <2>1. Built(1 + 1)
    BY <1>2, <1>4
  <2> QED BY <2>1
<1>6. Built(3)
  <2>1. Built(2 + 1)
    BY <1>2, <1>5
  <2> QED BY <2>1
<1>7. Built(4)
  <2>1. Built(3 + 1)
    BY <1>2, <1>6
  <2> QED BY <2>1
<1>8. Built(5)
  <2>1. Built(4 + 1)
    BY <1>2, <1>7
  <2> QED BY <2>1
<1>9. Built(6)
  <2>1. Built(5 + 1)
    BY <1>2, <1>8
  <2> QED BY <2>1
<1>10. Built(7)
  <2>1. Built(6 + 1)
    BY <1>2, <1>9
  <2> QED BY <2>1
<1>11. Built(8)
  <2>1. Built(7 + 1)
    BY <1>2, <1>10
  <2> QED BY <2>1
<1>12. Built(9)
  <2>1. Built(8 + 1)
    BY <1>2, <1>11
  <2> QED BY <2>1
<1>13. Built(10)
  <2>1. Built(9 + 1)
    BY <1>2, <1>12
  <2> QED BY <2>1
<1>14. Built(11)
  <2>1. Built(10 + 1)
    BY <1>2, <1>13
  <2> QED BY <2>1
<1>15. Built(12)
  <2>1. Built(11 + 1)
    BY <1>2, <1>14
  <2> QED BY <2>1
<1>16. Built(13)
  <2>1. Built(12 + 1)
    BY <1>2, <1>15
  <2> QED BY <2>1
<1>17. Built(14)
  <2>1. Built(13 + 1)
    BY <1>2, <1>16
  <2> QED BY <2>1
<1>18. Built(15)
  <2>1. Built(14 + 1)
    BY <1>2, <1>17
  <2> QED BY <2>1
<1>19. Built(16)
  <2>1. Built(15 + 1)
    BY <1>2, <1>18
  <2> QED BY <2>1
<1>20. Built(17)
  <2>1. Built(16 + 1)
    BY <1>2, <1>19
  <2> QED BY <2>1
<1>21. Built(18)
  <2>1. Built(17 + 1)
    BY <1>2, <1>20
  <2> QED BY <2>1
<1>22. Built(19)
  <2>1. Built(18 + 1)
    BY <1>2, <1>21
  <2> QED BY <2>1
<1> USE DEF Built
<1> DEFINE g == CHOOSE g : F(g, 19)
<1>23. F(g, 19)
  BY <1>22
<1>24. \A n : Migrated(d, k, n) = g[n]
  BY OrderIs DEF Migrated
<1> HIDE DEF g
<1>25. g[k] = d
  BY <1>23
<1>26. ASSUME NEW n \in k..18 PROVE g[n + 1] = Up(Order[n + 1], g[n])
  BY <1>23
<1> QED BY <1>24, <1>25, <1>26

\* So a run from a schema that is known ends in the schema that it should.
LEMMA MigratedOk ==
    ASSUME NEW how, NEW k \in 0..19, NEW d, Good(how, k, d)
    PROVE  \A n \in k..19 : Good(how, n, Migrated(d, k, n))
<1> DEFINE Reached(n) == n >= k => Good(how, n, Migrated(d, k, n))
<1>1. ASSUME NEW n \in 0..18, Reached(n) PROVE Reached(n + 1)
  <2>1. CASE n + 1 = k
    BY <2>1, MigratedSteps
  <2>2. CASE n >= k
    <3>1. Good(how, n, Migrated(d, k, n))
      BY <1>1, <2>2
    <3>2. After(n, n + 1)
      BY DEF After
    <3>3. Good(how, n + 1, Up(Order[n + 1], Migrated(d, k, n)))
      BY <3>1, <3>2, UpOk
    <3>4. Migrated(d, k, n + 1) = Up(Order[n + 1], Migrated(d, k, n))
      BY <2>2, MigratedSteps
    <3> QED BY <3>3, <3>4
  <2>3. CASE n + 1 < k
    BY <2>3
  <2> QED BY <2>1, <2>2, <2>3
<1>2. Reached(0)
  <2>1. CASE k = 0
    BY <2>1, MigratedSteps
  <2>2. CASE k # 0
    BY <2>2
  <2> QED BY <2>1, <2>2
<1> HIDE DEF Reached
<1>3. Reached(1)
  <2>1. Reached(0 + 1)
    BY <1>1, <1>2
  <2> QED BY <2>1
<1>4. Reached(2)
  <2>1. Reached(1 + 1)
    BY <1>1, <1>3
  <2> QED BY <2>1
<1>5. Reached(3)
  <2>1. Reached(2 + 1)
    BY <1>1, <1>4
  <2> QED BY <2>1
<1>6. Reached(4)
  <2>1. Reached(3 + 1)
    BY <1>1, <1>5
  <2> QED BY <2>1
<1>7. Reached(5)
  <2>1. Reached(4 + 1)
    BY <1>1, <1>6
  <2> QED BY <2>1
<1>8. Reached(6)
  <2>1. Reached(5 + 1)
    BY <1>1, <1>7
  <2> QED BY <2>1
<1>9. Reached(7)
  <2>1. Reached(6 + 1)
    BY <1>1, <1>8
  <2> QED BY <2>1
<1>10. Reached(8)
  <2>1. Reached(7 + 1)
    BY <1>1, <1>9
  <2> QED BY <2>1
<1>11. Reached(9)
  <2>1. Reached(8 + 1)
    BY <1>1, <1>10
  <2> QED BY <2>1
<1>12. Reached(10)
  <2>1. Reached(9 + 1)
    BY <1>1, <1>11
  <2> QED BY <2>1
<1>13. Reached(11)
  <2>1. Reached(10 + 1)
    BY <1>1, <1>12
  <2> QED BY <2>1
<1>14. Reached(12)
  <2>1. Reached(11 + 1)
    BY <1>1, <1>13
  <2> QED BY <2>1
<1>15. Reached(13)
  <2>1. Reached(12 + 1)
    BY <1>1, <1>14
  <2> QED BY <2>1
<1>16. Reached(14)
  <2>1. Reached(13 + 1)
    BY <1>1, <1>15
  <2> QED BY <2>1
<1>17. Reached(15)
  <2>1. Reached(14 + 1)
    BY <1>1, <1>16
  <2> QED BY <2>1
<1>18. Reached(16)
  <2>1. Reached(15 + 1)
    BY <1>1, <1>17
  <2> QED BY <2>1
<1>19. Reached(17)
  <2>1. Reached(16 + 1)
    BY <1>1, <1>18
  <2> QED BY <2>1
<1>20. Reached(18)
  <2>1. Reached(17 + 1)
    BY <1>1, <1>19
  <2> QED BY <2>1
<1>21. Reached(19)
  <2>1. Reached(18 + 1)
    BY <1>1, <1>20
  <2> QED BY <2>1
<1>22. \A n \in 0..19 : Reached(n)
  BY <1>2, <1>3, <1>4, <1>5, <1>6, <1>7, <1>8, <1>9, <1>10, <1>11, <1>12, <1>13, <1>14,
     <1>15, <1>16, <1>17, <1>18, <1>19, <1>20, <1>21
<1> QED BY <1>22 DEF Reached

-----------------------------------------------------------------------------
(* The commands and the writes.                                             *)

\* The inductive invariant: the schema of the migrations that are applied, but for what reverts
\* have lost.
Inv == applied \in 0..19 /\ Good("reverted", applied, db)

\* The empty database is version 0.
LEMMA EmptyOk == ASSUME NEW how PROVE Good(how, 0, Empty)
<1>1. Names(0) = {} /\ DOMAIN <<>> = {}
  BY DEF Names, From, Within
<1>2. IsDb(Empty) /\ DOMAIN Empty.tables = {}
  BY <1>1 DEF Empty, IsDb
<1> QED BY <1>1, <1>2 DEF Good, RolesOk, Empty

\* What the application writes leaves the schema alone.
Written(d, e, t) ==
    /\ IsDb(e) /\ DOMAIN e.tables = DOMAIN d.tables
    /\ \A s \in DOMAIN d.tables \ {t} : e.tables[s] = d.tables[s]
    /\ e.tables[t].required = d.tables[t].required
    /\ e.tables[t].optional = d.tables[t].optional
    /\ e.tables[t].unique = d.tables[t].unique /\ e.tables[t].index = d.tables[t].index
    /\ e.tables[t].onDelete = d.tables[t].onDelete
    /\ d.tables[t].null \subseteq d.tables[t].optional => e.tables[t].null \subseteq e.tables[t].optional
    /\ e.labels = d.labels /\ e.default = d.default
    /\ d.held \subseteq d.labels => e.held \subseteq e.labels

\* What the application writes changes no schema.
LEMMA WrittenOk ==
    ASSUME NEW how, NEW k, NEW d, Good(how, k, d), NEW t \in DOMAIN d.tables, NEW e, Written(d, e, t)
    PROVE  Good(how, k, e)
<1>1. IsDb(e) /\ RolesOk(k, e) /\ DOMAIN e.tables = Names(k)
  BY DEF Good, RolesOk, Written
<1>2. ASSUME NEW s \in Names(k) PROVE TableOk(how, k, s, e.tables[s])
  <2>1. TableOk(how, k, s, d.tables[s])
    BY DEF Good
  <2>2. CASE s # t
    BY <2>1, <2>2 DEF Written, Good
  <2>3. CASE s = t
    <3>1. \A v : Shaped(d.tables[t], v) => Shaped(e.tables[t], v)
      BY DEF Shaped, Written
    <3>2. e.tables[t].index = d.tables[t].index
      BY DEF Written
    <3> QED BY <2>1, <2>3, <3>1, <3>2 DEF TableOk, Like, Lost
  <2> QED BY <2>2, <2>3
<1> QED BY <1>1, <1>2 DEF Good

\* Every step keeps the invariant.
LEMMA Inductive ==
    ASSUME Inv, [Next]_vars
    PROVE  Inv'
<1>0. applied \in 0..19 /\ Good("reverted", applied, db)
  BY DEF Inv
<1>1. ASSUME NEW n \in 1..Latest, Run(n) PROVE Inv'
  <2>1. n \in applied..19 /\ db' = Migrated(db, applied, n) /\ applied' = n
    BY <1>0, <1>1, OrderIs DEF Run
  <2>2. Good("reverted", n, Migrated(db, applied, n))
    BY <1>0, <2>1, MigratedOk
  <2> QED BY <1>0, <2>1, <2>2 DEF Inv
<1>2. CASE Revert
  <2>1. applied > 0 /\ ~Undone.thrown /\ db' = Undone /\ applied' = applied - 1
    BY <1>2 DEF Revert
  <2>2. After(applied - 1, applied)
    BY <1>0, <2>1 DEF After
  <2>3. Good("reverted", applied - 1, Undone)
    BY <1>0, <2>1, <2>2, DownOk DEF Undone
  <2> QED BY <1>0, <2>1, <2>3 DEF Inv
<1>3. ASSUME NEW t \in DOMAIN db.tables, NEW nulls, NEW held, held \subseteq db.labels, Insert(t, nulls, held)
      PROVE  Inv'
  <2>1. Written(db, db', t)
    BY <1>0, <1>3 DEF Good, Insert, Written, IsDb, Fields
  <2> QED BY <1>0, <1>3, <2>1, WrittenOk DEF Inv, Insert
<1>4. ASSUME NEW t \in DOMAIN db.tables, NEW c, Complete(t, c) PROVE Inv'
  <2>1. Written(db, db', t)
    BY <1>0, <1>4, FillOk DEF Good, Complete, Written, Only, Kept, Same, KeptBut
  <2> QED BY <1>0, <1>4, <2>1, WrittenOk DEF Inv, Complete
<1>5. ASSUME NEW nulls, NEW role \in db.labels, AddUser(role, nulls) PROVE Inv'
  <2>1. Insert("users", nulls, {role}) /\ "users" \in DOMAIN db.tables
    BY <1>5 DEF AddUser, Insert, Exists
  <2> QED BY <2>1, <1>3
<1>6. ASSUME NEW nulls, NEW t \in DOMAIN db.tables, AddProfile(t, nulls) PROVE Inv'
  BY <1>3, <1>6 DEF AddProfile
<1>7. CASE UNCHANGED vars
  BY <1>0, <1>7 DEF vars, Inv
<1> QED BY <1>1, <1>2, <1>4, <1>5, <1>6, <1>7 DEF Next

\* In every state the migrations table tells the schema: whatever was run, reverted and written,
\* tables, columns, keys, indexes, foreign keys and roles are those of the migrations it lists, up to
\* the two losses of Lost.  (src/src/database/migrations)
THEOREM SchemaKnown == Spec => []Inv
<1>1. Init => Inv
  BY EmptyOk DEF Init, Inv
<1> QED BY <1>1, Inductive, PTL DEF Spec

-----------------------------------------------------------------------------
(* What the migrations promise.                                             *)

\* The tables that occur.
Tables == {Users1, Users2, Users7, UserEntity, VerificationOtpEntity, OAuth4, OAuthUserEntity,
           Waitlist5, WaitlistEntryEntity, ContactMessageEntity, Talent8, Talent16,
           TalentProfileEntity, Employer8, Employer17, EmployerProfileEntity,
           ResetTokens, PasswordResetOtpEntity}

\* Every version is one of them.
LEMMA VersionMade ==
    ASSUME NEW k \in 0..19, NEW t \in TableNames
    PROVE  \E table \in Tables : \E index, onDelete : Version(k, t) = Made(table, index, onDelete)
<1>1. CASE t = "users"
  BY <1>1 DEF Version, Tables
<1>2. CASE t = "verification_otps"
  BY <1>2 DEF Version, Tables
<1>3. CASE t = "user_oauth_accounts"
  BY <1>3 DEF Version, Tables
<1>4. CASE t = "waitlist_entries"
  BY <1>4 DEF Version, Tables
<1>5. CASE t = "contact_messages"
  BY <1>5 DEF Version, Tables
<1>6. CASE t = "candidate_profiles"
  BY <1>6 DEF Version, Tables
<1>7. CASE t = "talent_profiles"
  BY <1>7 DEF Version, Tables
<1>8. CASE t = "employer_profiles"
  BY <1>8 DEF Version, Tables
<1>9. CASE t = "password_reset_tokens"
  BY <1>9 DEF Version, Tables
<1>10. CASE t = "password_reset_otps"
  BY <1>10 DEF Version, Tables
<1> QED BY <1>1, <1>2, <1>3, <1>4, <1>5, <1>6, <1>7, <1>8, <1>9, <1>10 DEF TableNames

\* None of them has a column that is and is not NOT NULL.
LEMMA DisjointTables == \A table \in Tables : table.required \intersect table.optional = {}
BY DEF Tables, Users1, Users2, Users7, UserEntity, VerificationOtpEntity, OAuth4,
       OAuthUserEntity,
       Waitlist5, WaitlistEntryEntity, ContactMessageEntity, Talent8, Talent16,
       TalentProfileEntity, Employer8, Employer17, EmployerProfileEntity,
       ResetTokens, PasswordResetOtpEntity, CodeTable, Table

\* Nor has any table of a good database, and it holds NULL in optional columns only.
LEMMA Disjoint ==
    ASSUME NEW k \in 0..19, NEW t \in TableNames, NEW x, TableOk("reverted", k, t, x)
    PROVE  x.required \intersect x.optional = {} /\ x.null \subseteq x.optional
<1>1. Shaped(x, Version(k, t)) \/ Shaped(x, Version(6, t))
  BY DEF TableOk, Lost, Like
<1>2. ASSUME NEW i \in 0..19, Shaped(x, Version(i, t))
      PROVE  x.required \intersect x.optional = {} /\ x.null \subseteq x.optional
  <2>1. PICK table \in Tables : \E index, onDelete : Version(i, t) = Made(table, index, onDelete)
    BY VersionMade
  <2>2. /\ x.required = table.required
        /\ x.optional = table.optional
        /\ x.null \subseteq x.optional
    BY <1>2, <2>1 DEF Shaped, Made
  <2> QED BY <2>2, DisjointTables
<1>3. 6 \in 0..19
  OBVIOUS
<1> QED BY <1>1, <1>2, <1>3

\* NULL is only in columns that may hold it, no statement has thrown, and the users hold roles of
\* the type.
THEOREM TypeCorrect == Spec => []TypeOK
<1>1. Inv => TypeOK
  <2> SUFFICES ASSUME Inv PROVE TypeOK
    OBVIOUS
  <2>1. applied \in 0..19 /\ Good("reverted", applied, db)
    BY DEF Inv
  <2>2. ASSUME NEW t \in DOMAIN db.tables
        PROVE  /\ db.tables[t].null \subseteq db.tables[t].optional
               /\ db.tables[t].required \intersect db.tables[t].optional = {}
    BY <2>1, KnownNames, Disjoint DEF Good
  <2> QED BY <2>1, <2>2, OrderIs DEF TypeOK, Good, IsDb, RolesOk
<1> QED BY <1>1, SchemaKnown, PTL

\* A revert throws only at the irreversible migration and at a NOT NULL that a row denies: no revert
\* fails because of what an earlier run, revert or write has left of the schema.
THEOREM RevertsRefusedForData == Spec => []RefusedForData
<1>1. ASSUME Inv PROVE RefusedForData
  <2>1. CASE applied > 0 /\ Undone.thrown
    <3>1. applied \in 0..19 /\ Good("reverted", applied, db)
      BY <1>1 DEF Inv
    <3>2. After(applied - 1, applied)
      BY <2>1, <3>1 DEF After
    <3>3. Good("reverted", applied - 1, Undone) => Undone.thrown = FALSE
      BY DEF Good, IsDb
    <3>4. Excused(applied, db)
      BY <2>1, <3>1, <3>2, <3>3, DownOk DEF Undone
    <3> QED BY <3>4, OrderIs DEF Excused, RefusedForData
  <2>2. CASE ~(applied > 0 /\ Undone.thrown)
    BY <2>2 DEF RefusedForData
  <2> QED BY <2>1, <2>2
<1> QED BY <1>1, SchemaKnown, PTL

\* From every state that runs, reverts and writes can reach, migration:run succeeds, of this and of
\* every earlier release, and this one ends with the columns, keys and roles that the entities
\* it uses declare.
THEOREM RunsReachEntities == Spec => []RunReachesEntities
<1>1. ASSUME NEW d, Good("reverted", 19, d) PROVE Fits(d)
  <2>1. DOMAIN d.tables = InUse /\ Names(19) = InUse
    BY <1>1 DEF Good, Names, From, Within, Entities, InUse
  <2>2. RolesOk(19, d)
    BY <1>1 DEF Good
  <2>3. \A t \in InUse : Version(19, t).required = Entities[t].required
                                  /\ Version(19, t).optional = Entities[t].optional
                                  /\ Version(19, t).unique = Entities[t].unique
    BY DEF Version, Entities, InUse, Made
  <2>4. \A t \in InUse : Like(d.tables[t], Version(19, t))
    BY <1>1, <2>1 DEF Good, TableOk, Lost
  <2> QED BY <2>1, <2>2, <2>3, <2>4 DEF Fits, RolesOk, Like, Shaped
<1>2. Inv => RunReachesEntities
  <2> SUFFICES ASSUME Inv PROVE RunReachesEntities
    OBVIOUS
  <2>1. \A n \in applied..19 : Good("reverted", n, Migrated(db, applied, n))
    BY MigratedOk DEF Inv
  <2>2. \A n \in applied..19 : Migrated(db, applied, n).thrown = FALSE
    BY <2>1 DEF Good, IsDb
  <2>3. Fits(Migrated(db, applied, 19))
    BY <1>1, <2>1 DEF Inv
  <2> QED BY <2>2, <2>3, OrderIs DEF RunReachesEntities
<1> QED BY <1>2, SchemaKnown, PTL

\* A revert gives back the schema that the remaining migrations build from nothing, but for the
\* password and the three indexes that two of them take away.
THEOREM RevertsRestore == Spec => []RevertRestores
<1>1. ASSUME Inv PROVE RevertRestores
  <2> DEFINE b == Migrated(Empty, 0, applied)
             Excess == IF applied \in 7..8 THEN {"password"} ELSE {}
  <2>1. applied \in 0..19 /\ Good("reverted", applied, db)
    BY <1>1 DEF Inv
  <2>2. Good("run", applied, b)
    <3>1. Good("run", 0, Empty) /\ 0 \in 0..19
      BY EmptyOk
    <3>2. \A n \in 0..19 : Good("run", n, Migrated(Empty, 0, n))
      BY <3>1, MigratedOk
    <3> QED BY <2>1, <3>2
  <2> HIDE DEF b
  <2>3. /\ DOMAIN db.tables = DOMAIN b.tables /\ DOMAIN b.tables = Names(applied)
        /\ db.labels = b.labels /\ db.default = b.default
    BY <2>1, <2>2 DEF Good, RolesOk
  <2>4. ASSUME NEW t \in Names(applied)
        PROVE  /\ Columns(db, t) = Columns(b, t)
               /\ b.tables[t].required \subseteq db.tables[t].required
               /\ db.tables[t].required \subseteq b.tables[t].required \union Excess
               /\ db.tables[t].unique = b.tables[t].unique
               /\ db.tables[t].onDelete = b.tables[t].onDelete
               /\ \/ db.tables[t].index = b.tables[t].index
                  \/ applied \in 6..9 /\ db.tables[t].index = {}
    <3>1. /\ Like(b.tables[t], Version(applied, t))
          /\ TableOk("reverted", applied, t, db.tables[t])
      BY <2>1, <2>2 DEF Good, TableOk
    <3>2. CASE \/ Like(db.tables[t], Version(applied, t))
               \/ applied \in 6..9 /\ Shaped(db.tables[t], Version(applied, t)) /\ db.tables[t].index = {}
      BY <3>1, <3>2 DEF Like, Shaped, Columns
    <3>3. CASE t = "users" /\ applied \in 7..8 /\ Like(db.tables[t], Version(6, t))
      <4>1. /\ Version(6, t) = Made(Users2, {}, "none")
            /\ Version(applied, t) = Made(Users7, {}, "none")
        BY <3>3 DEF Version
      <4>2. /\ Users7.required = Users2.required \ {"password"}
            /\ "password" \in Users2.required
            /\ Users7.optional = Users2.optional \union {"password"}
            /\ Users7.unique = Users2.unique
        BY DEF Users1, Users2, Users7, Table
      <4> QED BY <3>1, <3>3, <4>1, <4>2 DEF Like, Shaped, Made, Columns
    <3> QED BY <3>1, <3>2, <3>3 DEF TableOk, Lost, Like
  <2> QED BY <2>3, <2>4 DEF RevertRestores, b
<1> QED BY <1>1, SchemaKnown, PTL
=============================================================================
