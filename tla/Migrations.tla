------------------------------- MODULE Migrations -------------------------------
(***************************************************************************)
(* The schema of the database and the migrations that make it, in the      *)
(* order of their timestamps.  migration:run applies all that are pending  *)
(* in one transaction, migration:revert undoes the last one; either leaves *)
(* the database alone when a statement throws.  A release has the first so *)
(* many migrations, and between two commands the application writes rows.  *)
(*                                                                         *)
(* Of a column the model keeps whether it is NOT NULL and, where some      *)
(* migration makes it so, whether a row holds NULL in it; of the users     *)
(* also the roles that they hold.  Types, lengths and keys named id are    *)
(* left out.                                                               *)
(***************************************************************************)
EXTENDS Naturals, Sequences, Functions

VARIABLES
    db,      \* the tables and the type users_role_enum
    applied  \* how many migrations the migrations table lists

vars == <<db, applied>>

Table(required, optional, unique) ==
    [required |-> required, optional |-> optional, unique |-> unique,
     index |-> {}, onDelete |-> "none", rows |-> FALSE, null |-> {}]

Empty == [tables |-> <<>>, labels |-> {}, held |-> {}, default |-> "none", thrown |-> FALSE]

\* The columns that some migration makes NOT NULL.
Tracked == {"country", "password", "role_track", "company_name"}

-----------------------------------------------------------------------------
(* The statements.  One that throws marks the database; what follows it in  *)
(* the same transaction does not matter any more.                           *)

Step(d, ok, after) == IF ok /\ ~d.thrown THEN after ELSE [d EXCEPT !.thrown = TRUE]

Exists(d, t) == t \in DOMAIN d.tables
Columns(d, t) == d.tables[t].required \union d.tables[t].optional

CreateTable(d, t, table) ==
    Step(d, ~Exists(d, t),
         [d EXCEPT !.tables = [s \in {t} \union DOMAIN @ |-> IF s = t THEN table ELSE @[s]]])
CreateIfMissing(d, t, table) == IF Exists(d, t) THEN d ELSE CreateTable(d, t, table)

\* Only users is referenced by other tables.
DropTable(d, t) ==
    Step(d, Exists(d, t) /\ (t = "users" => \A s \in DOMAIN d.tables : d.tables[s].onDelete = "none"),
         [d EXCEPT !.tables = Restrict(@, DOMAIN @ \ {t})])

RenameTable(d, t, s) ==
    Step(d, Exists(d, t) /\ ~Exists(d, s),
         [d EXCEPT !.tables = [u \in {s} \union (DOMAIN @ \ {t}) |-> IF u = s THEN @[t] ELSE @[u]]])

\* New columns are NULL in the rows that are there, unless they have a default,
\* as the required ones among them do.
AddMissing(d, t, required, optional) ==
    LET new == optional \ Columns(d, t)
    IN  Step(d, Exists(d, t),
             [d EXCEPT !.tables[t].required = @ \union (required \ Columns(d, t)),
                       !.tables[t].optional = @ \union new,
                       !.tables[t].null = @ \union IF d.tables[t].rows THEN new \intersect Tracked ELSE {}])
AddColumns(d, t, required, optional) ==
    Step(d, Exists(d, t) /\ Columns(d, t) \intersect (required \union optional) = {},
         AddMissing(d, t, required, optional))

DropIfThere(d, t, columns) ==
    Step(d, Exists(d, t),
         [d EXCEPT !.tables[t].required = @ \ columns, !.tables[t].optional = @ \ columns,
                   !.tables[t].null = @ \ columns])
DropColumns(d, t, columns) ==
    Step(d, Exists(d, t) /\ columns \subseteq Columns(d, t), DropIfThere(d, t, columns))

Fill(d, t, c) == Step(d, Exists(d, t), [d EXCEPT !.tables[t].null = @ \ {c}])
Unlooked(d, t, c) == FALSE                       \* slip: the rows are not looked at
HasNull(d, t, c) == c \in d.tables[t].null

SetNotNull(d, t, c) ==
    Step(d, Exists(d, t) /\ c \in Columns(d, t) /\ ~HasNull(d, t, c),
         [d EXCEPT !.tables[t].optional = @ \ {c}, !.tables[t].required = @ \union {c}])
DropNotNull(d, t, c) ==
    Step(d, Exists(d, t) /\ c \in Columns(d, t),
         [d EXCEPT !.tables[t].required = @ \ {c}, !.tables[t].optional = @ \union {c}])

DropIndexIfThere(d, t, i) == Step(d, Exists(d, t), [d EXCEPT !.tables[t].index = @ \ {i}])
DropIndex(d, t, i) ==
    Step(d, Exists(d, t) /\ i \in d.tables[t].index, DropIndexIfThere(d, t, i))
AddIndexIfMissing(d, t, i) == Step(d, Exists(d, t), [d EXCEPT !.tables[t].index = @ \union {i}])
AddIndex(d, t, i) ==
    Step(d, Exists(d, t) /\ i \notin d.tables[t].index, AddIndexIfMissing(d, t, i))

\* The foreign key on user_id.
Reference(d, t, rule) ==
    Step(d, Exists(d, "users") /\ Exists(d, t), [d EXCEPT !.tables[t].onDelete = rule])
DropReference(d, t) == Step(d, Exists(d, t), [d EXCEPT !.tables[t].onDelete = "none"])

\* The column role is cast to text, its values are rewritten, and it is cast to an
\* enum with other labels, which throws if a row holds something else.
RecastRole(d, labels, rewritten, default) ==
    LET held == {rewritten[r] : r \in d.held}
    IN  Step(d, Exists(d, "users") /\ held \subseteq labels,
             [d EXCEPT !.labels = labels, !.held = held, !.default = default])

RenameRole(d, from, to) ==
    Step(d, Exists(d, "users") /\ from \in d.labels /\ to \notin d.labels,
         [d EXCEPT !.labels = (@ \ {from}) \union {to},
                   !.held = IF from \in @ THEN (@ \ {from}) \union {to} ELSE @,
                   !.default = to])

-----------------------------------------------------------------------------
(* The migrations, up and down.                                             *)

CreateUsersUp(d) ==
    CreateIfMissing([d EXCEPT !.labels = {"admin", "user"}, !.default = "user"], "users",
        Table({"email", "password", "first_name", "last_name", "role", "created_at", "updated_at"},
              {"avatar_url", "refresh_token_hash", "deleted_at"}, {{"email"}}))
CreateUsersDown(d) ==
    [DropTable(d, "users") EXCEPT !.labels = {}, !.held = {}, !.default = "none"]

\* The rows that are there get a country before the column is made NOT NULL.
AlignUsersUp(d) ==
    LET a == RecastRole(d, {"admin", "candidate", "employer"},
                        [r \in d.labels |-> IF r = "user" THEN "candidate" ELSE r], "candidate")
        b == AddColumns(a, "users", {"is_verified", "onboarding_complete"}, {"country"})
    IN  SetNotNull(Fill(b, "users", "country"), "users", "country")
AlignUsersDown(d) ==
    DropColumns(RecastRole(d, {"admin", "user"},
                           [r \in d.labels |-> IF r = "admin" THEN r ELSE "user"], "user"),
                "users", {"onboarding_complete", "is_verified", "country"})

\* The columns of a table of one-time codes.
CodeTable == Table({"user_id", "otp_hash", "expires_at", "request_source", "created_at"},
                   {"used_at"}, {})

CreateVerificationOtpsUp(d) ==
    LET a == Reference(CreateIfMissing(d, "verification_otps", CodeTable),
                       "verification_otps", "CASCADE")
    IN  AddIndex(a, "verification_otps", "user_created_at")
CreateVerificationOtpsDown(d) ==
    LET a == DropIndex(d, "verification_otps", "user_created_at")
    IN  DropTable(DropReference(a, "verification_otps"), "verification_otps")

CreateUserOauthAccountsUp(d) ==
    Reference(CreateTable(d, "user_oauth_accounts",
                  Table({"user_id", "provider", "provider_id", "created_at"}, {},
                        {{"provider"}, {"provider_id"}, {"user_id"}})),
              "user_oauth_accounts", "NO ACTION")
CreateUserOauthAccountsDown(d) ==
    DropTable(DropReference(d, "user_oauth_accounts"), "user_oauth_accounts")

CreateInquiriesTablesUp(d) ==
    LET a == CreateIfMissing(d, "waitlist_entries", Table({"email", "created_at"}, {}, {{"email"}}))
        b == AddIndex(a, "waitlist_entries", "created_at")
        c == CreateIfMissing(b, "contact_messages",
                 Table({"full_name", "email", "subject", "message", "created_at"}, {}, {}))
    IN  AddIndex(c, "contact_messages", "created_at")
CreateInquiriesTablesDown(d) ==
    LET a == DropTable(DropIndex(d, "contact_messages", "created_at"), "contact_messages")
    IN  DropTable(DropIndex(a, "waitlist_entries", "created_at"), "waitlist_entries")

FixUserOauthConstraintsUp(d) ==
    Step(d, Exists(d, "user_oauth_accounts"),
         [d EXCEPT !.tables["user_oauth_accounts"].unique =
              (@ \ {{"provider"}, {"provider_id"}, {"user_id"}})
              \union {{"user_id", "provider"}, {"provider", "provider_id"}}])
FixUserOauthConstraintsDown(d) == [d EXCEPT !.thrown = TRUE]

\* Both migrations that make the password nullable do and undo the same.
PasswordNullableUp(d) == DropNotNull(d, "users", "password")
PasswordNullableDown(d) ==
    Step(d, ~HasNull(d, "users", "password"), SetNotNull(d, "users", "password"))

CreateRoleProfilesUp(d) ==
    LET a == CreateTable(d, "candidate_profiles",
                 Table({"user_id", "role_track", "status", "is_published", "created_at", "updated_at"},
                       {"bio", "profile_share_link", "published_at"},
                       {{"user_id"}, {"profile_share_link"}}))
        b == CreateTable(a, "employer_profiles",
                 Table({"user_id", "company_name", "created_at", "updated_at"},
                       {"company_size", "industry", "website_url", "company_description",
                        "hiring_region"}, {{"user_id"}}))
    IN  Reference(Reference(b, "candidate_profiles", "CASCADE"), "employer_profiles", "CASCADE")
CreateRoleProfilesDown(d) ==
    DropTable(DropTable(d, "employer_profiles"), "candidate_profiles")

IndexesNotThere(d) ==                            \* slip: without IF NOT EXISTS
    AddIndex(AddIndex(AddIndex(d, "waitlist_entries", "created_at"),
                      "contact_messages", "created_at"), "verification_otps", "user_created_at")
RestoreIndexesUp(d) ==
    LET a == AddIndexIfMissing(d, "waitlist_entries", "created_at")
        b == AddIndexIfMissing(a, "contact_messages", "created_at")
    IN  AddIndexIfMissing(b, "verification_otps", "user_created_at")
RestoreIndexesDown(d) ==
    LET a == DropIndexIfThere(d, "verification_otps", "user_created_at")
        b == DropIndexIfThere(a, "contact_messages", "created_at")
    IN  DropIndexIfThere(b, "waitlist_entries", "created_at")

CreateResetTokensUp(d) ==
    LET a == CreateIfMissing(d, "password_reset_tokens",
                 Table({"user_id", "token_lookup_hash", "token_hash", "expires_at", "created_at"},
                       {"used_at"}, {{"token_lookup_hash"}}))
        b == Reference(a, "password_reset_tokens", "CASCADE")
    IN  AddIndex(b, "password_reset_tokens", "user_used_expires")
CreateResetTokensDown(d) ==
    LET a == DropIndex(d, "password_reset_tokens", "user_used_expires")
    IN  DropTable(DropReference(a, "password_reset_tokens"), "password_reset_tokens")

CandidateToTalentUp(d) == RenameRole(d, "candidate", "talent")
CandidateToTalentDown(d) == RenameRole(d, "talent", "candidate")

ExtendWaitlistUp(d) ==
    AddColumns(AddColumns(d, "users", {}, {"signup_reason"}), "waitlist_entries", {},
               {"joining_as", "full_name", "preferred_role", "referral_source"})
ExtendWaitlistDown(d) ==
    DropColumns(DropColumns(d, "waitlist_entries",
                            {"referral_source", "preferred_role", "full_name", "joining_as"}),
                "users", {"signup_reason"})

TalentProfilesUp(d) == RenameTable(d, "candidate_profiles", "talent_profiles")
TalentProfilesDown(d) == RenameTable(d, "talent_profiles", "candidate_profiles")

ResetOtpsUp(d) ==
    LET a == IF ~Exists(d, "password_reset_tokens") THEN d
             ELSE DropTable(DropReference(d, "password_reset_tokens"), "password_reset_tokens")
        b == Reference(CreateIfMissing(a, "password_reset_otps", CodeTable),
                       "password_reset_otps", "CASCADE")
    IN  AddIndex(b, "password_reset_otps", "user_used_expires")

DropOtps(d) ==
    IF ~Exists(d, "password_reset_otps") THEN d
    ELSE DropTable(DropIndex(DropReference(d, "password_reset_otps"), "password_reset_otps",
                             "user_used_expires"), "password_reset_otps")
NoIndex(d) ==                                    \* slip: the old index is not restored
    LET a == CreateIfMissing(DropOtps(d), "password_reset_tokens",
                 Table({"user_id", "token_lookup_hash", "token_hash", "expires_at", "created_at"},
                       {"used_at"}, {{"token_lookup_hash"}}))
    IN  Reference(a, "password_reset_tokens", "CASCADE")
ResetOtpsDown(d) == CreateResetTokensUp(DropOtps(d))

TalentStepFieldsUp(d) ==
    AddMissing(DropNotNull(d, "talent_profiles", "role_track"), "talent_profiles",
               {"onboarding_step"},
               {"goal", "role_tracks", "region", "education_level", "linkedin_url"})
TalentStepFieldsDown(d) ==
    SetNotNull(DropIfThere(d, "talent_profiles",
                   {"onboarding_step", "linkedin_url", "education_level", "region", "role_tracks",
                    "goal"}), "talent_profiles", "role_track")

EmployerFieldsUp(d) ==
    AddMissing(DropNotNull(d, "employer_profiles", "company_name"), "employer_profiles", {},
               {"joining_as", "desired_roles", "region", "hiring_count_range", "company_website"})
OneLeft(d) ==                                    \* slip: a column is not dropped
    SetNotNull(DropIfThere(d, "employer_profiles",
                   {"company_website", "hiring_count_range", "desired_roles", "joining_as"}),
               "employer_profiles", "company_name")
EmployerFieldsDown(d) ==
    SetNotNull(DropIfThere(d, "employer_profiles",
                   {"company_website", "hiring_count_range", "region", "desired_roles",
                    "joining_as"}), "employer_profiles", "company_name")

EmployerNewFieldsUp(d) ==
    AddMissing(d, "employer_profiles", {}, {"employer_type", "hiring_roles", "hiring_locations"})
EmployerNewFieldsDown(d) ==
    DropIfThere(d, "employer_profiles", {"hiring_locations", "hiring_roles", "employer_type"})

TalentTrackUp(d) == AddMissing(d, "talent_profiles", {"profile_verified"}, {"track"})
TalentTrackDown(d) == DropIfThere(d, "talent_profiles", {"profile_verified", "track"})

-----------------------------------------------------------------------------
(* The commands.                                                            *)

\* By timestamp.
Order == <<"CreateUsers", "AlignUsers", "CreateVerificationOtps", "CreateUserOauthAccounts",
           "CreateInquiriesTables", "FixUserOauthConstraints", "PasswordNullableForOAuth",
           "CreateRoleProfiles", "PasswordNullable", "RestoreIndexes", "CreateResetTokens",
           "CandidateToTalent", "ExtendWaitlist", "TalentProfiles", "ResetOtps",
           "TalentStepFields", "EmployerFields", "EmployerNewFields", "TalentTrack">>
Latest == Len(Order)

Up(m, d) ==
    CASE m = "CreateUsers"              -> CreateUsersUp(d)
      [] m = "AlignUsers"               -> AlignUsersUp(d)
      [] m = "CreateVerificationOtps"   -> CreateVerificationOtpsUp(d)
      [] m = "CreateUserOauthAccounts"  -> CreateUserOauthAccountsUp(d)
      [] m = "CreateInquiriesTables"    -> CreateInquiriesTablesUp(d)
      [] m = "FixUserOauthConstraints"  -> FixUserOauthConstraintsUp(d)
      [] m \in {"PasswordNullableForOAuth", "PasswordNullable"} -> PasswordNullableUp(d)
      [] m = "CreateRoleProfiles"       -> CreateRoleProfilesUp(d)
      [] m = "RestoreIndexes"           -> RestoreIndexesUp(d)
      [] m = "CreateResetTokens"        -> CreateResetTokensUp(d)
      [] m = "CandidateToTalent"        -> CandidateToTalentUp(d)
      [] m = "ExtendWaitlist"           -> ExtendWaitlistUp(d)
      [] m = "TalentProfiles"           -> TalentProfilesUp(d)
      [] m = "ResetOtps"                -> ResetOtpsUp(d)
      [] m = "TalentStepFields"         -> TalentStepFieldsUp(d)
      [] m = "EmployerFields"           -> EmployerFieldsUp(d)
      [] m = "EmployerNewFields"        -> EmployerNewFieldsUp(d)
      [] m = "TalentTrack"              -> TalentTrackUp(d)

Down(m, d) ==
    CASE m = "CreateUsers"              -> CreateUsersDown(d)
      [] m = "AlignUsers"               -> AlignUsersDown(d)
      [] m = "CreateVerificationOtps"   -> CreateVerificationOtpsDown(d)
      [] m = "CreateUserOauthAccounts"  -> CreateUserOauthAccountsDown(d)
      [] m = "CreateInquiriesTables"    -> CreateInquiriesTablesDown(d)
      [] m = "FixUserOauthConstraints"  -> FixUserOauthConstraintsDown(d)
      [] m \in {"PasswordNullableForOAuth", "PasswordNullable"} -> PasswordNullableDown(d)
      [] m = "CreateRoleProfiles"       -> CreateRoleProfilesDown(d)
      [] m = "RestoreIndexes"           -> RestoreIndexesDown(d)
      [] m = "CreateResetTokens"        -> CreateResetTokensDown(d)
      [] m = "CandidateToTalent"        -> CandidateToTalentDown(d)
      [] m = "ExtendWaitlist"           -> ExtendWaitlistDown(d)
      [] m = "TalentProfiles"           -> TalentProfilesDown(d)
      [] m = "ResetOtps"                -> ResetOtpsDown(d)
      [] m = "TalentStepFields"         -> TalentStepFieldsDown(d)
      [] m = "EmployerFields"           -> EmployerFieldsDown(d)
      [] m = "EmployerNewFields"        -> EmployerNewFieldsDown(d)
      [] m = "TalentTrack"              -> TalentTrackDown(d)

\* Database d after migrations k + 1 to n.
Migrated(d, k, n) ==
    LET after[i \in k..Latest] == IF i = k THEN d ELSE Up(Order[i], after[i - 1])
    IN  after[n]

\* migration:run of the release with the first n migrations.
Run(n) ==
    /\ n > applied
    /\ ~Migrated(db, applied, n).thrown
    /\ db' = Migrated(db, applied, n)
    /\ applied' = n

Undone == Down(Order[applied], db)

Revert ==
    /\ applied > 0
    /\ ~Undone.thrown
    /\ db' = Undone
    /\ applied' = applied - 1

-----------------------------------------------------------------------------
(* The rows that the application writes, whichever release runs.            *)

Insert(t, nulls, held) ==
    /\ Exists(db, t) /\ nulls \subseteq db.tables[t].optional \intersect Tracked
    /\ db' = [db EXCEPT !.tables[t].rows = TRUE, !.tables[t].null = @ \union nulls,
                        !.held = @ \union held]
    /\ UNCHANGED applied

AddUser(role, nulls) == role \in db.labels /\ Insert("users", nulls, {role})

\* A profile belongs to a user.
AddProfile(t, nulls) ==
    /\ t \in {"candidate_profiles", "talent_profiles", "employer_profiles"}
    /\ Exists(db, t) /\ db.tables["users"].rows
    /\ Insert(t, nulls, {})

\* The last NULL of a column goes: a password is reset, a profile is filled in.
Complete(t, c) ==
    /\ Exists(db, t) /\ HasNull(db, t, c)
    /\ db' = Fill(db, t, c)
    /\ UNCHANGED applied

Init == db = Empty /\ applied = 0

Next ==
    \/ \E n \in 1..Latest : Run(n)
    \/ Revert
    \/ \E nulls \in SUBSET Tracked :
          \/ \E role \in db.labels : AddUser(role, nulls)
          \/ \E t \in DOMAIN db.tables : AddProfile(t, nulls)
    \/ \E t \in DOMAIN db.tables, c \in Tracked : Complete(t, c)

Spec == Init /\ [][Next]_vars

-----------------------------------------------------------------------------
(* The tables as the entities of this release declare them.  Two classes    *)
(* declare user_oauth_accounts, alike.                                      *)

UserEntity ==
    Table({"email", "first_name", "last_name", "country", "is_verified", "onboarding_complete",
           "role", "created_at", "updated_at"},
          {"password", "avatar_url", "signup_reason", "refresh_token_hash", "deleted_at"}, {{"email"}})
OAuthUserEntity ==
    Table({"user_id", "provider", "provider_id", "created_at"}, {},
          {{"user_id", "provider"}, {"provider", "provider_id"}})
TalentProfileEntity ==
    Table({"user_id", "profile_verified", "onboarding_step", "status", "is_published",
           "created_at", "updated_at"},
          {"role_track", "role_tracks", "goal", "region", "education_level", "linkedin_url",
           "track", "bio", "profile_share_link", "published_at"},
          {{"user_id"}, {"profile_share_link"}})
EmployerProfileEntity ==
    Table({"user_id", "created_at", "updated_at"},
          {"employer_type", "hiring_roles", "hiring_locations", "joining_as", "desired_roles",
           "region", "hiring_count_range", "company_website", "company_name", "company_size",
           "industry", "website_url", "company_description", "hiring_region"}, {{"user_id"}})
VerificationOtpEntity == CodeTable
PasswordResetOtpEntity == CodeTable
WaitlistEntryEntity ==
    Table({"email", "created_at"},
          {"joining_as", "full_name", "preferred_role", "referral_source"}, {{"email"}})
ContactMessageEntity == Table({"full_name", "email", "subject", "message", "created_at"}, {}, {})

CandidateProfileEntity ==
    Table({"user_id", "role_track", "status", "is_published", "created_at", "updated_at"},
          {"bio", "profile_share_link", "published_at"}, {{"user_id"}, {"profile_share_link"}})

\* What the pattern **/*.entity loads.
Entities ==
    [users |-> UserEntity, user_oauth_accounts |-> OAuthUserEntity,
     talent_profiles |-> TalentProfileEntity, employer_profiles |-> EmployerProfileEntity,
     candidate_profiles |-> CandidateProfileEntity,
     verification_otps |-> VerificationOtpEntity, password_reset_otps |-> PasswordResetOtpEntity,
     waitlist_entries |-> WaitlistEntryEntity, contact_messages |-> ContactMessageEntity]

\* AppModule imports every module but CandidateModule: only the entities of the others
\* have repositories that something injects.
InUse == DOMAIN Entities \ {"candidate_profiles"}

Fits(d) ==
    /\ DOMAIN d.tables = InUse
    /\ \A t \in InUse :
          /\ d.tables[t].required = Entities[t].required
          /\ d.tables[t].optional = Entities[t].optional
          /\ d.tables[t].unique = Entities[t].unique
    /\ d.labels = {"admin", "talent", "employer"} /\ d.default = "talent"

-----------------------------------------------------------------------------
(* What the migrations promise.                                             *)

\* NULL is only in columns that may hold it, and users hold roles of the type.
TypeOK ==
    /\ applied \in 0..Latest /\ db.thrown = FALSE
    /\ db.held \subseteq db.labels
    /\ \A t \in DOMAIN db.tables :
          /\ db.tables[t].null \subseteq db.tables[t].optional
          /\ db.tables[t].required \intersect db.tables[t].optional = {}

\* Whatever was run, reverted and written before, a run of this or of an earlier
\* release does not throw on the data or on what a revert left behind, and this
\* release ends with the columns, NOT NULLs, unique keys and roles of the entities that
\* it uses, and with no other table: CandidateProfile, which it loads and does not use,
\* is left without one.
RunReachesEntities ==
    /\ \A n \in applied..Latest : ~Migrated(db, applied, n).thrown
    /\ Fits(Migrated(db, applied, Latest))

\* A revert throws only at the migration that says it is irreversible, or because a
\* row holds NULL in the column that would become NOT NULL again.
RefusedForData ==
    applied > 0 /\ Undone.thrown =>
        LET m == Order[applied]
        IN  \/ m = "FixUserOauthConstraints"
            \/ m \in {"PasswordNullableForOAuth", "PasswordNullable"} /\ HasNull(db, "users", "password")
            \/ m = "TalentStepFields" /\ HasNull(db, "talent_profiles", "role_track")
            \/ m = "EmployerFields" /\ HasNull(db, "employer_profiles", "company_name")

\* After any runs and reverts the schema is the one that the applied migrations build
\* from nothing.  Two reverts take back too much: that of PasswordNullable makes the
\* password NOT NULL although an earlier migration that still counts made it nullable,
\* that of RestoreIndexes drops three indexes that earlier migrations made.
RevertRestores ==
    LET b == Migrated(Empty, 0, applied)
        Excess == IF applied \in 7..8 THEN {"password"} ELSE {}
    IN  /\ DOMAIN db.tables = DOMAIN b.tables
        /\ db.labels = b.labels /\ db.default = b.default
        /\ \A t \in DOMAIN b.tables :
              /\ Columns(db, t) = Columns(b, t)
              /\ b.tables[t].required \subseteq db.tables[t].required
              /\ db.tables[t].required \subseteq b.tables[t].required \union Excess
              /\ db.tables[t].unique = b.tables[t].unique
              /\ db.tables[t].onDelete = b.tables[t].onDelete
              /\ \/ db.tables[t].index = b.tables[t].index
                 \/ applied \in 6..9 /\ db.tables[t].index = {}
=============================================================================
