------------------------------- MODULE Accounts -------------------------------
(* Who may do what, and what citizens leave behind: staff accounts and their *)
(* sessions (operations/auth.py), agent keys (operations/agent_auth.py),     *)
(* citizens with their bookmarks, searches and downloads                     *)
(* (operations/citizen.py), the routes in front of them (workbench/deps.py,  *)
(* app.py, operations_routes.py), what a start of the server sets up, and    *)
(* what the production reset deletes of it (operations/reset.py).  A browser *)
(* makes one request at a time; each statement is its own transaction, and   *)
(* one that a constraint refuses ends the request with a 500.                *)
EXTENDS Naturals, Sequences, FiniteSets

CONSTANTS
    Browsers,
    Users,         \* usernames, which are UNIQUE
    Citizens,      \* e-mail addresses, which are UNIQUE
    Records,       \* published government orders
    Keys,          \* agent keys
    EnvAdmin,      \* THIRDEYE_ADMIN_USERNAME of the deployments after the first, or Null
    EnvKey,        \* THIRDEYE_BOOTSTRAP_AGENT_KEY of the deployments after the first, or Null
    MaxDownloads,  \* bound on download_log and on download events
    MaxSearches,   \* bound on the searches a citizen saves
    Null

ASSUME AccountAssumption ==
    /\ Null \notin Users /\ Null \notin Citizens /\ Null \notin Records
    /\ Null \notin [role : {"platform_admin", "state_admin", "reviewer", "auditor", "read_only"}, active : BOOLEAN]
    /\ Null \notin [revoked : BOOLEAN, used : BOOLEAN]
    /\ Null \notin [who : Users, live : BOOLEAN] /\ Null \notin [who : Citizens, live : BOOLEAN]
    /\ EnvAdmin \in Users \cup {Null} /\ EnvKey \in Keys \cup {Null}
    /\ MaxDownloads \in Nat /\ MaxSearches \in Nat
    /\ IsFiniteSet(Browsers)

VARIABLES
    user,      \* users: role and active, or Null
    key,       \* agent_keys: revoked and used, or Null
    session,   \* the row of sessions that the cookie of a browser names, or Null
    visit,     \* the same of citizen_sessions
    citizen,   \* citizen_users
    saved,     \* saved_records
    searches,  \* saved_searches: how many of each citizen
    log,       \* download_log, in order
    event,     \* engagement_events of type download, in order
    record,    \* the rows of go_records that have been approved: others are shown to nobody here
    request    \* per browser: the request it waits for

staffTables == <<user, key, session>>
citizenTables == <<visit, citizen, saved, searches>>
accountVars == <<staffTables, citizenTables, log, event, record, request>>

Roles == {"platform_admin", "state_admin", "reviewer", "auditor", "read_only"}
ManageUsers == {"platform_admin"}
ManageSources == {"platform_admin", "state_admin"}

UserRows == [role : Roles, active : BOOLEAN]
KeyRows == [revoked : BOOLEAN, used : BOOLEAN]
SessionRows == [who : Users, live : BOOLEAN]
VisitRows == [who : Citizens, live : BOOLEAN]
LogRows == [citizen : Citizens \cup {Null}, staff : Users \cup {Null}, record : Records]

Ready == [pc |-> "idle", op |-> "none", user |-> Null, role |-> "reviewer", on |-> FALSE, me |-> Null,
          citizen |-> Null, record |-> Null]

AccountInit ==
    /\ user = [u \in Users |-> Null] /\ key = [k \in Keys |-> Null]
    /\ session = [b \in Browsers |-> Null] /\ visit = [b \in Browsers |-> Null]
    /\ citizen = {} /\ saved = {} /\ searches = [c \in Citizens |-> 0]
    /\ log = <<>> /\ event = <<>> /\ record = {}
    /\ request = [b \in Browsers |-> Ready]

Doing(b, pc) == request[b].pc = pc
Proceed(b, r) == request' = [request EXCEPT ![b] = r]
Answer(b) == Proceed(b, Ready)

HasAnyUsers == \E u \in Users : user[u] # Null

\* get_session_user joins the session with its account, so that a deactivation ends every session at once.
CurrentUser(b) ==
    IF session[b] # Null /\ session[b].live /\ user[session[b].who].active THEN session[b].who ELSE Null
CurrentCitizen(b) == IF visit[b] # Null /\ visit[b].live THEN visit[b].who ELSE Null

\* require_permission.
Permitted(b, roles) == CurrentUser(b) # Null /\ user[CurrentUser(b)].role \in roles

-----------------------------------------------------------------------------
(* Staff.                                                                   *)

\* The first account, while there is none.
Setup(b, u) ==
    /\ Doing(b, "idle") /\ ~ HasAnyUsers
    /\ Proceed(b, [Ready EXCEPT !.pc = "look_up_user", !.op = "setup", !.user = u, !.role = "platform_admin"])
    /\ UNCHANGED <<staffTables, citizenTables, log, event, record>>

AddUser(b, u, role) ==
    /\ Doing(b, "idle") /\ Permitted(b, ManageUsers)
    /\ Proceed(b, [Ready EXCEPT !.pc = "look_up_user", !.op = "add", !.user = u, !.role = role])
    /\ UNCHANGED <<staffTables, citizenTables, log, event, record>>

LookUpUser(b) ==
    /\ Doing(b, "look_up_user")
    /\ IF user[request[b].user] # Null THEN Answer(b) ELSE Proceed(b, [request[b] EXCEPT !.pc = "insert_user"])
    /\ UNCHANGED <<staffTables, citizenTables, log, event, record>>

InsertUser(b) ==
    LET r == request[b] IN
    /\ Doing(b, "insert_user")
    /\ IF user[r.user] # Null
       THEN Answer(b) /\ UNCHANGED user
       ELSE /\ user' = [user EXCEPT ![r.user] = [role |-> r.role, active |-> TRUE]]
            /\ IF r.op = "setup" THEN Proceed(b, [r EXCEPT !.pc = "insert_session"]) ELSE Answer(b)
    /\ UNCHANGED <<key, session, citizenTables, log, event, record>>

\* Mutant: an administrator may deactivate the own account.
MaySetActiveAnyone(me, u, on) == TRUE

MaySetActive(me, u, on) == on \/ u # me

SetUserActive(b, u, on) ==
    /\ Doing(b, "idle") /\ Permitted(b, ManageUsers) /\ user[u] # Null
    /\ MaySetActive(CurrentUser(b), u, on)
    /\ Proceed(b, [Ready EXCEPT !.pc = "set_active", !.op = "active", !.user = u, !.on = on, !.me = CurrentUser(b)])
    /\ UNCHANGED <<staffTables, citizenTables, log, event, record>>

WriteActive(b) ==
    /\ Doing(b, "set_active")
    /\ user' = [user EXCEPT ![request[b].user].active = request[b].on]
    /\ Answer(b)
    /\ UNCHANGED <<key, session, citizenTables, log, event, record>>

\* authenticate, with the right password.
Login(b, u) ==
    /\ Doing(b, "idle") /\ user[u] # Null /\ user[u].active
    /\ Proceed(b, [Ready EXCEPT !.pc = "insert_session", !.op = "login", !.user = u])
    /\ UNCHANGED <<staffTables, citizenTables, log, event, record>>

InsertSession(b) ==
    /\ Doing(b, "insert_session")
    /\ session' = [session EXCEPT ![b] = [who |-> request[b].user, live |-> TRUE]]
    /\ Answer(b)
    /\ UNCHANGED <<user, key, citizenTables, log, event, record>>

Logout(b) ==
    /\ Doing(b, "idle") /\ session[b] # Null
    /\ session' = [session EXCEPT ![b] = Null]
    /\ UNCHANGED <<user, key, citizenTables, log, event, record, request>>

\* The time to live of a session passes.
Expire(b) ==
    /\ \/ session[b] # Null /\ session' = [session EXCEPT ![b].live = FALSE] /\ UNCHANGED visit
       \/ visit[b] # Null /\ visit' = [visit EXCEPT ![b].live = FALSE] /\ UNCHANGED session
    /\ UNCHANGED <<user, key, citizen, saved, searches, log, event, record, request>>

-----------------------------------------------------------------------------
(* Agent keys.                                                              *)

GenerateKey(b, k) ==
    /\ Doing(b, "idle") /\ Permitted(b, ManageUsers) /\ key[k] = Null /\ k # EnvKey
    /\ key' = [key EXCEPT ![k] = [revoked |-> FALSE, used |-> FALSE]]
    /\ UNCHANGED <<user, session, citizenTables, log, event, record, request>>

VerifyKey(k) ==
    /\ key[k] # Null /\ ~ key[k].revoked
    /\ key' = [key EXCEPT ![k].used = TRUE]
    /\ UNCHANGED <<user, session, citizenTables, log, event, record, request>>

RevokeKey(b, k) ==
    /\ Doing(b, "idle") /\ Permitted(b, ManageUsers) /\ key[k] # Null
    /\ key' = [key EXCEPT ![k].revoked = TRUE]
    /\ UNCHANGED <<user, session, citizenTables, log, event, record, request>>

-----------------------------------------------------------------------------
(* Citizens.                                                                *)

Register(b, c) ==
    /\ Doing(b, "idle") /\ c \notin citizen
    /\ Proceed(b, [Ready EXCEPT !.pc = "insert_citizen", !.op = "register", !.citizen = c])
    /\ UNCHANGED <<staffTables, citizenTables, log, event, record>>

InsertCitizen(b) ==
    LET c == request[b].citizen IN
    /\ Doing(b, "insert_citizen")
    /\ citizen' = citizen \cup {c}
    /\ IF c \in citizen THEN Answer(b) ELSE Proceed(b, [request[b] EXCEPT !.pc = "insert_visit"])
    /\ UNCHANGED <<staffTables, visit, saved, searches, log, event, record>>

CitizenLogin(b, c) ==
    /\ Doing(b, "idle") /\ c \in citizen
    /\ Proceed(b, [Ready EXCEPT !.pc = "insert_visit", !.op = "citizen_login", !.citizen = c])
    /\ UNCHANGED <<staffTables, citizenTables, log, event, record>>

\* Every row about a citizen or a record refers to it: a reset may have been faster.
InsertVisit(b) ==
    LET c == request[b].citizen IN
    /\ Doing(b, "insert_visit")
    /\ visit' = IF c \in citizen THEN [visit EXCEPT ![b] = [who |-> c, live |-> TRUE]] ELSE visit
    /\ Answer(b)
    /\ UNCHANGED <<staffTables, citizen, saved, searches, log, event, record>>

CitizenLogout(b) ==
    /\ Doing(b, "idle") /\ visit[b] # Null
    /\ visit' = [visit EXCEPT ![b] = Null]
    /\ UNCHANGED <<staffTables, citizen, saved, searches, log, event, record, request>>

SaveSearch(b) ==
    /\ Doing(b, "idle") /\ CurrentCitizen(b) # Null /\ searches[CurrentCitizen(b)] < MaxSearches
    /\ searches' = [searches EXCEPT ![CurrentCitizen(b)] = @ + 1]
    /\ UNCHANGED <<staffTables, visit, citizen, saved, log, event, record, request>>

DeleteSavedSearch(b) ==
    /\ Doing(b, "idle") /\ CurrentCitizen(b) # Null /\ searches[CurrentCitizen(b)] > 0
    /\ searches' = [searches EXCEPT ![CurrentCitizen(b)] = @ - 1]
    /\ UNCHANGED <<staffTables, visit, citizen, saved, log, event, record, request>>

\* toggle_saved_record looks the bookmark up and then inserts or deletes it.
IsSaved(b, r) ==
    LET c == CurrentCitizen(b) IN
    /\ Doing(b, "idle") /\ c # Null /\ r \in record
    /\ Proceed(b, [Ready EXCEPT !.pc = IF <<c, r>> \in saved THEN "unsave" ELSE "save", !.op = "toggle",
                                !.citizen = c, !.record = r])
    /\ UNCHANGED <<staffTables, citizenTables, log, event, record>>

ToggleSaved(b) ==
    LET c == request[b].citizen
        r == request[b].record
    IN /\ \/ Doing(b, "unsave") /\ saved' = saved \ {<<c, r>>}
          \/ Doing(b, "save") /\ saved' = IF c \in citizen /\ r \in record THEN saved \cup {<<c, r>>} ELSE saved
       /\ Answer(b)
       /\ UNCHANGED <<staffTables, visit, citizen, searches, log, event, record>>

\* A download needs any of the two logins.  With both, log_download raises and the request fails.
Download(b, r) ==
    /\ Doing(b, "idle") /\ r \in record
    /\ (CurrentUser(b) = Null) # (CurrentCitizen(b) = Null)
    /\ Proceed(b, [Ready EXCEPT !.pc = "log", !.op = "download", !.me = CurrentUser(b),
                                !.citizen = CurrentCitizen(b), !.record = r])
    /\ UNCHANGED <<staffTables, citizenTables, log, event, record>>

\* Mutant: the downloads of the staff are counted among those of the citizens.
CountedAlways(r) == TRUE

Counted(r) == r.me = Null

LogDownload(b) ==
    LET r == request[b] IN
    /\ Doing(b, "log") /\ Len(log) < MaxDownloads
    /\ IF r.record \in record /\ r.citizen \in citizen \cup {Null}
       THEN /\ log' = Append(log, [citizen |-> r.citizen, staff |-> r.me, record |-> r.record])
            /\ IF Counted(r) THEN Proceed(b, [r EXCEPT !.pc = "event"]) ELSE Answer(b)
       ELSE Answer(b) /\ UNCHANGED log
    /\ UNCHANGED <<staffTables, citizenTables, event, record>>

\* log_event swallows every exception.
LogEvent(b) ==
    /\ Doing(b, "event")
    /\ event' = Append(event, request[b].record) \/ UNCHANGED event
    /\ Answer(b)
    /\ UNCHANGED <<staffTables, citizenTables, log, record>>

\* purge_old_events: what is older than a year.
PurgeOldEvents(b, n) ==
    /\ Doing(b, "idle") /\ Permitted(b, ManageSources) /\ n <= Len(event)
    /\ event' = SubSeq(event, n + 1, Len(event))
    /\ UNCHANGED <<staffTables, citizenTables, log, record, request>>

-----------------------------------------------------------------------------
(* reset_for_production, as far as these tables go, and the server.         *)

Reset(b) ==
    /\ Doing(b, "idle") /\ Permitted(b, ManageSources)
    /\ Proceed(b, [Ready EXCEPT !.pc = "reset_downloads", !.op = "reset"])
    /\ UNCHANGED <<staffTables, citizenTables, log, event, record>>

Then(b, from, to) == Doing(b, from) /\ Proceed(b, [request[b] EXCEPT !.pc = to])

ResetActivity(b) ==
    /\ \/ Then(b, "reset_downloads", "reset_saved") /\ log' = <<>> /\ UNCHANGED citizenTables
       \/ /\ Then(b, "reset_saved", "reset_searches") /\ saved' = {}
          /\ UNCHANGED <<visit, citizen, searches, log>>
       \/ /\ Then(b, "reset_searches", "reset_visits") /\ searches' = [c \in Citizens |-> 0]
          /\ UNCHANGED <<visit, citizen, saved, log>>
       \/ /\ Then(b, "reset_visits", "reset_citizens") /\ visit' = [a \in Browsers |-> Null]
          /\ UNCHANGED <<citizen, saved, searches, log>>
    /\ UNCHANGED <<staffTables, event, record>>

\* Mutant: foreign keys are not enforced.
ReferredNever(x) == FALSE

\* Whether a row refers to a citizen or to a record.
Referred(x) ==
    \/ \E p \in saved : x \in {p[1], p[2]}
    \/ \E i \in DOMAIN log : x \in {log[i].citizen, log[i].record}
    \/ x \in Citizens /\ (searches[x] > 0 \/ \E b \in Browsers : visit[b] # Null /\ visit[b].who = x)

\* Activity since the deletions above stops the reset where it is.
ResetOwners(b) ==
    /\ \/ /\ Doing(b, "reset_citizens")
          /\ IF \E c \in citizen : Referred(c)
             THEN Answer(b) /\ UNCHANGED citizen
             ELSE Proceed(b, [request[b] EXCEPT !.pc = "reset_records"]) /\ citizen' = {}
          /\ UNCHANGED record
       \/ /\ Doing(b, "reset_records")
          /\ Answer(b)
          /\ IF \E r \in record : Referred(r) THEN UNCHANGED record ELSE record' = {}
          /\ UNCHANGED citizen
    /\ UNCHANGED <<staffTables, visit, saved, searches, log, event>>

\* review.approve, as far as it matters here: its UPDATE shows one more record to the public. What it
\* refuses is in RecordReview; approving again, or rejecting later, takes no row away.
Publish(r) ==
    /\ r \notin record
    /\ record' = record \cup {r}
    /\ UNCHANGED <<staffTables, citizenTables, log, event, request>>

\* What create_app sets up: the first administrator when there is no user, and a row for the key when there
\* is none, revoked or not.
BootstrapAdmin(users) ==
    IF EnvAdmin # Null /\ \A u \in Users : users[u] = Null
    THEN [users EXCEPT ![EnvAdmin] = [role |-> "platform_admin", active |-> TRUE]]
    ELSE users

\* Mutant: the key of the environment is valid after every start.
BootstrapKeyRevives(keys) ==
    IF EnvKey # Null THEN [keys EXCEPT ![EnvKey] = [revoked |-> FALSE, used |-> FALSE]] ELSE keys

BootstrapKey(keys) ==
    IF EnvKey # Null /\ keys[EnvKey] = Null
    THEN [keys EXCEPT ![EnvKey] = [revoked |-> FALSE, used |-> FALSE]]
    ELSE keys

\* The server starts again, with the database or, on a host without a disk, with an empty one.
Restart ==
    /\ user' = BootstrapAdmin(user)
    /\ key' = BootstrapKey(key)
    /\ request' = [b \in Browsers |-> Ready]
    /\ UNCHANGED <<session, citizenTables, log, event, record>>

DatabaseLost ==
    /\ user' = BootstrapAdmin([u \in Users |-> Null])
    /\ key' = BootstrapKey([k \in Keys |-> Null])
    /\ session' = [b \in Browsers |-> Null] /\ visit' = [b \in Browsers |-> Null]
    /\ citizen' = {} /\ saved' = {} /\ searches' = [c \in Citizens |-> 0]
    /\ log' = <<>> /\ event' = <<>> /\ record' = {}
    /\ request' = [b \in Browsers |-> Ready]

StaffStep(b) ==
    \/ LookUpUser(b) \/ InsertUser(b) \/ WriteActive(b) \/ InsertSession(b)
CitizenStep(b) ==
    \/ InsertCitizen(b) \/ InsertVisit(b) \/ ToggleSaved(b) \/ LogDownload(b) \/ LogEvent(b)
    \/ ResetActivity(b) \/ ResetOwners(b)
StaffRequest(b) ==
    \/ \E u \in Users : Setup(b, u) \/ Login(b, u) \/ \E on \in BOOLEAN : SetUserActive(b, u, on)
    \/ \E u \in Users, role \in {"platform_admin", "reviewer"} : AddUser(b, u, role)
    \/ Logout(b)
KeyRequest(b) == \E k \in Keys : GenerateKey(b, k) \/ VerifyKey(k) \/ RevokeKey(b, k)
CitizenRequest(b) ==
    \/ \E c \in Citizens : Register(b, c) \/ CitizenLogin(b, c)
    \/ \E r \in Records : IsSaved(b, r) \/ Download(b, r)
    \/ SaveSearch(b) \/ DeleteSavedSearch(b) \/ CitizenLogout(b)

AccountNext ==
    \/ \E b \in Browsers :
         \/ StaffStep(b) \/ CitizenStep(b) \/ StaffRequest(b) \/ KeyRequest(b) \/ CitizenRequest(b)
         \/ Expire(b) \/ Reset(b) \/ \E n \in 1 .. MaxDownloads : PurgeOldEvents(b, n)
    \/ \E r \in Records : Publish(r)
    \/ Restart \/ DatabaseLost

AccountSpec == AccountInit /\ [][AccountNext]_accountVars

\* Between two resets.
NoReset == \A b \in Browsers : request[b].op # "reset"
CountingSpec == AccountInit /\ [][AccountNext /\ NoReset']_accountVars

-----------------------------------------------------------------------------
(* Properties.                                                              *)

\* The tables hold what their columns and their foreign keys allow, also while a reset deletes citizens and
\* orders under those who download and bookmark them.
AccountTypeOK ==
    /\ user \in [Users -> UserRows \cup {Null}] /\ key \in [Keys -> KeyRows \cup {Null}]
    /\ \A b \in Browsers : session[b] # Null => session[b] \in SessionRows /\ user[session[b].who] # Null
    /\ \A b \in Browsers : visit[b] # Null => visit[b] \in VisitRows /\ visit[b].who \in citizen
    /\ saved \subseteq citizen \X record
    /\ \A c \in Citizens : searches[c] > 0 => c \in citizen
    /\ log \in Seq(LogRows)
    /\ \A i \in DOMAIN log :
         /\ log[i].record \in record /\ log[i].citizen \in citizen \cup {Null}
         /\ (log[i].citizen = Null) # (log[i].staff = Null)

\* Once there are accounts /setup is closed, and then some active administrator must be left to manage them:
\* no deactivation, restart or lost database may lock everyone out, however requests overlap, but the
\* deactivation by someone who was an administrator when asking and no longer is when it is written (app.py).
Administrator(u) == user[u] # Null /\ user[u].active /\ user[u].role \in ManageUsers
Managed == HasAnyUsers => \E u \in Users : Administrator(u)
OutOfOffice(b) == Doing(b, "set_active") /\ request'[b] # request[b] /\ ~ Administrator(request[b].me)
AdministratorRemains == [][Managed => Managed' \/ \E b \in Browsers : OutOfOffice(b)]_accountVars

\* "A deliberate revocation within the same database's lifetime is never silently undone" (agent_auth.py): by
\* no restart and by no request.
RevocationStands ==
    [][DatabaseLost \/ \A k \in Keys : key[k] # Null /\ key[k].revoked => key'[k] # Null /\ key'[k].revoked]_accountVars

\* Engagement is that of citizens: of an order no more downloads are counted than citizens are logged with,
\* until a reset, which deletes the log and keeps the events.
OnlyCitizensCounted ==
    \A r \in Records :
        Cardinality({i \in DOMAIN event : event[i] = r})
            <= Cardinality({i \in DOMAIN log : log[i].record = r /\ log[i].citizen # Null})
=============================================================================
