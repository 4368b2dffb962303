----------------------------- MODULE WorkbenchProofs -----------------------------
(***************************************************************************)
(* Theorems about Workbench, for any number of browsers, accounts,         *)
(* citizens, annotators and reviewers, and every interleaving of the       *)
(* statements of their requests.                                           *)
(***************************************************************************)
EXTENDS Workbench, FiniteSetTheorems, SequenceTheorems, WellFoundedInduction, TLAPS

-----------------------------------------------------------------------------
(* Accounts.                                                               *)

Resetting == {"reset_downloads", "reset_saved", "reset_searches", "reset_visits", "reset_citizens", "reset_records"}
Asking   == {"idle", "look_up_user", "insert_user", "set_active", "insert_session", "insert_citizen", "insert_visit",
             "save", "unsave", "log", "event"} \cup Resetting
Orders   == {"none", "setup", "add", "active", "login", "register", "citizen_login", "toggle", "download", "reset"}
Requests == [pc : Asking, op : Orders, user : Users \cup {Null}, role : Roles, on : BOOLEAN, me : Users \cup {Null},
             citizen : Citizens \cup {Null}, record : Records \cup {Null}]

\* What a request under way has found out, and what no other request takes back.
Fits(r) ==
    /\ r.pc \in {"look_up_user", "insert_user"} => r.user \in Users /\ r.op \in {"setup", "add"}
    /\ r.pc = "set_active" => r.op = "active"
    /\ r.pc \in Resetting => r.op = "reset"
    /\ r.pc \in {"set_active", "insert_session"} => r.user \in Users /\ user[r.user] # Null
    /\ r.pc \in {"insert_citizen", "insert_visit", "save", "unsave"} => r.citizen \in Citizens
    /\ r.pc \in {"save", "unsave", "log", "event"} => r.record \in Records
    /\ r.pc = "log" => (r.me = Null) # (r.citizen = Null)
    /\ r.pc = "event" => r.me = Null /\ r.citizen # Null

Asked == request \in [Browsers -> Requests] /\ \A b \in Browsers : Fits(request[b])

\* The tables, with their foreign keys.
StaffTables ==
    /\ user \in [Users -> UserRows \cup {Null}] /\ key \in [Keys -> KeyRows \cup {Null}]
    /\ session \in [Browsers -> SessionRows \cup {Null}]
    /\ \A b \in Browsers : session[b] # Null => user[session[b].who] # Null
CitizenTables ==
    /\ visit \in [Browsers -> VisitRows \cup {Null}] /\ citizen \subseteq Citizens /\ record \subseteq Records
    /\ \A b \in Browsers : visit[b] # Null => visit[b].who \in citizen
    /\ saved \subseteq citizen \X record
    /\ searches \in [Citizens -> Nat] /\ \A c \in Citizens : searches[c] > 0 => c \in citizen
LogTables ==
    /\ log \in Seq(LogRows) /\ event \in Seq(Records)
    /\ \A i \in DOMAIN log :
         /\ log[i].record \in record /\ log[i].citizen \in citizen \cup {Null}
         /\ (log[i].citizen = Null) # (log[i].staff = Null)
AccountInv == Asked /\ StaffTables /\ CitizenTables /\ LogTables

LEMMA AccountInvTypes == AccountInv => AccountTypeOK
  BY DEF AccountInv, StaffTables, CitizenTables, LogTables, AccountTypeOK

LEMMA ReadyFits == Ready \in Requests /\ Fits(Ready)
  BY DEF Ready, Requests, Fits, Asking, Resetting, Orders, Roles

LEMMA AccountInitInv == AccountInit => AccountInv
  <1>1. ASSUME AccountInit
        PROVE  Asked
    <2>1. request = [b \in Browsers |-> Ready]
      BY <1>1 DEF AccountInit
    <2>2. request \in [Browsers -> Requests]
      BY <2>1, ReadyFits
    <2>3. ASSUME NEW b \in Browsers
          PROVE  Fits(request[b])
      <3>1. request[b] = Ready
        BY <2>1
      <3>2. QED
        BY <3>1, ReadyFits
    <2>4. QED
      BY <2>2, <2>3 DEF Asked
  <1>2. ASSUME AccountInit
        PROVE  StaffTables
    BY <1>2 DEF AccountInit, StaffTables
  <1>3. ASSUME AccountInit
        PROVE  CitizenTables
    BY <1>3 DEF AccountInit, CitizenTables
  <1>4. ASSUME AccountInit
        PROVE  LogTables
    BY <1>4 DEF AccountInit, LogTables
  <1>5. QED
    BY <1>1, <1>2, <1>3, <1>4 DEF AccountInv

\* No account disappears, so that what the requests of others have found out stays true.
LEMMA OneRequest ==
    ASSUME Asked, NEW b \in Browsers, NEW r \in Requests, request' = [request EXCEPT ![b] = r], Fits(r)',
           \A u \in Users : user[u] # Null => user'[u] # Null
    PROVE  Asked'
  <1>1. request' \in [Browsers -> Requests] /\ request'[b] = r
    BY DEF Asked
  <1>2. ASSUME NEW a \in Browsers
        PROVE  Fits(request[a])'
    <2>1. CASE a = b
      BY <1>1, <2>1 DEF Fits
    <2>2. CASE a # b
      <3>1. request'[a] = request[a] /\ Fits(request[a])
        BY <2>2 DEF Asked
      <3>2. request[a] \in Requests
        BY DEF Asked
      <3>3. QED
        BY <3>1, <3>2 DEF Fits
    <2>3. QED
      BY <2>1, <2>2
  <1>3. QED
    BY <1>1, <1>2 DEF Asked

\* A request that ends.
LEMMA Answers ==
    ASSUME Asked, NEW b \in Browsers, Answer(b), \A u \in Users : user[u] # Null => user'[u] # Null
    PROVE  Asked'
  BY ReadyFits, OneRequest DEF Answer, Proceed, Fits, Ready, Resetting

LEMMA WhoAsks ==
    ASSUME StaffTables, CitizenTables, NEW b \in Browsers
    PROVE  /\ CurrentUser(b) \in Users \cup {Null} /\ CurrentCitizen(b) \in citizen \cup {Null}
           /\ CurrentUser(b) # Null => user[CurrentUser(b)] # Null /\ user[CurrentUser(b)].active
  BY AccountAssumption DEF StaffTables, CitizenTables, CurrentUser, CurrentCitizen, SessionRows, VisitRows

\* The tables when only requests change, or none of those concerned.
LEMMA SameTables ==
    /\ StaffTables /\ UNCHANGED staffTables => StaffTables'
    /\ CitizenTables /\ UNCHANGED <<citizenTables, record>> => CitizenTables'
    /\ LogTables /\ UNCHANGED <<citizen, log, event, record>> => LogTables'
  BY DEF StaffTables, CitizenTables, LogTables, staffTables, citizenTables

LEMMA OnlyAsks ==
    ASSUME AccountInv, Asked', UNCHANGED <<staffTables, citizenTables, log, event, record>>
    PROVE  AccountInv'
  BY SameTables DEF AccountInv, citizenTables

\* The first statement of a request, which asks for more.
LEMMA StepAsk ==
    ASSUME AccountInv, NEW b \in Browsers,
           \/ \E u \in Users : Setup(b, u) \/ Login(b, u) \/ \E on \in BOOLEAN : SetUserActive(b, u, on)
           \/ \E u \in Users, role \in {"platform_admin", "reviewer"} : AddUser(b, u, role)
           \/ \E c \in Citizens : Register(b, c) \/ CitizenLogin(b, c)
           \/ \E r \in Records : IsSaved(b, r) \/ Download(b, r)
           \/ Reset(b)
    PROVE  AccountInv'
  <1>1. /\ Asked /\ Ready \in Requests /\ UNCHANGED <<staffTables, citizenTables, log, event, record>>
        /\ \A u \in Users : user[u] # Null => user'[u] # Null
        /\ StaffTables /\ CitizenTables
    BY ReadyFits DEF AccountInv, Setup, Login, SetUserActive, AddUser, Register, CitizenLogin, IsSaved, Download, Reset,
                     staffTables
  <1>2. \E r \in Requests : request' = [request EXCEPT ![b] = r] /\ Fits(r)
    <2>1. ASSUME NEW u \in Users, Setup(b, u)
          PROVE  <1>2!:
      <3>1. PICK r : r = [Ready EXCEPT !.pc = "look_up_user", !.op = "setup", !.user = u, !.role = "platform_admin"]
        OBVIOUS
      <3>2. r \in Requests /\ r.pc = "look_up_user" /\ r.op = "setup" /\ r.user = u
        BY <1>1, <3>1, ZenonT(60) DEF Requests, Asking, Resetting, Orders, Roles
      <3>3. Fits(r) /\ request' = [request EXCEPT ![b] = r]
        BY <2>1, <3>1, <3>2 DEF Fits, Resetting, Setup, Proceed
      <3>4. QED
        BY <3>2, <3>3
    <2>2. ASSUME NEW u \in Users, Login(b, u)
          PROVE  <1>2!:
      <3>1. PICK r : r = [Ready EXCEPT !.pc = "insert_session", !.op = "login", !.user = u]
        OBVIOUS
      <3>2. r \in Requests /\ r.pc = "insert_session" /\ r.op = "login" /\ r.user = u
        BY <1>1, <3>1, ZenonT(60) DEF Requests, Asking, Resetting, Orders, Roles
      <3>3. Fits(r) /\ request' = [request EXCEPT ![b] = r]
        BY <2>2, <3>1, <3>2 DEF Fits, Resetting, Login, Proceed
      <3>4. QED
        BY <3>2, <3>3
    <2>3. ASSUME NEW u \in Users, NEW on \in BOOLEAN, SetUserActive(b, u, on)
          PROVE  <1>2!:
      <3>1. PICK me : me = CurrentUser(b)
        OBVIOUS
      <3>2. PICK r : r = [Ready EXCEPT !.pc = "set_active", !.op = "active", !.user = u, !.on = on, !.me = me]
        OBVIOUS
      <3>3. me \in Users \cup {Null}
        BY <3>1, WhoAsks DEF AccountInv
      <3>4. r \in Requests /\ r.pc = "set_active" /\ r.op = "active" /\ r.user = u
        BY <1>1, <3>2, <3>3, ZenonT(60) DEF Requests, Asking, Resetting, Orders, Roles
      <3>5. Fits(r) /\ request' = [request EXCEPT ![b] = r]
        BY <2>3, <3>1, <3>2, <3>4 DEF Fits, Resetting, SetUserActive, Proceed
      <3>6. QED
        BY <3>4, <3>5
    <2>4. ASSUME NEW u \in Users, NEW role \in {"platform_admin", "reviewer"}, AddUser(b, u, role)
          PROVE  <1>2!:
      <3>1. PICK r : r = [Ready EXCEPT !.pc = "look_up_user", !.op = "add", !.user = u, !.role = role]
        OBVIOUS
      <3>2. r \in Requests /\ r.pc = "look_up_user" /\ r.op = "add" /\ r.user = u
        BY <1>1, <3>1, ZenonT(60) DEF Requests, Asking, Resetting, Orders, Roles
      <3>3. Fits(r) /\ request' = [request EXCEPT ![b] = r]
        BY <2>4, <3>1, <3>2 DEF Fits, Resetting, AddUser, Proceed
      <3>4. QED
        BY <3>2, <3>3
    <2>5. ASSUME NEW c \in Citizens, Register(b, c) \/ CitizenLogin(b, c)
          PROVE  <1>2!:
      <3>1. PICK pc \in {"insert_citizen", "insert_visit"}, op \in {"register", "citizen_login"} :
              request' = [request EXCEPT ![b] = [Ready EXCEPT !.pc = pc, !.op = op, !.citizen = c]]
        BY <2>5 DEF Register, CitizenLogin, Proceed
      <3>2. PICK r : r = [Ready EXCEPT !.pc = pc, !.op = op, !.citizen = c]
        OBVIOUS
      <3>3. r \in Requests /\ r.pc \in {"insert_citizen", "insert_visit"} /\ r.citizen = c
        BY <1>1, <3>2, ZenonT(60) DEF Requests, Asking, Resetting, Orders, Roles
      <3>4. Fits(r)
        BY <3>3 DEF Fits, Resetting
      <3>5. QED
        BY <3>1, <3>2, <3>3, <3>4
    <2>6. ASSUME NEW x \in Records, IsSaved(b, x)
          PROVE  <1>2!:
      <3>1. PICK pc \in {"save", "unsave"}, c \in Citizens :
              request' = [request EXCEPT ![b] = [Ready EXCEPT !.pc = pc, !.op = "toggle", !.citizen = c, !.record = x]]
        BY <1>1, <2>6, WhoAsks DEF IsSaved, Proceed, CitizenTables
      <3>2. PICK r : r = [Ready EXCEPT !.pc = pc, !.op = "toggle", !.citizen = c, !.record = x]
        OBVIOUS
      <3>3. r \in Requests /\ r.pc \in {"save", "unsave"} /\ r.citizen = c /\ r.record = x
        BY <1>1, <3>2, ZenonT(60) DEF Requests, Asking, Resetting, Orders, Roles
      <3>4. Fits(r)
        BY <3>3 DEF Fits, Resetting
      <3>5. QED
        BY <3>1, <3>2, <3>3, <3>4
    <2>7. ASSUME NEW x \in Records, Download(b, x)
          PROVE  <1>2!:
      <3>1. PICK me \in Users \cup {Null}, c \in Citizens \cup {Null} :
              /\ request' = [request EXCEPT ![b] = [Ready EXCEPT !.pc = "log", !.op = "download", !.me = me,
                                                                 !.citizen = c, !.record = x]]
              /\ (me = Null) # (c = Null)
        BY <1>1, <2>7, WhoAsks DEF Download, Proceed, CitizenTables
      <3>2. PICK r : r = [Ready EXCEPT !.pc = "log", !.op = "download", !.me = me, !.citizen = c, !.record = x]
        OBVIOUS
      <3>3. r \in Requests /\ r.pc = "log" /\ r.me = me /\ r.citizen = c /\ r.record = x
        BY <1>1, <3>2, ZenonT(60) DEF Requests, Asking, Resetting, Orders, Roles
      <3>4. Fits(r)
        BY <3>1, <3>3 DEF Fits, Resetting
      <3>5. QED
        BY <3>1, <3>2, <3>3, <3>4
    <2>8. ASSUME Reset(b)
          PROVE  <1>2!:
      <3>1. PICK r : r = [Ready EXCEPT !.pc = "reset_downloads", !.op = "reset"]
        OBVIOUS
      <3>2. r \in Requests /\ r.pc = "reset_downloads" /\ r.op = "reset"
        BY <1>1, <3>1, ZenonT(60) DEF Requests, Asking, Resetting, Orders, Roles
      <3>3. Fits(r) /\ request' = [request EXCEPT ![b] = r]
        BY <2>8, <3>1, <3>2 DEF Fits, Resetting, Reset, Proceed
      <3>4. QED
        BY <3>2, <3>3
    <2>9. QED
      BY <2>1, <2>2, <2>3, <2>4, <2>5, <2>6, <2>7, <2>8
  <1>3. PICK r \in Requests : request' = [request EXCEPT ![b] = r] /\ Fits(r)
    BY <1>2
  <1>4. Fits(r)'
    BY <1>1, <1>3 DEF Fits, Resetting, staffTables
  <1>5. QED
    BY <1>1, <1>3, <1>4, OneRequest, OnlyAsks

LEMMA NullApart == Null \notin UserRows /\ Null \notin KeyRows /\ Null \notin SessionRows /\ Null \notin VisitRows
  BY AccountAssumption DEF UserRows, Roles, KeyRows, SessionRows, VisitRows

LEMMA StepLookUpUser ==
    ASSUME AccountInv, NEW b \in Browsers, LookUpUser(b)
    PROVE  AccountInv'
  <1>1. /\ Asked /\ UNCHANGED <<staffTables, citizenTables, log, event, record>>
        /\ \A u \in Users : user[u] # Null => user'[u] # Null
        /\ request[b] \in Requests /\ Fits(request[b]) /\ request[b].pc = "look_up_user"
    BY DEF AccountInv, Asked, LookUpUser, staffTables, Doing
  <1>2. PICK r : r = [request[b] EXCEPT !.pc = "insert_user"]
    OBVIOUS
  <1>3. r \in Requests /\ r.pc = "insert_user" /\ r.user \in Users /\ r.op \in {"setup", "add"}
    BY <1>1, <1>2 DEF Requests, Asking, Fits
  <1>4. Fits(r)'
    BY <1>3 DEF Fits, Resetting
  <1>5. Answer(b) \/ Proceed(b, r)
    BY <1>2 DEF LookUpUser
  <1>6. Asked'
    BY <1>1, <1>3, <1>4, <1>5, OneRequest, Answers DEF Proceed
  <1>7. QED
    BY <1>1, <1>6, OnlyAsks

LEMMA StepInsertUser ==
    ASSUME AccountInv, NEW b \in Browsers, InsertUser(b)
    PROVE  AccountInv'
  <1>1. /\ Asked /\ StaffTables /\ CitizenTables /\ LogTables
        /\ UNCHANGED <<key, session, citizenTables, log, event, record>>
        /\ request[b] \in Requests /\ Fits(request[b]) /\ request[b].pc = "insert_user" /\ request[b].user \in Users
    BY DEF AccountInv, Asked, InsertUser, Doing, Fits
  <1>2. CASE user[request[b].user] # Null
    BY <1>1, <1>2, Answers, OnlyAsks DEF InsertUser, staffTables
  <1>3. CASE user[request[b].user] = Null
    <2>1. PICK line : line = [role |-> request[b].role, active |-> TRUE]
      OBVIOUS
    <2>2. line \in UserRows /\ line # Null
      <3>1. request[b].role \in Roles
        BY <1>1 DEF Requests
      <3>2. line \in UserRows
        BY <2>1, <3>1 DEF UserRows
      <3>3. QED
        BY <3>2, NullApart
    <2>3. user' = [user EXCEPT ![request[b].user] = line]
      BY <1>3, <2>1 DEF InsertUser
    <2>4. /\ user' \in [Users -> UserRows \cup {Null}] /\ user'[request[b].user] # Null
          /\ \A u \in Users : user[u] # Null => user'[u] # Null
      BY <1>1, <2>2, <2>3 DEF StaffTables
    <2>5. StaffTables'
      BY <1>1, <2>4 DEF StaffTables, SessionRows
    <2>6. PICK r : r = [request[b] EXCEPT !.pc = "insert_session"]
      OBVIOUS
    <2>7. r \in Requests /\ r.pc = "insert_session" /\ r.user = request[b].user
      BY <1>1, <2>6 DEF Requests, Asking
    <2>8. Fits(r)'
      BY <1>1, <2>4, <2>7 DEF Fits, Resetting
    <2>9. Answer(b) \/ Proceed(b, r)
      BY <1>3, <2>6 DEF InsertUser
    <2>10. Asked'
      BY <1>1, <2>4, <2>7, <2>8, <2>9, OneRequest, Answers DEF Proceed
    <2>11. QED
      BY <1>1, <2>5, <2>10, SameTables DEF AccountInv, citizenTables
  <1>4. QED
    BY <1>2, <1>3

LEMMA StepWriteActive ==
    ASSUME AccountInv, NEW b \in Browsers, WriteActive(b)
    PROVE  AccountInv'
  <1>1. /\ Asked /\ StaffTables /\ CitizenTables /\ LogTables
        /\ UNCHANGED <<key, session, citizenTables, log, event, record>>
        /\ request[b] \in Requests /\ request[b].user \in Users /\ user[request[b].user] # Null
        /\ Answer(b) /\ user' = [user EXCEPT ![request[b].user].active = request[b].on]
    BY DEF AccountInv, Asked, WriteActive, Doing, Fits
  <1>2. PICK line : line = [user[request[b].user] EXCEPT !.active = request[b].on]
    OBVIOUS
  <1>3. user[request[b].user] \in UserRows /\ request[b].on \in BOOLEAN
    BY <1>1 DEF StaffTables, Requests
  <1>4. line \in UserRows /\ line # Null
    BY <1>2, <1>3, NullApart DEF UserRows
  <1>5. user' = [user EXCEPT ![request[b].user] = line]
    BY <1>1, <1>2
  <1>6. user' \in [Users -> UserRows \cup {Null}] /\ \A u \in Users : user[u] # Null => user'[u] # Null
    BY <1>1, <1>4, <1>5 DEF StaffTables
  <1>7. StaffTables'
    BY <1>1, <1>6 DEF StaffTables, SessionRows
  <1>8. QED
    BY <1>1, <1>6, <1>7, Answers, SameTables DEF AccountInv, citizenTables

LEMMA StepInsertSession ==
    ASSUME AccountInv, NEW b \in Browsers, InsertSession(b)
    PROVE  AccountInv'
  <1>1. /\ Asked /\ StaffTables /\ CitizenTables /\ LogTables
        /\ UNCHANGED <<user, key, citizenTables, log, event, record>>
        /\ request[b].user \in Users /\ user[request[b].user] # Null /\ Answer(b)
        /\ session' = [session EXCEPT ![b] = [who |-> request[b].user, live |-> TRUE]]
    BY DEF AccountInv, Asked, InsertSession, Doing, Fits
  <1>2. StaffTables'
    BY <1>1 DEF StaffTables, SessionRows
  <1>3. QED
    BY <1>1, <1>2, Answers, SameTables DEF AccountInv, citizenTables

LEMMA StepSession ==
    ASSUME AccountInv, NEW b \in Browsers, Logout(b) \/ CitizenLogout(b) \/ Expire(b)
    PROVE  AccountInv'
  <1>1. /\ Asked /\ StaffTables /\ CitizenTables /\ LogTables
        /\ UNCHANGED <<user, key, citizen, saved, searches, log, event, record, request>>
    BY DEF AccountInv, Logout, CitizenLogout, Expire, citizenTables, staffTables
  <1>2. /\ \/ session' = session
           \/ session' = [session EXCEPT ![b] = Null]
           \/ session[b] # Null /\ session' = [session EXCEPT ![b].live = FALSE]
        /\ \/ visit' = visit
           \/ visit' = [visit EXCEPT ![b] = Null]
           \/ visit[b] # Null /\ visit' = [visit EXCEPT ![b].live = FALSE]
    <2>1. CASE Logout(b)
      BY <2>1 DEF Logout, citizenTables
    <2>2. CASE CitizenLogout(b)
      BY <2>2 DEF CitizenLogout, staffTables
    <2>3. CASE Expire(b)
      BY <2>3 DEF Expire
    <2>4. QED
      BY <2>1, <2>2, <2>3
  <1>3. StaffTables'
    BY <1>1, <1>2, ZenonT(60) DEF StaffTables, SessionRows
  <1>4. CitizenTables'
    BY <1>1, <1>2, ZenonT(60) DEF CitizenTables, VisitRows
  <1>5. Asked' /\ LogTables'
    BY <1>1 DEF Asked, Fits, LogTables
  <1>6. QED
    BY <1>3, <1>4, <1>5 DEF AccountInv

LEMMA StepKeys ==
    ASSUME AccountInv, NEW b \in Browsers, NEW k \in Keys, GenerateKey(b, k) \/ VerifyKey(k) \/ RevokeKey(b, k)
    PROVE  AccountInv'
  <1>1. /\ Asked /\ StaffTables /\ CitizenTables /\ LogTables
        /\ UNCHANGED <<user, session, citizenTables, log, event, record, request>>
    BY DEF AccountInv, GenerateKey, VerifyKey, RevokeKey
  <1>2. \/ key' = [key EXCEPT ![k] = [revoked |-> FALSE, used |-> FALSE]]
        \/ key[k] # Null /\ key' = [key EXCEPT ![k].used = TRUE]
        \/ key[k] # Null /\ key' = [key EXCEPT ![k].revoked = TRUE]
    BY DEF GenerateKey, VerifyKey, RevokeKey
  <1>3. key' \in [Keys -> KeyRows \cup {Null}]
    <2>1. key[k] # Null => key[k] \in KeyRows
      BY <1>1 DEF StaffTables
    <2>2. /\ [revoked |-> FALSE, used |-> FALSE] \in KeyRows
          /\ key[k] # Null => [key[k] EXCEPT !.used = TRUE] \in KeyRows /\ [key[k] EXCEPT !.revoked = TRUE] \in KeyRows
      BY <2>1 DEF KeyRows
    <2>3. PICK line \in KeyRows : key' = [key EXCEPT ![k] = line]
      BY <1>2, <2>2
    <2>4. QED
      BY <1>1, <2>3 DEF StaffTables
  <1>4. StaffTables' /\ Asked'
    BY <1>1, <1>3 DEF StaffTables, Asked, Fits
  <1>5. QED
    BY <1>1, <1>4, SameTables DEF AccountInv, citizenTables

\* A request that goes on without finding out more than it has.
LEMMA GoesOn ==
    ASSUME AccountInv, NEW b \in Browsers, UNCHANGED user,
           NEW pc \in Asking \ {"look_up_user", "insert_user", "set_active", "insert_session", "log", "event", "save", "unsave"},
           Proceed(b, [request[b] EXCEPT !.pc = pc]),
           pc \in {"insert_citizen", "insert_visit"} => request[b].citizen \in Citizens,
           pc \in Resetting => request[b].op = "reset"
    PROVE  Asked'
  <1>1. Asked /\ request[b] \in Requests
    BY DEF AccountInv, Asked
  <1>2. PICK r : r = [request[b] EXCEPT !.pc = pc]
    OBVIOUS
  <1>3. r \in Requests /\ r.pc = pc /\ r.citizen = request[b].citizen /\ r.op = request[b].op
    BY <1>1, <1>2 DEF Requests
  <1>4. Fits(r)'
    BY <1>3 DEF Fits, Resetting
  <1>5. request' = [request EXCEPT ![b] = r] /\ \A u \in Users : user[u] # Null => user'[u] # Null
    BY <1>2 DEF Proceed
  <1>6. QED
    BY <1>1, <1>3, <1>4, <1>5, OneRequest

LEMMA StepInsertCitizen ==
    ASSUME AccountInv, NEW b \in Browsers, InsertCitizen(b)
    PROVE  AccountInv'
  <1>1. /\ Asked /\ StaffTables /\ CitizenTables /\ LogTables /\ request[b].citizen \in Citizens
        /\ UNCHANGED <<staffTables, visit, saved, searches, log, event, record>> /\ user' = user
        /\ citizen' = citizen \cup {request[b].citizen}
    BY DEF AccountInv, Asked, InsertCitizen, Doing, Fits, staffTables
  <1>2. Answer(b) \/ Proceed(b, [request[b] EXCEPT !.pc = "insert_visit"])
    BY DEF InsertCitizen
  <1>3. Asked'
    BY <1>1, <1>2, GoesOn, Answers DEF Asking, Resetting
  <1>4. CitizenTables' /\ LogTables'
    BY <1>1 DEF CitizenTables, LogTables
  <1>5. QED
    BY <1>1, <1>3, <1>4, SameTables DEF AccountInv

LEMMA StepInsertVisit ==
    ASSUME AccountInv, NEW b \in Browsers, InsertVisit(b)
    PROVE  AccountInv'
  <1>1. /\ Asked /\ StaffTables /\ CitizenTables /\ LogTables /\ request[b].citizen \in Citizens
        /\ UNCHANGED <<staffTables, citizen, saved, searches, log, event, record>> /\ user' = user
        /\ Answer(b)
    BY DEF AccountInv, Asked, InsertVisit, Doing, Fits, staffTables
  <1>2. CASE request[b].citizen \in citizen
    <2>1. PICK line : line = [who |-> request[b].citizen, live |-> TRUE]
      OBVIOUS
    <2>2. line \in VisitRows /\ line.who \in citizen /\ visit' = [visit EXCEPT ![b] = line]
      BY <1>1, <1>2, <2>1 DEF VisitRows, InsertVisit
    <2>3. CitizenTables'
      BY <1>1, <2>2 DEF CitizenTables
    <2>4. QED
      BY <1>1, <2>3, Answers, SameTables DEF AccountInv
  <1>3. CASE request[b].citizen \notin citizen
    BY <1>1, <1>3, Answers, SameTables DEF AccountInv, InsertVisit, citizenTables
  <1>4. QED
    BY <1>2, <1>3

LEMMA StepSearches ==
    ASSUME AccountInv, NEW b \in Browsers, SaveSearch(b) \/ DeleteSavedSearch(b)
    PROVE  AccountInv'
  <1>1. /\ Asked /\ StaffTables /\ CitizenTables /\ LogTables
        /\ UNCHANGED <<staffTables, visit, citizen, saved, log, event, record, request>> /\ user' = user
        /\ CurrentCitizen(b) # Null
    BY DEF AccountInv, SaveSearch, DeleteSavedSearch, staffTables
  <1>2. PICK c : c = CurrentCitizen(b)
    OBVIOUS
  <1>3. c \in citizen /\ c \in Citizens /\ searches[c] \in Nat
    BY <1>1, <1>2, WhoAsks DEF CitizenTables
  <1>4. \/ searches' = [searches EXCEPT ![c] = @ + 1]
        \/ searches[c] > 0 /\ searches' = [searches EXCEPT ![c] = @ - 1]
    BY <1>2 DEF SaveSearch, DeleteSavedSearch
  <1>5. CitizenTables'
    BY <1>1, <1>3, <1>4 DEF CitizenTables
  <1>6. Asked'
    BY <1>1 DEF Asked, Fits
  <1>7. QED
    BY <1>1, <1>5, <1>6, SameTables DEF AccountInv

LEMMA StepToggleSaved ==
    ASSUME AccountInv, NEW b \in Browsers, ToggleSaved(b)
    PROVE  AccountInv'
  <1>1. /\ Asked /\ StaffTables /\ CitizenTables /\ LogTables
        /\ UNCHANGED <<staffTables, visit, citizen, searches, log, event, record>> /\ user' = user
        /\ Answer(b)
    BY DEF AccountInv, ToggleSaved, staffTables
  <1>2. saved' \subseteq citizen \X record
    BY <1>1 DEF ToggleSaved, CitizenTables
  <1>3. CitizenTables'
    BY <1>1, <1>2 DEF CitizenTables
  <1>4. QED
    BY <1>1, <1>3, Answers, SameTables DEF AccountInv

LEMMA StepLogDownload ==
    ASSUME AccountInv, NEW b \in Browsers, LogDownload(b)
    PROVE  AccountInv'
  <1>1. /\ Asked /\ StaffTables /\ CitizenTables /\ LogTables /\ request[b] \in Requests
        /\ request[b].record \in Records /\ (request[b].me = Null) # (request[b].citizen = Null)
        /\ UNCHANGED <<staffTables, citizenTables, event, record>> /\ user' = user /\ citizen' = citizen
    BY DEF AccountInv, Asked, LogDownload, Doing, Fits, staffTables, citizenTables
  <1>2. CASE request[b].record \in record /\ request[b].citizen \in citizen \cup {Null}
    <2>1. PICK line : line = [citizen |-> request[b].citizen, staff |-> request[b].me, record |-> request[b].record]
      OBVIOUS
    <2>2. log' = Append(log, line)
      BY <1>2, <2>1 DEF LogDownload
    <2>3. line \in LogRows /\ line.record \in record /\ line.citizen \in citizen \cup {Null}
          /\ ((line.citizen = Null) # (line.staff = Null))
      BY <1>1, <1>2, <2>1 DEF LogRows, Requests
    <2>4. log' \in Seq(LogRows) /\ \A i \in DOMAIN log' : log'[i] = line \/ (i \in DOMAIN log /\ log'[i] = log[i])
      BY <1>1, <2>2, <2>3 DEF LogTables
    <2>5. LogTables'
      BY <1>1, <2>3, <2>4 DEF LogTables
    <2>6. CASE Counted(request[b])
      <3>1. PICK r : r = [request[b] EXCEPT !.pc = "event"]
        OBVIOUS
      <3>2. r \in Requests /\ r.pc = "event" /\ r.record = request[b].record /\ r.me = request[b].me
            /\ r.citizen = request[b].citizen
        BY <1>1, <3>1 DEF Requests, Asking
      <3>3. Fits(r)' /\ request' = [request EXCEPT ![b] = r]
        BY <1>1, <1>2, <2>6, <3>1, <3>2 DEF Fits, Resetting, Counted, LogDownload, Proceed
      <3>4. Asked'
        BY <1>1, <3>2, <3>3, OneRequest
      <3>5. QED
        BY <1>1, <2>5, <3>4, SameTables DEF AccountInv
    <2>7. CASE ~ Counted(request[b])
      <3>1. Answer(b)
        BY <1>2, <2>7 DEF LogDownload
      <3>2. QED
        BY <1>1, <2>5, <3>1, Answers, SameTables DEF AccountInv
    <2>8. QED
      BY <2>6, <2>7
  <1>3. CASE ~ (request[b].record \in record /\ request[b].citizen \in citizen \cup {Null})
    <2>1. Answer(b) /\ log' = log
      BY <1>3 DEF LogDownload
    <2>2. QED
      BY <1>1, <2>1, Answers, SameTables DEF AccountInv
  <1>4. QED
    BY <1>2, <1>3

LEMMA StepEvents ==
    ASSUME AccountInv, NEW b \in Browsers, LogEvent(b) \/ \E n \in 1 .. MaxDownloads : PurgeOldEvents(b, n)
    PROVE  AccountInv'
  <1>1. /\ Asked /\ StaffTables /\ CitizenTables /\ LogTables
        /\ UNCHANGED <<staffTables, citizenTables, log, record>> /\ user' = user /\ citizen' = citizen
    BY DEF AccountInv, LogEvent, PurgeOldEvents, staffTables, citizenTables
  <1>2. event' \in Seq(Records)
    <2>1. CASE LogEvent(b)
      <3>1. request[b].record \in Records
        BY <1>1, <2>1 DEF LogEvent, Doing, Asked, Fits
      <3>2. QED
        BY <1>1, <2>1, <3>1 DEF LogEvent, LogTables
    <2>2. ASSUME NEW n \in 1 .. MaxDownloads, PurgeOldEvents(b, n)
          PROVE  event' \in Seq(Records)
      <3>1. event \in Seq(Records) /\ Len(event) \in Nat /\ n \in Nat /\ n <= Len(event)
        BY <1>1, <2>2, AccountAssumption DEF LogTables, PurgeOldEvents
      <3>2. n + 1 \in 1 .. Len(event) + 1
        BY <3>1
      <3>3. SubSeq(event, n + 1, Len(event)) \in Seq(Records)
        BY <3>1, <3>2, SubSeqProperties
      <3>4. QED
        BY <2>2, <3>3 DEF PurgeOldEvents
    <2>3. QED
      BY <2>1, <2>2
  <1>3. LogTables'
    BY <1>1, <1>2 DEF LogTables
  <1>4. Asked'
    <2>1. CASE LogEvent(b)
      BY <1>1, <2>1, Answers DEF LogEvent
    <2>2. CASE \E n \in 1 .. MaxDownloads : PurgeOldEvents(b, n)
      BY <1>1, <2>2 DEF Asked, Fits, PurgeOldEvents
    <2>3. QED
      BY <2>1, <2>2
  <1>5. QED
    BY <1>1, <1>3, <1>4, SameTables DEF AccountInv

LEMMA StepResetActivity ==
    ASSUME AccountInv, NEW b \in Browsers, ResetActivity(b)
    PROVE  AccountInv'
  <1>1. /\ Asked /\ StaffTables /\ CitizenTables /\ LogTables
        /\ UNCHANGED <<staffTables, event, record>> /\ user' = user
    BY DEF AccountInv, ResetActivity, staffTables
  <1>2. Asked'
    <2>1. PICK pc \in {"reset_saved", "reset_searches", "reset_visits", "reset_citizens"} :
             Proceed(b, [request[b] EXCEPT !.pc = pc])
      BY DEF ResetActivity, Then
    <2>2. request[b].op = "reset"
      BY <1>1 DEF Asked, Fits, Resetting, ResetActivity, Then, Doing
    <2>3. QED
      BY <1>1, <2>1, <2>2, GoesOn DEF Asking, Resetting
  <1>3. CASE log' = <<>> /\ UNCHANGED citizenTables
    BY <1>1, <1>2, <1>3, SameTables DEF AccountInv, LogTables, citizenTables
  <1>4. CASE saved' = {} /\ UNCHANGED <<visit, citizen, searches, log>>
    BY <1>1, <1>2, <1>4, SameTables DEF AccountInv, CitizenTables
  <1>5. CASE searches' = [c \in Citizens |-> 0] /\ UNCHANGED <<visit, citizen, saved, log>>
    BY <1>1, <1>2, <1>5, SameTables DEF AccountInv, CitizenTables
  <1>6. CASE visit' = [a \in Browsers |-> Null] /\ UNCHANGED <<citizen, saved, searches, log>>
    BY <1>1, <1>2, <1>6, SameTables DEF AccountInv, CitizenTables
  <1>7. QED
    BY <1>3, <1>4, <1>5, <1>6 DEF ResetActivity

\* Citizens and orders go only when nothing refers to any of them.
LEMMA StepResetOwners ==
    ASSUME AccountInv, NEW b \in Browsers, ResetOwners(b)
    PROVE  AccountInv'
  <1>1. /\ Asked /\ StaffTables /\ CitizenTables /\ LogTables
        /\ UNCHANGED <<staffTables, visit, saved, searches, log, event>> /\ user' = user
    BY DEF AccountInv, ResetOwners, staffTables
  <1>2. Asked'
    <2>1. Answer(b) \/ Proceed(b, [request[b] EXCEPT !.pc = "reset_records"])
      BY DEF ResetOwners
    <2>2. request[b].op = "reset"
      BY <1>1 DEF Asked, Fits, Resetting, ResetOwners, Doing
    <2>3. QED
      BY <1>1, <2>1, <2>2, GoesOn, Answers DEF Asking, Resetting
  <1>3. CASE citizen' = citizen /\ record' = record
    BY <1>1, <1>2, <1>3, SameTables DEF AccountInv, citizenTables
  <1>4. CASE citizen' = {} /\ record' = record /\ \A c \in citizen : ~ Referred(c)
    <2>1. saved = {}
      <3>1. ASSUME NEW p \in saved
            PROVE  FALSE
        BY <1>1, <1>4, <3>1 DEF Referred, CitizenTables
      <3>2. QED
        BY <3>1
    <2>2. \A a \in Browsers : visit[a] = Null
      BY <1>1, <1>4 DEF Referred, CitizenTables
    <2>3. \A c \in Citizens : ~ searches[c] > 0
      BY <1>1, <1>4 DEF Referred, CitizenTables
    <2>4. CitizenTables'
      BY <1>1, <1>4, <2>1, <2>2, <2>3 DEF CitizenTables
    <2>5. \A i \in DOMAIN log : log[i].citizen \notin citizen
      BY <1>1, <1>4 DEF Referred
    <2>6. LogTables'
      BY <1>1, <1>4, <2>5 DEF LogTables
    <2>7. QED
      BY <1>1, <1>2, <2>4, <2>6, SameTables DEF AccountInv
  <1>5. CASE citizen' = citizen /\ record' = {} /\ \A r \in record : ~ Referred(r)
    <2>1. saved = {}
      <3>1. ASSUME NEW p \in saved
            PROVE  FALSE
        BY <1>1, <1>5, <3>1 DEF Referred, CitizenTables
      <3>2. QED
        BY <3>1
    <2>2. CitizenTables'
      BY <1>1, <1>5, <2>1 DEF CitizenTables
    <2>3. \A i \in DOMAIN log : log[i].record \notin record
      BY <1>1, <1>5 DEF Referred
    <2>4. DOMAIN log = {}
      BY <1>1, <2>3 DEF LogTables
    <2>5. LogTables'
      BY <1>1, <1>5, <2>4 DEF LogTables
    <2>6. QED
      BY <1>1, <1>2, <2>2, <2>5, SameTables DEF AccountInv
  <1>6. QED
    BY <1>3, <1>4, <1>5 DEF ResetOwners

LEMMA StepPublish ==
    ASSUME AccountInv, NEW r \in Records, Publish(r)
    PROVE  AccountInv'
  <1>1. /\ Asked /\ StaffTables /\ CitizenTables /\ LogTables /\ record' = record \cup {r}
        /\ UNCHANGED <<staffTables, citizenTables, log, event, request>> /\ user' = user
    BY DEF AccountInv, Publish, staffTables
  <1>2. CitizenTables'
    BY <1>1 DEF CitizenTables, citizenTables
  <1>3. LogTables'
    BY <1>1 DEF LogTables, citizenTables
  <1>4. Asked'
    BY <1>1 DEF Asked, Fits
  <1>5. QED
    BY <1>1, <1>2, <1>3, <1>4, SameTables DEF AccountInv

LEMMA BootstrapType ==
    /\ \A users \in [Users -> UserRows \cup {Null}] :
         /\ BootstrapAdmin(users) \in [Users -> UserRows \cup {Null}]
         /\ \A u \in Users : users[u] # Null => BootstrapAdmin(users)[u] # Null
    /\ \A keys \in [Keys -> KeyRows \cup {Null}] : BootstrapKey(keys) \in [Keys -> KeyRows \cup {Null}]
  <1>1. ASSUME NEW users \in [Users -> UserRows \cup {Null}]
        PROVE  /\ BootstrapAdmin(users) \in [Users -> UserRows \cup {Null}]
               /\ \A u \in Users : users[u] # Null => BootstrapAdmin(users)[u] # Null
    <2>1. PICK line : line = [role |-> "platform_admin", active |-> TRUE]
      OBVIOUS
    <2>2. line \in UserRows
      BY <2>1 DEF UserRows, Roles
    <2>3. QED
      BY <2>1, <2>2, AccountAssumption DEF BootstrapAdmin
  <1>2. ASSUME NEW keys \in [Keys -> KeyRows \cup {Null}]
        PROVE  BootstrapKey(keys) \in [Keys -> KeyRows \cup {Null}]
    <2>1. PICK line : line = [revoked |-> FALSE, used |-> FALSE]
      OBVIOUS
    <2>2. line \in KeyRows
      BY <2>1 DEF KeyRows
    <2>3. QED
      BY <2>1, <2>2, AccountAssumption DEF BootstrapKey
  <1>3. QED
    BY <1>1, <1>2

LEMMA AllReady == request' = [b \in Browsers |-> Ready] => Asked'
  <1>1. SUFFICES ASSUME request' = [b \in Browsers |-> Ready]
                 PROVE  Asked'
    OBVIOUS
  <1>2. request' \in [Browsers -> Requests]
    BY <1>1, ReadyFits
  <1>3. ASSUME NEW b \in Browsers
        PROVE  Fits(request[b])'
    <2>1. request'[b] = Ready
      BY <1>1
    <2>2. QED
      BY <2>1 DEF Fits, Ready, Resetting
  <1>4. QED
    BY <1>2, <1>3 DEF Asked

LEMMA StepRestart ==
    ASSUME AccountInv, Restart
    PROVE  AccountInv'
  <1>1. /\ StaffTables /\ CitizenTables /\ LogTables
        /\ UNCHANGED <<session, citizenTables, log, event, record>>
        /\ user' = BootstrapAdmin(user) /\ key' = BootstrapKey(key)
    BY DEF AccountInv, Restart
  <1>2. Asked'
    BY AllReady DEF Restart
  <1>3. /\ user' \in [Users -> UserRows \cup {Null}] /\ key' \in [Keys -> KeyRows \cup {Null}]
        /\ \A u \in Users : user[u] # Null => user'[u] # Null
    BY <1>1, BootstrapType DEF StaffTables
  <1>4. StaffTables'
    BY <1>1, <1>3 DEF StaffTables, SessionRows
  <1>5. QED
    BY <1>1, <1>2, <1>4, SameTables DEF AccountInv, citizenTables

LEMMA StepDatabaseLost ==
    ASSUME DatabaseLost
    PROVE  AccountInv'
  <1>1. Asked'
    BY AllReady DEF DatabaseLost
  <1>2. StaffTables'
    <2>1. [u \in Users |-> Null] \in [Users -> UserRows \cup {Null}] /\ [k \in Keys |-> Null] \in [Keys -> KeyRows \cup {Null}]
      OBVIOUS
    <2>2. user' \in [Users -> UserRows \cup {Null}] /\ key' \in [Keys -> KeyRows \cup {Null}]
      BY <2>1, BootstrapType DEF DatabaseLost
    <2>3. QED
      BY <2>2 DEF DatabaseLost, StaffTables
  <1>3. CitizenTables'
    BY DEF DatabaseLost, CitizenTables
  <1>4. LogTables'
    BY DEF DatabaseLost, LogTables
  <1>5. QED
    BY <1>1, <1>2, <1>3, <1>4 DEF AccountInv

LEMMA AccountInvStep == AccountInv /\ [AccountNext]_accountVars => AccountInv'
  <1>1. SUFFICES ASSUME AccountInv, [AccountNext]_accountVars
                 PROVE  AccountInv'
    OBVIOUS
  <1>2. CASE UNCHANGED accountVars
    BY <1>1, <1>2 DEF AccountInv, Asked, Fits, StaffTables, CitizenTables, LogTables, accountVars, staffTables, citizenTables
  <1>3. ASSUME NEW b \in Browsers, StaffStep(b) \/ CitizenStep(b)
        PROVE  AccountInv'
    BY <1>1, <1>3, StepLookUpUser, StepInsertUser, StepWriteActive, StepInsertSession, StepInsertCitizen, StepInsertVisit,
       StepToggleSaved, StepLogDownload, StepEvents, StepResetActivity, StepResetOwners DEF StaffStep, CitizenStep
  <1>4. ASSUME NEW b \in Browsers, StaffRequest(b) \/ CitizenRequest(b) \/ Reset(b)
        PROVE  AccountInv'
    BY <1>1, <1>4, StepAsk, StepSession, StepSearches DEF StaffRequest, CitizenRequest
  <1>5. ASSUME NEW b \in Browsers, KeyRequest(b) \/ Expire(b) \/ \E n \in 1 .. MaxDownloads : PurgeOldEvents(b, n)
        PROVE  AccountInv'
    BY <1>1, <1>5, StepKeys, StepSession, StepEvents DEF KeyRequest
  <1>6. QED
    BY <1>1, <1>2, <1>3, <1>4, <1>5, StepPublish, StepRestart, StepDatabaseLost DEF AccountNext

LEMMA AccountInvariant == AccountSpec => []AccountInv
  BY AccountInitInv, AccountInvStep, PTL DEF AccountSpec

\* However requests interleave, stop half-way or meet a reset, a restart or the loss of the database, the tables of
\* accounts and citizens keep their foreign keys, and a download is logged for a member of the staff or a citizen.
THEOREM AccountTypesHold == AccountSpec => []AccountTypeOK
  BY AccountInvariant, AccountInvTypes, PTL

\* Neither a restart, which sets up the key of the environment anew, nor any request revives a revoked key.
THEOREM RevocationIsFinal == AccountSpec => RevocationStands
  <1>1. ASSUME AccountInv, [AccountNext]_accountVars
        PROVE  [DatabaseLost \/ \A k \in Keys : key[k] # Null /\ key[k].revoked => key'[k] # Null /\ key'[k].revoked]_accountVars
    <2>1. SUFFICES ASSUME AccountNext, ~ DatabaseLost, NEW k \in Keys, key[k] # Null, key[k].revoked
                   PROVE  key'[k] # Null /\ key'[k].revoked
      BY <1>1
    <2>2. key \in [Keys -> KeyRows \cup {Null}] /\ key[k] \in KeyRows
      BY <1>1, <2>1 DEF AccountInv, StaffTables
    <2>3. CASE UNCHANGED key
      BY <2>1, <2>3
    <2>4. ASSUME NEW b \in Browsers, NEW j \in Keys, GenerateKey(b, j) \/ VerifyKey(j) \/ RevokeKey(b, j)
          PROVE  key'[k] # Null /\ key'[k].revoked
      <3>1. CASE j # k
        BY <2>1, <2>2, <2>4, <3>1 DEF GenerateKey, VerifyKey, RevokeKey
      <3>2. CASE j = k /\ GenerateKey(b, j)
        BY <2>1, <3>2 DEF GenerateKey
      <3>3. CASE j = k /\ VerifyKey(j)
        BY <2>1, <3>3 DEF VerifyKey
      <3>4. CASE j = k /\ RevokeKey(b, j)
        <4>1. PICK line : line = [key[k] EXCEPT !.revoked = TRUE]
          OBVIOUS
        <4>2. key'[k] = line /\ line \in KeyRows /\ line.revoked
          BY <2>2, <3>4, <4>1 DEF RevokeKey, KeyRows
        <4>3. QED
          BY <4>2, NullApart
      <3>5. QED
        BY <2>4, <3>1, <3>2, <3>3, <3>4
    <2>5. CASE Restart
      BY <2>1, <2>2, <2>5 DEF Restart, BootstrapKey
    <2>6. ASSUME NEW b \in Browsers, StaffStep(b) \/ CitizenStep(b) \/ StaffRequest(b) \/ CitizenRequest(b)
          PROVE  UNCHANGED key
      BY <2>6 DEF StaffStep, CitizenStep, StaffRequest, CitizenRequest, LookUpUser, InsertUser, WriteActive, InsertSession,
         InsertCitizen, InsertVisit, ToggleSaved, LogDownload, LogEvent, ResetActivity, ResetOwners, Setup, Login,
         SetUserActive, AddUser, Logout, Register, CitizenLogin, IsSaved, Download, SaveSearch, DeleteSavedSearch,
         CitizenLogout, staffTables
    <2>7. QED
      BY <2>1, <2>3, <2>4, <2>5, <2>6 DEF AccountNext, KeyRequest, Expire, Reset, PurgeOldEvents, Publish, staffTables
  <1>2. QED
    BY <1>1, AccountInvariant, PTL DEF AccountSpec, RevocationStands

\* Most requests neither touch an account nor are about to, and count no download.
LEMMA Moves ==
    ASSUME Asked, NEW b \in Browsers,
           \/ InsertSession(b) \/ InsertCitizen(b) \/ InsertVisit(b) \/ ToggleSaved(b) \/ LogEvent(b)
           \/ ResetActivity(b) \/ ResetOwners(b) \/ KeyRequest(b) \/ CitizenRequest(b) \/ Logout(b)
           \/ Expire(b) \/ Reset(b) \/ \E n \in 1 .. MaxDownloads : PurgeOldEvents(b, n)
           \/ \E r \in Records : Publish(r)
    PROVE  /\ UNCHANGED user
           /\ \A a \in Browsers : \/ request'[a] = request[a]
                                  \/ request'[a].pc \notin {"set_active", "look_up_user", "insert_user", "event"}
  <1>1. request[b] \in Requests /\ request \in [Browsers -> Requests]
    BY DEF Asked
  <1>2. UNCHANGED user
    <2>1. CASE InsertSession(b) \/ KeyRequest(b) \/ Logout(b) \/ Expire(b)
      BY <2>1 DEF InsertSession, KeyRequest, GenerateKey, VerifyKey, RevokeKey, Logout, Expire
    <2>2. CASE InsertCitizen(b) \/ InsertVisit(b) \/ ToggleSaved(b) \/ LogEvent(b) \/ ResetActivity(b) \/ ResetOwners(b)
      BY <2>2 DEF InsertCitizen, InsertVisit, ToggleSaved, LogEvent, ResetActivity, ResetOwners,
                  staffTables
    <2>3. CASE CitizenRequest(b)
      BY <2>3 DEF CitizenRequest, Register, CitizenLogin, IsSaved, Download, SaveSearch, DeleteSavedSearch, CitizenLogout,
                  staffTables
    <2>4. QED
      BY <2>1, <2>2, <2>3 DEF Reset, PurgeOldEvents, Publish, staffTables
  <1>3. \/ UNCHANGED request
        \/ \E r : request' = [request EXCEPT ![b] = r] /\ r.pc \notin {"set_active", "look_up_user", "insert_user", "event"}
    <2>1. Ready.pc = "idle"
      BY DEF Ready
    <2>2. ASSUME NEW pc
          PROVE  [request[b] EXCEPT !.pc = pc].pc = pc
      BY <1>1 DEF Requests
    <2>3. CASE InsertSession(b) \/ KeyRequest(b) \/ Logout(b) \/ Expire(b)
      BY <2>1, <2>3 DEF InsertSession, KeyRequest, GenerateKey, VerifyKey, RevokeKey, Logout, Expire, Answer, Proceed
    <2>4. CASE InsertCitizen(b) \/ InsertVisit(b) \/ ToggleSaved(b) \/ LogEvent(b)
      BY <2>1, <2>2, <2>4 DEF InsertCitizen, InsertVisit, ToggleSaved, LogEvent, Answer, Proceed
    <2>5. CASE ResetActivity(b) \/ ResetOwners(b)
      BY <2>1, <2>2, <2>5 DEF ResetActivity, ResetOwners, Then, Answer, Proceed
    <2>6. ASSUME NEW c \in Citizens, Register(b, c) \/ CitizenLogin(b, c)
          PROVE  <1>3!:
      <3>1. PICK pc \in {"insert_citizen", "insert_visit"}, op \in {"register", "citizen_login"} :
              request' = [request EXCEPT ![b] = [Ready EXCEPT !.pc = pc, !.op = op, !.citizen = c]]
        BY <2>6 DEF Register, CitizenLogin, Proceed
      <3>2. [Ready EXCEPT !.pc = pc, !.op = op, !.citizen = c].pc = pc
        BY DEF Ready
      <3>3. QED
        BY <3>1, <3>2
    <2>7. ASSUME NEW r \in Records, IsSaved(b, r) \/ Download(b, r)
          PROVE  <1>3!:
      <3>1. CASE IsSaved(b, r)
        <4>1. PICK pc \in {"save", "unsave"}, c \in {CurrentCitizen(b)} :
                request' = [request EXCEPT ![b] = [Ready EXCEPT !.pc = pc, !.op = "toggle", !.citizen = c, !.record = r]]
          BY <3>1 DEF IsSaved, Proceed
        <4>2. [Ready EXCEPT !.pc = pc, !.op = "toggle", !.citizen = c, !.record = r].pc = pc
          BY DEF Ready
        <4>3. QED
          BY <4>1, <4>2
      <3>2. CASE Download(b, r)
        <4>1. PICK me, c :
                request' = [request EXCEPT ![b] = [Ready EXCEPT !.pc = "log", !.op = "download", !.me = me,
                                                                !.citizen = c, !.record = r]]
          BY <3>2 DEF Download, Proceed
        <4>2. [Ready EXCEPT !.pc = "log", !.op = "download", !.me = me, !.citizen = c, !.record = r].pc = "log"
          BY DEF Ready
        <4>3. QED
          BY <4>1, <4>2
      <3>3. QED
        BY <2>7, <3>1, <3>2
    <2>8. CASE SaveSearch(b) \/ DeleteSavedSearch(b) \/ CitizenLogout(b) \/ \E r \in Records : Publish(r)
      BY <2>8 DEF SaveSearch, DeleteSavedSearch, CitizenLogout, Publish
    <2>9. CASE Reset(b) \/ \E n \in 1 .. MaxDownloads : PurgeOldEvents(b, n)
      <3>1. [Ready EXCEPT !.pc = "reset_downloads", !.op = "reset"].pc = "reset_downloads"
        BY DEF Ready
      <3>2. QED
        BY <2>9, <3>1 DEF Reset, PurgeOldEvents, Proceed
    <2>10. QED
      BY <2>3, <2>4, <2>5, <2>6, <2>7, <2>8, <2>9 DEF CitizenRequest
  <1>4. QED
    BY <1>1, <1>2, <1>3

LEMMA LogMoves ==
    ASSUME Asked, NEW b \in Browsers, LogDownload(b)
    PROVE  UNCHANGED user /\ \/ request' = [request EXCEPT ![b] = Ready]
                             \/ request' = [request EXCEPT ![b] = [request[b] EXCEPT !.pc = "event"]]
  BY DEF LogDownload, Answer, Proceed, staffTables

-----------------------------------------------------------------------------
(* Somebody is left to manage the accounts.                                *)

\* Who is about to deactivate an account has another, and who is about to make the first account makes it an
\* administrator's.
Leaves(r) ==
    /\ r.pc = "set_active" /\ ~ r.on => r.me \in Users \ {r.user}
    /\ r.pc \in {"look_up_user", "insert_user"} => HasAnyUsers \/ r.role = "platform_admin"

AdminInv == AccountInv /\ \A b \in Browsers : Leaves(request[b])
Kept == Managed => Managed'

LEMMA AdminInitInv == AccountInit => AdminInv
  <1>1. SUFFICES ASSUME AccountInit
                 PROVE  AdminInv
    OBVIOUS
  <1>2. \A b \in Browsers : request[b] = Ready
    BY <1>1 DEF AccountInit
  <1>3. \A b \in Browsers : Leaves(request[b])
    BY <1>2 DEF Leaves, Ready
  <1>4. QED
    BY <1>1, <1>3, AccountInitInv DEF AdminInv

\* The steps that neither change an account nor are about to.
LEMMA AdminFrame ==
    ASSUME AdminInv, AccountInv', UNCHANGED user,
           \A b \in Browsers : \/ request'[b] = request[b]
                               \/ request'[b].pc \notin {"set_active", "look_up_user", "insert_user"}
    PROVE  AdminInv' /\ Kept
  <1>1. Kept
    BY DEF Kept, Managed, HasAnyUsers, Administrator
  <1>2. ASSUME NEW b \in Browsers
        PROVE  Leaves(request[b])'
    BY DEF AdminInv, Leaves, HasAnyUsers
  <1>3. QED
    BY <1>1, <1>2 DEF AdminInv

\* The steps of a request that is about to.
LEMMA AdminAsks ==
    ASSUME AdminInv, AccountInv', UNCHANGED user, NEW b \in Browsers, NEW r,
           request' = [request EXCEPT ![b] = r], Leaves(r)
    PROVE  AdminInv' /\ Kept
  <1>1. Kept
    BY DEF Kept, Managed, HasAnyUsers, Administrator
  <1>2. ASSUME NEW a \in Browsers
        PROVE  Leaves(request[a])'
    <2>1. request \in [Browsers -> Requests]
      BY DEF AdminInv, AccountInv, Asked
    <2>2. CASE a = b
      BY <2>1, <2>2 DEF Leaves, HasAnyUsers
    <2>3. CASE a # b
      BY <2>1, <2>3 DEF AdminInv, Leaves, HasAnyUsers
    <2>4. QED
      BY <2>2, <2>3
  <1>3. QED
    BY <1>1, <1>2 DEF AdminInv

LEMMA StaffAsks ==
    ASSUME AdminInv, AccountInv', NEW b \in Browsers, NEW u \in Users,
           \/ Setup(b, u) \/ Login(b, u) \/ \E on \in BOOLEAN : SetUserActive(b, u, on)
           \/ \E role \in {"platform_admin", "reviewer"} : AddUser(b, u, role)
    PROVE  AdminInv' /\ Kept
  <1>1. StaffTables /\ CitizenTables /\ UNCHANGED user
    BY DEF AdminInv, AccountInv, Setup, Login, SetUserActive, AddUser, staffTables
  <1>2. CASE Setup(b, u)
    <2>1. PICK r : r = [Ready EXCEPT !.pc = "look_up_user", !.op = "setup", !.user = u, !.role = "platform_admin"]
      OBVIOUS
    <2>2. Leaves(r) /\ request' = [request EXCEPT ![b] = r]
      BY <1>2, <2>1 DEF Leaves, Setup, Proceed, Ready
    <2>3. QED
      BY <1>1, <2>2, AdminAsks
  <1>3. CASE Login(b, u)
    <2>1. PICK r : r = [Ready EXCEPT !.pc = "insert_session", !.op = "login", !.user = u]
      OBVIOUS
    <2>2. Leaves(r) /\ request' = [request EXCEPT ![b] = r]
      BY <1>3, <2>1 DEF Leaves, Login, Proceed, Ready
    <2>3. QED
      BY <1>1, <2>2, AdminAsks
  <1>4. ASSUME NEW on \in BOOLEAN, SetUserActive(b, u, on)
        PROVE  AdminInv' /\ Kept
    <2> DEFINE me == CurrentUser(b)
               r == [Ready EXCEPT !.pc = "set_active", !.op = "active", !.user = u, !.on = on, !.me = me]
    <2>1. me \in Users /\ (on \/ u # me)
      BY <1>1, <1>4, WhoAsks DEF SetUserActive, Permitted, MaySetActive
    <2>2. request' = [request EXCEPT ![b] = r]
      BY <1>4 DEF SetUserActive, Proceed
    <2> HIDE DEF me
    <2>3. r.pc = "set_active" /\ r.user = u /\ r.on = on /\ r.me = me
      BY DEF Ready
    <2>4. Leaves(r)
      BY <2>1, <2>3 DEF Leaves
    <2> HIDE DEF r
    <2>5. QED
      BY <1>1, <2>2, <2>4, AdminAsks
  <1>5. ASSUME NEW role \in {"platform_admin", "reviewer"}, AddUser(b, u, role)
        PROVE  AdminInv' /\ Kept
    <2>1. PICK r : r = [Ready EXCEPT !.pc = "look_up_user", !.op = "add", !.user = u, !.role = role]
      OBVIOUS
    <2>2. r.pc = "look_up_user"
      BY <2>1 DEF Ready
    <2>3. HasAnyUsers
      BY <1>1, <1>5, WhoAsks DEF AddUser, Permitted, HasAnyUsers
    <2>4. Leaves(r) /\ request' = [request EXCEPT ![b] = r]
      BY <1>5, <2>1, <2>2, <2>3 DEF Leaves, AddUser, Proceed
    <2>5. QED
      BY <1>1, <2>4, AdminAsks
  <1>6. QED
    BY <1>2, <1>3, <1>4, <1>5

LEMMA AdminLookUp ==
    ASSUME AdminInv, AccountInv', NEW b \in Browsers, LookUpUser(b)
    PROVE  AdminInv' /\ Kept
  <1>1. request[b] \in Requests /\ Leaves(request[b]) /\ request[b].pc = "look_up_user" /\ UNCHANGED user
    BY DEF AdminInv, AccountInv, Asked, LookUpUser, Doing, staffTables
  <1>2. PICK r : r = [request[b] EXCEPT !.pc = "insert_user"]
    OBVIOUS
  <1>3. r.pc = "insert_user" /\ r.role = request[b].role
    BY <1>1, <1>2 DEF Requests
  <1>4. Leaves(r) /\ Leaves(Ready)
    BY <1>1, <1>3 DEF Leaves, Ready
  <1>5. request' = [request EXCEPT ![b] = r] \/ request' = [request EXCEPT ![b] = Ready]
    BY <1>2 DEF LookUpUser, Proceed, Answer
  <1>6. QED
    BY <1>1, <1>4, <1>5, AdminAsks

\* A new account takes nobody's place.
LEMMA AdminInsert ==
    ASSUME AdminInv, AccountInv', NEW b \in Browsers, InsertUser(b)
    PROVE  AdminInv' /\ Kept
  <1>1. /\ request[b] \in Requests /\ Leaves(request[b]) /\ request[b].pc = "insert_user" /\ request[b].user \in Users
        /\ user \in [Users -> UserRows \cup {Null}] /\ request \in [Browsers -> Requests]
    BY DEF AdminInv, AccountInv, Asked, Fits, StaffTables, InsertUser, Doing
  <1>2. \A a \in Browsers : request'[a] = request[a] \/ request'[a].pc \notin {"set_active", "look_up_user", "insert_user"}
    <2>1. PICK r : r = [request[b] EXCEPT !.pc = "insert_session"]
      OBVIOUS
    <2>2. r.pc = "insert_session" /\ Ready.pc = "idle"
      BY <1>1, <2>1 DEF Requests, Ready
    <2>3. request' = [request EXCEPT ![b] = r] \/ request' = [request EXCEPT ![b] = Ready]
      BY <2>1 DEF InsertUser, Proceed, Answer
    <2>4. QED
      BY <1>1, <2>2, <2>3
  <1>3. CASE user[request[b].user] # Null
    BY <1>2, <1>3, AdminFrame DEF InsertUser
  <1>4. CASE user[request[b].user] = Null
    <2>1. PICK line : line = [role |-> request[b].role, active |-> TRUE]
      OBVIOUS
    <2>2. line.role = request[b].role /\ line.active /\ user' = [user EXCEPT ![request[b].user] = line]
      BY <1>4, <2>1 DEF InsertUser
    <2>3. line # Null
      <3>1. request[b].role \in Roles
        BY <1>1 DEF Requests
      <3>2. line \in UserRows
        BY <2>1, <3>1 DEF UserRows
      <3>3. QED
        BY <3>2, NullApart
    <2>4. \A u \in Users : Administrator(u) => Administrator(u)'
      BY <1>1, <1>4, <2>2 DEF Administrator
    <2>5. HasAnyUsers'
      BY <1>1, <2>2, <2>3 DEF HasAnyUsers
    <2>6. Kept
      <3>1. CASE HasAnyUsers
        BY <2>4, <3>1 DEF Kept, Managed
      <3>2. CASE ~ HasAnyUsers
        <4>1. request[b].role = "platform_admin"
          BY <1>1, <3>2 DEF Leaves
        <4>2. user'[request[b].user] = line
          BY <1>1, <2>2
        <4>3. QED
          BY <1>1, <2>2, <2>3, <4>1, <4>2 DEF Kept, Managed, Administrator, ManageUsers
      <3>3. QED
        BY <3>1, <3>2
    <2>7. ASSUME NEW a \in Browsers
          PROVE  Leaves(request[a])'
      BY <1>2, <2>4, <2>5 DEF AdminInv, Leaves
    <2>8. QED
      BY <2>6, <2>7 DEF AdminInv
  <1>5. QED
    BY <1>3, <1>4

\* A deactivation leaves the one who asked for it, if that is still an administrator.
LEMMA AdminWrite ==
    ASSUME AdminInv, AccountInv', NEW b \in Browsers, WriteActive(b)
    PROVE  AdminInv' /\ (Kept \/ OutOfOffice(b))
  <1>1. /\ request[b] \in Requests /\ Leaves(request[b]) /\ request[b].pc = "set_active" /\ request[b].op = "active"
        /\ request[b].user \in Users /\ user[request[b].user] # Null
        /\ user \in [Users -> UserRows \cup {Null}] /\ request \in [Browsers -> Requests]
        /\ request' = [request EXCEPT ![b] = Ready]
        /\ user' = [user EXCEPT ![request[b].user].active = request[b].on]
    BY DEF AdminInv, AccountInv, Asked, Fits, StaffTables, WriteActive, Doing, Proceed, Answer
  <1>2. PICK u, line : u = request[b].user /\ line = [user[u] EXCEPT !.active = request[b].on]
    OBVIOUS
  <1>3. user[u] \in UserRows /\ request[b].on \in BOOLEAN
    BY <1>1, <1>2 DEF Requests
  <1>4. line \in UserRows /\ line.role = user[u].role /\ (line.active <=> request[b].on) /\ user' = [user EXCEPT ![u] = line]
    BY <1>1, <1>2, <1>3 DEF UserRows
  <1>5. \A v \in Users : Administrator(v) /\ (v # u \/ request[b].on) => Administrator(v)'
    BY <1>1, <1>4, NullApart DEF Administrator
  <1>6. HasAnyUsers /\ HasAnyUsers'
    BY <1>1, <1>2, <1>4, NullApart DEF HasAnyUsers
  <1>7. request'[b] # request[b]
    BY <1>1 DEF Ready
  <1>8. Kept \/ OutOfOffice(b)
    <2>1. CASE request[b].on
      BY <1>5, <1>6, <2>1 DEF Kept, Managed
    <2>2. CASE ~ request[b].on /\ Administrator(request[b].me)
      BY <1>1, <1>2, <1>5, <2>2 DEF Kept, Managed, Leaves
    <2>3. CASE ~ Administrator(request[b].me)
      BY <1>1, <1>7, <2>3 DEF OutOfOffice, Doing
    <2>4. QED
      BY <2>1, <2>2, <2>3
  <1>9. ASSUME NEW a \in Browsers
        PROVE  Leaves(request[a])'
    <2>1. CASE a = b
      BY <1>1, <2>1 DEF Leaves, Ready
    <2>2. CASE a # b
      <3>1. request'[a] = request[a] /\ Leaves(request[a])
        BY <1>1, <2>2 DEF AdminInv
      <3>2. QED
        BY <1>6, <3>1 DEF Leaves
    <2>3. QED
      BY <2>1, <2>2
  <1>10. QED
    BY <1>8, <1>9 DEF AdminInv

\* A start of the server makes an administrator when it makes an account.
LEMMA AdminStarts ==
    ASSUME AdminInv, AccountInv', Restart \/ DatabaseLost
    PROVE  AdminInv' /\ Kept
  <1>1. \A b \in Browsers : request'[b] = Ready
    BY DEF Restart, DatabaseLost
  <1>2. PICK users \in [Users -> UserRows \cup {Null}] :
          users \in {user, [u \in Users |-> Null]} /\ user' = BootstrapAdmin(users)
    BY DEF AdminInv, AccountInv, StaffTables, Restart, DatabaseLost
  <1>3. Kept
    <2>1. CASE EnvAdmin # Null /\ \A u \in Users : users[u] = Null
      <3>1. PICK line : line = [role |-> "platform_admin", active |-> TRUE]
        OBVIOUS
      <3>2. line \in UserRows /\ user' = [users EXCEPT ![EnvAdmin] = line] /\ EnvAdmin \in Users
        BY <1>2, <2>1, <3>1, AccountAssumption DEF BootstrapAdmin, UserRows, Roles
      <3>3. user'[EnvAdmin] = line /\ line # Null
        BY <3>2, NullApart
      <3>4. QED
        BY <3>1, <3>2, <3>3 DEF Kept, Managed, Administrator, ManageUsers
    <2>2. CASE ~ (EnvAdmin # Null /\ \A u \in Users : users[u] = Null)
      <3>1. user' = users
        BY <1>2, <2>2 DEF BootstrapAdmin
      <3>2. QED
        BY <1>2, <3>1 DEF Kept, Managed, Administrator, HasAnyUsers
    <2>3. QED
      BY <2>1, <2>2
  <1>4. ASSUME NEW b \in Browsers
        PROVE  Leaves(request[b])'
    BY <1>1 DEF Leaves, Ready
  <1>5. QED
    BY <1>3, <1>4 DEF AdminInv

\* All other steps.
LEMMA AdminElsewhere ==
    ASSUME AdminInv, AccountInv', NEW b \in Browsers,
           \/ InsertSession(b) \/ CitizenStep(b) \/ KeyRequest(b) \/ CitizenRequest(b) \/ Logout(b)
           \/ Expire(b) \/ Reset(b) \/ \E n \in 1 .. MaxDownloads : PurgeOldEvents(b, n)
           \/ \E r \in Records : Publish(r)
    PROVE  AdminInv' /\ Kept
  <1>1. CASE LogDownload(b)
    <2>1. Asked /\ request \in [Browsers -> Requests] /\ request[b] \in Requests
      BY DEF AdminInv, AccountInv, Asked
    <2>2. [request[b] EXCEPT !.pc = "event"].pc = "event" /\ Ready.pc = "idle"
      BY <2>1 DEF Requests, Ready
    <2>3. \A a \in Browsers : \/ request'[a] = request[a]
                              \/ request'[a].pc \notin {"set_active", "look_up_user", "insert_user"}
      BY <1>1, <2>1, <2>2, LogMoves
    <2>4. QED
      BY <1>1, <2>1, <2>3, LogMoves, AdminFrame
  <1>2. CASE ~ LogDownload(b)
    BY <1>2, Moves, AdminFrame DEF AdminInv, AccountInv, CitizenStep
  <1>3. QED
    BY <1>1, <1>2

LEMMA AdminStep ==
    AdminInv /\ [AccountNext]_accountVars => AdminInv' /\ (Kept \/ \E b \in Browsers : OutOfOffice(b))
  <1>1. SUFFICES ASSUME AdminInv, [AccountNext]_accountVars
                 PROVE  AdminInv' /\ (Kept \/ \E b \in Browsers : OutOfOffice(b))
    OBVIOUS
  <1>2. AccountInv'
    BY <1>1, AccountInvStep DEF AdminInv
  <1>3. CASE UNCHANGED accountVars
    BY <1>1, <1>2, <1>3, AdminFrame DEF accountVars, staffTables
  <1>4. CASE AccountNext
    <2>1. ASSUME NEW b \in Browsers, WriteActive(b)
          PROVE  AdminInv' /\ (Kept \/ \E a \in Browsers : OutOfOffice(a))
      BY <1>1, <1>2, <2>1, AdminWrite
    <2>2. ASSUME NEW b \in Browsers, LookUpUser(b) \/ InsertUser(b) \/ InsertSession(b) \/ StaffRequest(b)
          PROVE  AdminInv' /\ Kept
      BY <1>1, <1>2, <2>2, StaffAsks, AdminLookUp, AdminInsert, AdminElsewhere DEF StaffRequest
    <2>3. ASSUME NEW b \in Browsers,
                 \/ CitizenStep(b) \/ KeyRequest(b) \/ CitizenRequest(b)
                 \/ Expire(b) \/ Reset(b) \/ (\E n \in 1 .. MaxDownloads : PurgeOldEvents(b, n))
          PROVE  AdminInv' /\ Kept
      BY <1>1, <1>2, <2>3, AdminElsewhere
    <2>4. CASE \E r \in Records : Publish(r)
      BY <1>1, <1>2, <2>4, AdminFrame DEF Publish, staffTables
    <2>5. CASE Restart \/ DatabaseLost
      BY <1>1, <1>2, <2>5, AdminStarts
    <2>6. QED
      BY <1>4, <2>1, <2>2, <2>3, <2>4, <2>5 DEF AccountNext, StaffStep
  <1>5. QED
    BY <1>1, <1>3, <1>4

\* However requests overlap, nothing locks everyone out of the management of the accounts but a deactivation by
\* someone who has ceased to be an administrator since asking: not the set-up, not a restart, not a lost database,
\* and no deactivation that is alone.
THEOREM AdministratorStays == AccountSpec => AdministratorRemains
  <1>1. AdminInv /\ [AccountNext]_accountVars
        => [Managed => Managed' \/ \E b \in Browsers : OutOfOffice(b)]_accountVars
    BY AdminStep DEF Kept
  <1>2. AdminInv /\ [AccountNext]_accountVars => AdminInv'
    BY AdminStep
  <1>3. QED
    BY <1>1, <1>2, AdminInitInv, PTL DEF AccountSpec, AdministratorRemains

-----------------------------------------------------------------------------
(* Of an order no more downloads are counted than citizens are logged with. *)

EventsOf(r)  == {i \in DOMAIN event : event[i] = r}
LogsOf(r)    == {i \in DOMAIN log : log[i].record = r /\ log[i].citizen # Null}
PendingOfOrder(r) == {b \in Browsers : request[b].pc = "event" /\ request[b].record = r}

\* A download that is logged for a citizen may still be counted.
Covered(r) == Cardinality(EventsOf(r)) + Cardinality(PendingOfOrder(r)) <= Cardinality(LogsOf(r))

CountInv == AccountInv /\ NoReset /\ \A r \in Records : Covered(r)

LEMMA DomainFinite == ASSUME NEW S, NEW s \in Seq(S) PROVE DOMAIN s = 1 .. Len(s) /\ Len(s) \in Nat /\ IsFiniteSet(DOMAIN s)
  <1>1. DOMAIN s = 1 .. Len(s) /\ Len(s) \in Nat
    OBVIOUS
  <1>2. QED
    BY <1>1, FS_Interval

LEMMA AllFinite ==
    ASSUME AccountInv, NEW r
    PROVE  /\ IsFiniteSet(EventsOf(r)) /\ IsFiniteSet(PendingOfOrder(r)) /\ IsFiniteSet(LogsOf(r))
           /\ Cardinality(EventsOf(r)) \in Nat /\ Cardinality(PendingOfOrder(r)) \in Nat /\ Cardinality(LogsOf(r)) \in Nat
  <1>1. IsFiniteSet(DOMAIN event) /\ IsFiniteSet(DOMAIN log) /\ IsFiniteSet(Browsers)
    BY DomainFinite, AccountAssumption DEF AccountInv, LogTables
  <1>2. EventsOf(r) \in SUBSET DOMAIN event /\ LogsOf(r) \in SUBSET DOMAIN log /\ PendingOfOrder(r) \in SUBSET Browsers
    BY DEF EventsOf, LogsOf, PendingOfOrder
  <1>3. IsFiniteSet(EventsOf(r)) /\ IsFiniteSet(PendingOfOrder(r)) /\ IsFiniteSet(LogsOf(r))
    BY <1>1, <1>2, FS_Subset
  <1>4. QED
    BY <1>3, FS_CardinalityType

\* The steps that log and count nothing, or forget about counting.
LEMMA CountFrame ==
    ASSUME CountInv, AccountInv', NoReset', UNCHANGED <<event, log>>,
           \A b \in Browsers : request'[b] = request[b] \/ request'[b].pc # "event"
    PROVE  CountInv'
  <1>1. ASSUME NEW r \in Records
        PROVE  Covered(r)'
    <2>1. EventsOf(r)' = EventsOf(r) /\ LogsOf(r)' = LogsOf(r) /\ PendingOfOrder(r)' \in SUBSET PendingOfOrder(r)
      BY DEF EventsOf, LogsOf, PendingOfOrder
    <2>2. /\ IsFiniteSet(PendingOfOrder(r)) /\ Cardinality(EventsOf(r)) \in Nat /\ Cardinality(LogsOf(r)) \in Nat
          /\ Cardinality(PendingOfOrder(r)) \in Nat
      BY AllFinite DEF CountInv
    <2>3. Cardinality(PendingOfOrder(r)') <= Cardinality(PendingOfOrder(r)) /\ Cardinality(PendingOfOrder(r)') \in Nat
      BY <2>1, <2>2, FS_Subset, FS_CardinalityType
    <2>4. Covered(r)
      BY DEF CountInv
    <2>5. QED
      BY <2>1, <2>2, <2>3, <2>4 DEF Covered
  <1>2. QED
    BY <1>1 DEF CountInv

\* An event takes the place of the request that is about to log it.
LEMMA CountEvent ==
    ASSUME CountInv, AccountInv', NoReset', NEW b \in Browsers, LogEvent(b)
    PROVE  CountInv'
  <1>1. /\ AccountInv /\ request \in [Browsers -> Requests] /\ request[b].pc = "event" /\ request[b].record \in Records
        /\ request' = [request EXCEPT ![b] = Ready] /\ UNCHANGED log /\ event \in Seq(Records)
    BY DEF CountInv, AccountInv, Asked, Fits, LogTables, LogEvent, Doing, Answer, Proceed
  <1>2. Ready.pc = "idle"
    BY DEF Ready
  <1>3. CASE UNCHANGED event
    BY <1>1, <1>2, <1>3, CountFrame
  <1>4. CASE event' = Append(event, request[b].record)
    <2>1. ASSUME NEW r \in Records
          PROVE  Covered(r)'
      <3>1. /\ IsFiniteSet(EventsOf(r)) /\ IsFiniteSet(PendingOfOrder(r)) /\ Cardinality(EventsOf(r)) \in Nat
            /\ Cardinality(LogsOf(r)) \in Nat /\ Cardinality(PendingOfOrder(r)) \in Nat
        BY <1>1, AllFinite
      <3>2. LogsOf(r)' = LogsOf(r) /\ PendingOfOrder(r)' = PendingOfOrder(r) \ {b}
        BY <1>1, <1>2 DEF LogsOf, PendingOfOrder
      <3>3. Len(event) \in Nat /\ DOMAIN event = 1 .. Len(event) /\ DOMAIN event' = 1 .. (Len(event) + 1)
            /\ event'[Len(event) + 1] = request[b].record /\ \A i \in DOMAIN event : event'[i] = event[i]
        BY <1>1, <1>4
      <3>4. CASE request[b].record = r
        <4>1. EventsOf(r)' = EventsOf(r) \cup {Len(event) + 1} /\ Len(event) + 1 \notin EventsOf(r)
          BY <3>3, <3>4 DEF EventsOf
        <4>2. Cardinality(EventsOf(r)') = Cardinality(EventsOf(r)) + 1
          BY <3>1, <4>1, FS_AddElement
        <4>3. b \in PendingOfOrder(r)
          BY <1>1, <3>4 DEF PendingOfOrder
        <4>4. Cardinality(PendingOfOrder(r)') = Cardinality(PendingOfOrder(r)) - 1
          BY <3>1, <3>2, <4>3, FS_RemoveElement
        <4>5. Covered(r)
          BY DEF CountInv
        <4>6. QED
          BY <3>1, <3>2, <4>2, <4>4, <4>5 DEF Covered
      <3>5. CASE request[b].record # r
        <4>1. EventsOf(r)' = EventsOf(r)
          BY <3>3, <3>5 DEF EventsOf
        <4>2. b \notin PendingOfOrder(r)
          BY <3>5 DEF PendingOfOrder
        <4>3. PendingOfOrder(r)' = PendingOfOrder(r)
          BY <3>2, <4>2
        <4>4. Covered(r)
          BY DEF CountInv
        <4>5. QED
          BY <3>2, <4>1, <4>3, <4>4 DEF Covered
      <3>6. QED
        BY <3>4, <3>5
    <2>2. QED
      BY <2>1 DEF CountInv
  <1>5. QED
    BY <1>3, <1>4 DEF LogEvent

\* A purge forgets the oldest.
LEMMA CountPurge ==
    ASSUME CountInv, AccountInv', NoReset', NEW b \in Browsers, NEW n \in 1 .. MaxDownloads, PurgeOldEvents(b, n)
    PROVE  CountInv'
  <1>1. /\ AccountInv /\ UNCHANGED <<log, request>> /\ event \in Seq(Records) /\ Len(event) \in Nat /\ n \in Nat
        /\ n <= Len(event) /\ event' = SubSeq(event, n + 1, Len(event))
    BY AccountAssumption DEF CountInv, AccountInv, LogTables, PurgeOldEvents
  <1>2. ASSUME NEW r \in Records
        PROVE  Covered(r)'
    <2>1. /\ IsFiniteSet(EventsOf(r)) /\ Cardinality(EventsOf(r)) \in Nat
          /\ Cardinality(LogsOf(r)) \in Nat /\ Cardinality(PendingOfOrder(r)) \in Nat
      BY <1>1, AllFinite
    <2>2. LogsOf(r)' = LogsOf(r) /\ PendingOfOrder(r)' = PendingOfOrder(r)
      BY <1>1 DEF LogsOf, PendingOfOrder
    <2>3. /\ DOMAIN event = 1 .. Len(event)
          /\ DOMAIN event' = 1 .. (Len(event) - n) /\ \A i \in DOMAIN event' : event'[i] = event[i + n]
      BY <1>1
    <2>4. ASSUME NEW i \in EventsOf(r)'
          PROVE  i + n \in EventsOf(r) /\ i \in Nat
      <3>1. i \in DOMAIN event' /\ event'[i] = r
        BY DEF EventsOf
      <3>2. i \in Nat /\ i + n \in 1 .. Len(event)
        BY <1>1, <2>3, <3>1
      <3>3. event[i + n] = r
        BY <2>3, <3>1
      <3>4. QED
        BY <2>3, <3>2, <3>3 DEF EventsOf
    <2>5. PICK f : f = [i \in EventsOf(r)' |-> i + n]
      OBVIOUS
    <2>6. f \in Injection(EventsOf(r)', EventsOf(r))
      <3>1. f \in [EventsOf(r)' -> EventsOf(r)]
        BY <2>4, <2>5
      <3>2. \A i, j \in EventsOf(r)' : f[i] = f[j] => i = j
        BY <1>1, <2>4, <2>5
      <3>3. QED
        BY <3>1, <3>2 DEF Injection, IsInjective
    <2>7. IsFiniteSet(EventsOf(r)') /\ Cardinality(EventsOf(r)') <= Cardinality(EventsOf(r))
      BY <2>1, <2>6, FS_Injection
    <2>8. Cardinality(EventsOf(r)') \in Nat
      BY <2>7, FS_CardinalityType
    <2>9. Covered(r)
      BY DEF CountInv
    <2>10. QED
      BY <2>1, <2>2, <2>7, <2>8, <2>9 DEF Covered
  <1>3. QED
    BY <1>2 DEF CountInv

\* A download of a citizen may be counted once, one of the staff never.
LEMMA CountDownload ==
    ASSUME CountInv, AccountInv', NoReset', NEW b \in Browsers, LogDownload(b)
    PROVE  CountInv'
  <1>1. /\ AccountInv /\ Asked /\ request \in [Browsers -> Requests] /\ request[b] \in Requests
        /\ request[b].pc = "log" /\ request[b].record \in Records
        /\ (request[b].me = Null) # (request[b].citizen = Null) /\ UNCHANGED event /\ log \in Seq(LogRows)
    BY DEF CountInv, AccountInv, Asked, Fits, LogTables, LogDownload, Doing
  <1>2. PICK x, line : x = request[b].record /\ line = [citizen |-> request[b].citizen, staff |-> request[b].me, record |-> x]
    OBVIOUS
  <1>3. [request[b] EXCEPT !.pc = "event"].pc = "event" /\ [request[b] EXCEPT !.pc = "event"].record = x /\ Ready.pc = "idle"
    BY <1>1, <1>2 DEF Requests, Ready
  <1>4. CASE UNCHANGED log /\ request' = [request EXCEPT ![b] = Ready]
    BY <1>1, <1>3, <1>4, CountFrame
  <1>5. CASE log' = Append(log, line)
    <2>1. /\ Len(log) \in Nat /\ DOMAIN log = 1 .. Len(log) /\ DOMAIN log' = 1 .. (Len(log) + 1)
          /\ log'[Len(log) + 1] = line /\ \A i \in DOMAIN log : log'[i] = log[i]
      BY <1>1, <1>5
    <2>2. line.record = x /\ line.citizen = request[b].citizen
      BY <1>2
    <2>3. ASSUME NEW r \in Records
          PROVE  Covered(r)'
      <3>1. /\ IsFiniteSet(LogsOf(r)) /\ IsFiniteSet(PendingOfOrder(r)) /\ Cardinality(EventsOf(r)) \in Nat
            /\ Cardinality(LogsOf(r)) \in Nat /\ Cardinality(PendingOfOrder(r)) \in Nat
        BY <1>1, AllFinite
      <3>2. EventsOf(r)' = EventsOf(r) /\ Covered(r)
        BY <1>1 DEF EventsOf, CountInv
      <3>3. CASE request[b].me = Null /\ x = r
        <4>1. LogsOf(r)' = LogsOf(r) \cup {Len(log) + 1} /\ Len(log) + 1 \notin LogsOf(r)
          BY <1>1, <2>1, <2>2, <3>3 DEF LogsOf
        <4>2. Cardinality(LogsOf(r)') = Cardinality(LogsOf(r)) + 1
          BY <3>1, <4>1, FS_AddElement
        <4>3. PendingOfOrder(r)' \in SUBSET (PendingOfOrder(r) \cup {b})
          BY <1>1, <1>3, LogMoves DEF PendingOfOrder
        <4>4. b \notin PendingOfOrder(r)
          BY <1>1 DEF PendingOfOrder
        <4>5. /\ IsFiniteSet(PendingOfOrder(r) \cup {b})
              /\ Cardinality(PendingOfOrder(r) \cup {b}) = Cardinality(PendingOfOrder(r)) + 1
          BY <3>1, <4>4, FS_AddElement
        <4>6. Cardinality(PendingOfOrder(r)') <= Cardinality(PendingOfOrder(r)) + 1 /\ Cardinality(PendingOfOrder(r)') \in Nat
          BY <4>3, <4>5, FS_Subset, FS_CardinalityType
        <4>7. QED
          BY <3>1, <3>2, <4>2, <4>6 DEF Covered
      <3>4. CASE ~ (request[b].me = Null /\ x = r)
        <4>1. LogsOf(r)' = LogsOf(r)
          BY <1>1, <2>1, <2>2, <3>4 DEF LogsOf
        <4>2. PendingOfOrder(r)' = PendingOfOrder(r)
          <5>1. CASE request[b].me = Null
            BY <1>1, <1>3, <3>4, <5>1, LogMoves DEF PendingOfOrder
          <5>2. CASE request[b].me # Null
            <6>1. request' = [request EXCEPT ![b] = Ready]
              BY <5>2 DEF LogDownload, Counted, Answer, Proceed
            <6>2. QED
              BY <1>1, <1>3, <6>1 DEF PendingOfOrder
          <5>3. QED
            BY <5>1, <5>2
        <4>3. QED
          BY <3>2, <4>1, <4>2 DEF Covered
      <3>5. QED
        BY <3>3, <3>4
    <2>4. QED
      BY <2>3 DEF CountInv
  <1>6. QED
    BY <1>2, <1>4, <1>5 DEF LogDownload, Answer, Proceed

\* The staff's requests count nothing.
LEMMA StaffMoves ==
    ASSUME Asked, NEW b \in Browsers, StaffStep(b) \/ StaffRequest(b)
    PROVE  UNCHANGED <<log, event>> /\ \A a \in Browsers : request'[a] = request[a] \/ request'[a].pc # "event"
  <1>1. request \in [Browsers -> Requests] /\ request[b] \in Requests /\ Ready.pc = "idle"
    BY DEF Asked, Ready
  <1>2. ASSUME NEW pc
        PROVE  [request[b] EXCEPT !.pc = pc].pc = pc
    BY <1>1 DEF Requests
  <1>3. ASSUME NEW pc, NEW op, NEW u, NEW role, NEW on
        PROVE  /\ [Ready EXCEPT !.pc = pc, !.op = op, !.user = u, !.role = role].pc = pc
               /\ [Ready EXCEPT !.pc = pc, !.op = op, !.user = u, !.on = on].pc = pc
               /\ [Ready EXCEPT !.pc = pc, !.op = op, !.user = u].pc = pc
    BY DEF Ready
  <1>4. CASE StaffStep(b)
    BY <1>1, <1>2, <1>4 DEF StaffStep, LookUpUser, InsertUser, WriteActive, InsertSession, Proceed, Answer
  <1>5. ASSUME NEW u \in Users, Setup(b, u) \/ Login(b, u)
        PROVE  UNCHANGED <<log, event>> /\ \A a \in Browsers : request'[a] = request[a] \/ request'[a].pc # "event"
    <2>1. CASE Setup(b, u)
      BY <1>1, <1>3, <2>1 DEF Setup, Proceed
    <2>2. CASE Login(b, u)
      BY <1>1, <1>3, <2>2 DEF Login, Proceed
    <2>3. QED
      BY <1>5, <2>1, <2>2
  <1>6. ASSUME NEW u \in Users, NEW on \in BOOLEAN, SetUserActive(b, u, on)
        PROVE  UNCHANGED <<log, event>> /\ \A a \in Browsers : request'[a] = request[a] \/ request'[a].pc # "event"
    BY <1>1, <1>3, <1>6 DEF SetUserActive, Proceed
  <1>7. ASSUME NEW u \in Users, NEW role \in {"platform_admin", "reviewer"}, AddUser(b, u, role)
        PROVE  UNCHANGED <<log, event>> /\ \A a \in Browsers : request'[a] = request[a] \/ request'[a].pc # "event"
    BY <1>1, <1>3, <1>7 DEF AddUser, Proceed
  <1>8. QED
    BY <1>4, <1>5, <1>6, <1>7 DEF StaffRequest, Logout

LEMMA CountStep == CountInv /\ [AccountNext /\ NoReset']_accountVars => CountInv'
  <1>1. SUFFICES ASSUME CountInv, [AccountNext /\ NoReset']_accountVars
                 PROVE  CountInv'
    OBVIOUS
  <1>2. AccountInv /\ Asked /\ AccountInv' /\ NoReset'
    BY <1>1, AccountInvStep DEF CountInv, AccountInv, NoReset, accountVars
  <1>3. CASE UNCHANGED accountVars
    BY <1>1, <1>2, <1>3, CountFrame DEF accountVars
  <1>4. ASSUME NEW b \in Browsers, StaffStep(b) \/ StaffRequest(b)
        PROVE  CountInv'
    BY <1>1, <1>2, <1>4, StaffMoves, CountFrame
  <1>5. ASSUME NEW b \in Browsers, CitizenStep(b)
        PROVE  CountInv'
    <2>1. CASE LogDownload(b)
      BY <1>1, <1>2, <2>1, CountDownload
    <2>2. CASE LogEvent(b)
      BY <1>1, <1>2, <2>2, CountEvent
    <2>3. CASE InsertCitizen(b) \/ InsertVisit(b) \/ ToggleSaved(b) \/ ResetOwners(b)
      <3>1. UNCHANGED <<log, event>>
        BY <2>3 DEF InsertCitizen, InsertVisit, ToggleSaved, ResetOwners
      <3>2. QED
        BY <1>1, <1>2, <2>3, <3>1, Moves, CountFrame
    <2>4. CASE ResetActivity(b)
      <3>1. request[b].op = "reset"
        BY <1>2, <2>4 DEF Asked, Fits, Resetting, ResetActivity, Then, Doing
      <3>2. QED
        BY <1>1, <3>1 DEF CountInv, NoReset
    <2>5. QED
      BY <1>5, <2>1, <2>2, <2>3, <2>4 DEF CitizenStep
  <1>6. ASSUME NEW b \in Browsers, KeyRequest(b) \/ CitizenRequest(b) \/ Expire(b) \/ Reset(b)
        PROVE  CountInv'
    <2>1. UNCHANGED <<log, event>>
      BY <1>6 DEF KeyRequest, GenerateKey, VerifyKey, RevokeKey, CitizenRequest, Register, CitizenLogin, IsSaved, Download,
                  SaveSearch, DeleteSavedSearch, CitizenLogout, Expire, Reset
    <2>2. QED
      BY <1>1, <1>2, <1>6, <2>1, Moves, CountFrame
  <1>7. ASSUME NEW r \in Records, Publish(r)
        PROVE  CountInv'
    BY <1>1, <1>2, <1>7, CountFrame DEF Publish
  <1>8. CASE Restart
    <2>1. UNCHANGED <<log, event>> /\ \A b \in Browsers : request'[b].pc # "event"
      BY <1>8 DEF Restart, Ready
    <2>2. QED
      BY <1>1, <1>2, <2>1, CountFrame
  <1>9. CASE DatabaseLost
    <2>1. ASSUME NEW r \in Records
          PROVE  Covered(r)'
      <3>1. EventsOf(r)' = {} /\ LogsOf(r)' = {} /\ PendingOfOrder(r)' = {}
        BY <1>9 DEF DatabaseLost, EventsOf, LogsOf, PendingOfOrder, Ready
      <3>2. QED
        BY <3>1, FS_EmptySet DEF Covered
    <2>2. QED
      BY <1>2, <2>1 DEF CountInv
  <1>10. QED
    BY <1>1, <1>2, <1>3, <1>4, <1>5, <1>6, <1>7, <1>8, <1>9, CountPurge DEF AccountNext

LEMMA CountInitInv == AccountInit => CountInv
  <1>1. SUFFICES ASSUME AccountInit
                 PROVE  CountInv
    OBVIOUS
  <1>2. NoReset
    BY <1>1 DEF AccountInit, NoReset, Ready
  <1>3. ASSUME NEW r \in Records
        PROVE  Covered(r)
    <2>1. EventsOf(r) = {} /\ LogsOf(r) = {} /\ PendingOfOrder(r) = {}
      BY <1>1 DEF AccountInit, EventsOf, LogsOf, PendingOfOrder, Ready
    <2>2. QED
      BY <2>1, FS_EmptySet DEF Covered
  <1>4. QED
    BY <1>1, <1>2, <1>3, AccountInitInv DEF CountInv

\* Between two resets no more downloads of an order are counted than citizens are logged with, whatever requests
\* interleave, stop half-way or lose the event, and whatever is purged.
THEOREM OnlyCitizensCount == CountingSpec => []OnlyCitizensCounted
  <1>1. CountInv => OnlyCitizensCounted
    <2>1. SUFFICES ASSUME CountInv, NEW r \in Records
                   PROVE  Cardinality(EventsOf(r)) <= Cardinality(LogsOf(r))
      BY DEF OnlyCitizensCounted, EventsOf, LogsOf
    <2>2. /\ Cardinality(EventsOf(r)) \in Nat /\ Cardinality(LogsOf(r)) \in Nat
          /\ Cardinality(PendingOfOrder(r)) \in Nat
      BY <2>1, AllFinite DEF CountInv
    <2>3. Covered(r)
      BY <2>1 DEF CountInv
    <2>4. QED
      BY <2>2, <2>3 DEF Covered
  <1>2. CountingSpec => []CountInv
    BY CountInitInv, CountStep, PTL DEF CountingSpec
  <1>3. QED
    BY <1>1, <1>2, PTL

-----------------------------------------------------------------------------
(* Evaluation.                                                             *)

Found == [Fields -> MachineRows \cup {None}]
Notes == [doc : Docs, field : Fields, value : Values \cup {None}, next : Nat]
Marks == [doc : Docs, field : Fields, expected : Values \cup {None}, actual : MachineRows \cup {None}]
Chores == {"free", "insert_golden", "insert_annotation", "supersede", "look_up_record", "insert_record", "insert_field",
           "annotations", "load", "failures", "calibrate"}
Jobs == [pc : Chores, op : {"none", "golden", "annotate", "ingest", "benchmark"}, doc : Docs \cup {None},
         field : Fields \cup {None}, value : Values \cup {None} \cup Found, current : Nat, run : Nat,
         todo : SUBSET (Docs \cup Marks), expected : {None} \cup [Fields -> Values \cup {None}],
         marks : SUBSET Marks, scored : Nat, skipped : Nat]

\* Annotation i is about the field of the job.
About(j, i) == i \in DOMAIN annotation /\ annotation[i].doc = j.doc /\ annotation[i].field = j.field

\* A document on its way through the extractor.
OnItsWay(j) ==
    /\ j.doc \in text
    /\ j.op = "benchmark" => j.expected \in [Fields -> Values \cup {None}] /\ j.todo \subseteq Docs

\* What a job has found out, and what no other job takes back.
Holds(j) ==
    /\ j.pc = "insert_golden" => j.doc \in Docs
    /\ j.pc = "insert_annotation" =>
          /\ j.doc \in golden /\ j.field \in Fields /\ j.value \in Values \cup {None}
          /\ j.current # 0 => About(j, j.current)
    /\ j.pc = "supersede" => About(j, j.current) /\ About(j, j.run) /\ j.current < j.run
    /\ j.pc \in {"look_up_record", "insert_record"} => OnItsWay(j)
    /\ j.pc = "insert_field" => OnItsWay(j) /\ row[j.doc] # None /\ j.value \in Found
    /\ j.pc = "load" => OnItsWay(j) /\ row[j.doc] # None /\ j.op = "benchmark"
    /\ j.pc = "annotations" => j.todo \subseteq Docs /\ j.op = "benchmark"
    /\ j.pc = "failures" => j.run \in DOMAIN runs /\ j.todo \subseteq Marks
    /\ j.pc = "calibrate" => j.run \in DOMAIN runs /\ j.todo \subseteq {m \in Marks : m.actual # None}

Working == job \in [Workers -> Jobs] /\ \A w \in Workers : Holds(job[w])

\* What is superseded is so by a later annotation of the same field.
Chain ==
    \A i \in DOMAIN annotation :
        /\ annotation[i].doc \in golden
        /\ annotation[i].next # 0 =>
              /\ annotation[i].next \in DOMAIN annotation /\ annotation[i].next > i
              /\ annotation[annotation[i].next].doc = annotation[i].doc
              /\ annotation[annotation[i].next].field = annotation[i].field
GoldenTables == golden \subseteq Docs /\ annotation \in Seq(Notes) /\ Chain
RowTables == text \subseteq Docs /\ row \in [Docs -> Found \cup {None}] /\ \A d \in Docs : row[d] # None => d \in text
RunTables ==
    /\ runs \in Seq({runs[i] : i \in DOMAIN runs})
    /\ \A x \in failure : x.run \in DOMAIN runs /\ x.type \in Types
    /\ \A x \in snapshot : x.run \in DOMAIN runs /\ x.bucket \in 0 .. 9
EvalInv == Working /\ GoldenTables /\ RowTables /\ RunTables

LEMMA EvalInvTypes == EvalInv => EvalTypeOK
  <1>1. SUFFICES ASSUME EvalInv
                 PROVE  EvalTypeOK
    OBVIOUS
  <1>2. ASSUME NEW i \in DOMAIN annotation
        PROVE  /\ annotation[i].doc \in golden /\ annotation[i].field \in Fields
               /\ annotation[i].value \in Values \cup {None} /\ annotation[i].next \in 0 .. Len(annotation)
    <2>1. annotation[i] \in Notes /\ DOMAIN annotation = 1 .. Len(annotation) /\ Len(annotation) \in Nat
      BY <1>1 DEF EvalInv, GoldenTables
    <2>2. annotation[i].doc \in golden /\ (annotation[i].next # 0 => annotation[i].next \in DOMAIN annotation)
      BY <1>1 DEF EvalInv, GoldenTables, Chain
    <2>3. QED
      BY <2>1, <2>2 DEF Notes
  <1>3. ASSUME NEW d \in Docs, row[d] # None
        PROVE  d \in text /\ row[d] \in Found
    BY <1>1, <1>3 DEF EvalInv, RowTables
  <1>4. QED
    BY <1>1, <1>2, <1>3 DEF EvalInv, GoldenTables, RowTables, RunTables, EvalTypeOK, Found

LEMMA UnemployedHolds == Unemployed \in Jobs /\ Holds(Unemployed)
  BY DEF Unemployed, Jobs, Chores, Holds

LEMMA EvalInitInv == EvalInit => EvalInv
  <1>1. SUFFICES ASSUME EvalInit
                 PROVE  EvalInv
    OBVIOUS
  <1>2. Working
    <2>1. job = [w \in Workers |-> Unemployed]
      BY <1>1 DEF EvalInit
    <2>2. job \in [Workers -> Jobs]
      BY <2>1, UnemployedHolds
    <2>3. ASSUME NEW w \in Workers
          PROVE  Holds(job[w])
      <3>1. job[w] = Unemployed
        BY <2>1
      <3>2. QED
        BY <3>1, UnemployedHolds
    <2>4. QED
      BY <2>2, <2>3 DEF Working
  <1>3. GoldenTables
    BY <1>1 DEF EvalInit, GoldenTables, Chain
  <1>4. RowTables
    BY <1>1 DEF EvalInit, RowTables
  <1>5. RunTables
    BY <1>1 DEF EvalInit, RunTables
  <1>6. QED
    BY <1>2, <1>3, <1>4, <1>5 DEF EvalInv

\* The tables only grow.
Grows ==
    /\ golden \subseteq golden' /\ text \subseteq text' /\ DOMAIN runs \subseteq DOMAIN runs'
    /\ \A d \in Docs : row[d] # None => row'[d] # None
    /\ \A i \in DOMAIN annotation : /\ i \in DOMAIN annotation'
                                    /\ annotation'[i].doc = annotation[i].doc /\ annotation'[i].field = annotation[i].field

LEMMA StillHolds ==
    ASSUME Grows, RowTables, NEW j \in Jobs, Holds(j)
    PROVE  Holds(j)'
  <1>1. \A i : About(j, i) => About(j, i)'
    BY DEF Grows, About
  <1>2. OnItsWay(j) => OnItsWay(j)' /\ j.doc \in Docs
    BY DEF Grows, OnItsWay, RowTables
  <1>3. QED
    BY <1>1, <1>2 DEF Holds, Grows

LEMMA OneJob ==
    ASSUME Working, Grows, RowTables, NEW w \in Workers, NEW j \in Jobs, job' = [job EXCEPT ![w] = j], Holds(j)'
    PROVE  Working'
  <1>1. job' \in [Workers -> Jobs] /\ job'[w] = j
    BY DEF Working
  <1>2. ASSUME NEW v \in Workers
        PROVE  Holds(job[v])'
    <2>1. CASE v = w
      <3>1. job'[v] = j
        BY <1>1, <2>1
      <3>2. QED
        BY <3>1
    <2>2. CASE v # w
      <3>1. job'[v] = job[v] /\ job[v] \in Jobs /\ Holds(job[v])
        BY <2>2 DEF Working
      <3>2. Holds(job[v])'
        BY <3>1, StillHolds
      <3>3. QED
        BY <3>2
    <2>3. QED
      BY <2>1, <2>2
  <1>3. QED
    BY <1>1, <1>2 DEF Working

LEMMA Finishes ==
    ASSUME Working, Grows, RowTables, NEW w \in Workers, Finish(w)
    PROVE  Working'
  <1>1. Holds(Unemployed)'
    BY DEF Holds, Unemployed
  <1>2. QED
    BY <1>1, UnemployedHolds, OneJob DEF Finish, Goto

LEMMA SameEvalTables ==
    /\ GoldenTables /\ UNCHANGED annotationTables => GoldenTables'
    /\ RowTables /\ UNCHANGED extractionTables => RowTables'
    /\ RunTables /\ UNCHANGED runTables => RunTables'
  BY DEF GoldenTables, Chain, RowTables, RunTables, annotationTables, extractionTables, runTables

LEMMA OnlyWorks ==
    ASSUME EvalInv, NEW w \in Workers, NEW j \in Jobs, job' = [job EXCEPT ![w] = j], Holds(j)',
           UNCHANGED <<annotationTables, extractionTables, runTables>>
    PROVE  EvalInv'
  <1>1. Grows
    BY DEF Grows, annotationTables, extractionTables, runTables
  <1>2. QED
    BY <1>1, OneJob, SameEvalTables DEF EvalInv

LEMMA WorkerHolds ==
    ASSUME EvalInv, NEW w \in Workers
    PROVE  job[w] \in Jobs /\ Holds(job[w]) /\ Working /\ GoldenTables /\ RowTables /\ RunTables
  BY DEF EvalInv, Working

LEMMA StepKilled ==
    ASSUME EvalInv, NEW w \in Workers, Killed(w)
    PROVE  EvalInv'
  <1>1. Holds(Unemployed)'
    BY DEF Holds, Unemployed
  <1>2. QED
    BY <1>1, UnemployedHolds, OnlyWorks DEF Killed, Finish, Goto

LEMMA StepLookUpGolden ==
    ASSUME EvalInv, NEW w \in Workers, NEW d \in Docs, LookUpGolden(w, d)
    PROVE  EvalInv'
  <1>1. PICK j : j = [Unemployed EXCEPT !.pc = "insert_golden", !.op = "golden", !.doc = d]
    OBVIOUS
  <1>2. j \in Jobs /\ j.pc = "insert_golden" /\ j.doc = d
    BY <1>1, UnemployedHolds, ZenonT(60) DEF Jobs, Chores
  <1>3. Holds(j)'
    BY <1>2 DEF Holds
  <1>4. QED
    BY <1>1, <1>2, <1>3, OnlyWorks DEF LookUpGolden, Goto

LEMMA StepFindCurrent ==
    ASSUME EvalInv, NEW w \in Workers, NEW d \in Docs, NEW f \in Fields, NEW v \in Values \cup {None},
           FindCurrent(w, d, f, v)
    PROVE  EvalInv'
  <1>1. PICK c \in IF Live(d, f) = {} THEN {0} ELSE Live(d, f) :
          Goto(w, [Unemployed EXCEPT !.pc = "insert_annotation", !.op = "annotate", !.doc = d, !.field = f,
                                     !.value = v, !.current = c])
    BY DEF FindCurrent
  <1>2. PICK j : j = [Unemployed EXCEPT !.pc = "insert_annotation", !.op = "annotate", !.doc = d, !.field = f,
                                        !.value = v, !.current = c]
    OBVIOUS
  <1>3. c \in Nat /\ (c # 0 => c \in DOMAIN annotation /\ annotation[c].doc = d /\ annotation[c].field = f)
    <2>1. DOMAIN annotation \subseteq Nat
      BY DEF EvalInv, GoldenTables
    <2>2. QED
      BY <1>1, <2>1 DEF Live
  <1>4. /\ j \in Jobs /\ j.pc = "insert_annotation" /\ j.doc = d /\ j.field = f /\ j.value = v /\ j.current = c
    BY <1>2, <1>3, UnemployedHolds, ZenonT(60) DEF Jobs, Chores
  <1>5. d \in golden /\ UNCHANGED <<annotationTables, extractionTables, runTables>>
    BY DEF FindCurrent
  <1>6. Holds(j)'
    BY <1>3, <1>4, <1>5 DEF Holds, About, annotationTables
  <1>7. QED
    BY <1>1, <1>2, <1>4, <1>5, <1>6, OnlyWorks DEF Goto

LEMMA StepBeginBenchmark ==
    ASSUME EvalInv, NEW w \in Workers, BeginBenchmark(w)
    PROVE  EvalInv'
  <1>1. PICK j : j = [Unemployed EXCEPT !.pc = "annotations", !.op = "benchmark", !.todo = golden]
    OBVIOUS
  <1>2. golden \subseteq Docs
    BY DEF EvalInv, GoldenTables
  <1>3. j \in Jobs /\ j.pc = "annotations" /\ j.todo = golden /\ j.op = "benchmark"
    BY <1>1, <1>2, UnemployedHolds, ZenonT(60) DEF Jobs, Chores
  <1>4. Holds(j)'
    BY <1>2, <1>3 DEF Holds
  <1>5. QED
    BY <1>1, <1>3, <1>4, OnlyWorks DEF BeginBenchmark, Goto

LEMMA NatLeast ==
    ASSUME NEW S \in SUBSET Nat, S # {}
    PROVE  \E m \in S : \A k \in S : m <= k
  <1>1. OpToRel(<, Nat) = {z \in Nat \X Nat : z[1] < z[2]}
    BY DEF OpToRel
  <1>2. PICK R : R = {z \in Nat \X Nat : z[1] < z[2]} /\ IsWellFoundedOn(R, Nat)
    BY <1>1, NatLessThanWellFounded, Zenon
  <1>3. PICK x \in S : \A y \in S : ~ (<<y, x>> \in R)
    BY <1>2, WFMin
  <1>4. \A y \in S : x <= y
    <2>1. ASSUME NEW y \in S, y < x
          PROVE  <<y, x>> \in R
      BY <1>2, <2>1
    <2>2. \A y \in S : x \in Nat /\ y \in Nat /\ ~ (y < x)
      BY <1>3, <2>1
    <2>3. QED
      BY <2>2
  <1>5. QED
    BY <1>4

\* The newest of the annotations in force is one of them.
LEMMA LargestMember ==
    ASSUME NEW n \in Nat, NEW S \in SUBSET (1 .. n), S # {}
    PROVE  Max(S) \in S /\ \E y \in S : \A z \in S : z <= y
  <1>1. PICK x \in S : TRUE
    OBVIOUS
  <1>2. DEFINE T == {n - y : y \in S}
  <1>3. T \in SUBSET Nat /\ n - x \in T
    OBVIOUS
  <1>4. PICK m \in T : \A k \in T : m <= k
    BY <1>3, NatLeast
  <1>5. PICK y \in S : m = n - y
    BY <1>4
  <1>6. \A z \in S : y >= z
    <2>1. ASSUME NEW z \in S
          PROVE  y >= z
      <3>1. n - y <= n - z
        BY <1>4, <1>5
      <3>2. y \in Int /\ z \in Int /\ n \in Int
        OBVIOUS
      <3>3. QED
        BY <3>1, <3>2
    <2>2. QED
      BY <2>1
  <1>7. \A z \in S : z <= y
    BY <1>6
  <1>8. QED
    BY <1>6, <1>7 DEF Max

LEMMA AnnotationsType ==
    ASSUME GoldenTables, NEW d \in Docs, Complete(d)
    PROVE  Annotations(d) \in [Fields -> Values \cup {None}]
  <1>1. {g \in Fields : Live(d, g) # {}} = Fields
    BY DEF Complete
  <1>2. ASSUME NEW f \in Fields
        PROVE  annotation[Max(Live(d, f))].value \in Values \cup {None}
    <2>1. Live(d, f) \in SUBSET (1 .. Len(annotation)) /\ Live(d, f) # {} /\ Len(annotation) \in Nat
      BY DEF Live, GoldenTables, Complete
    <2>2. PICK i : i = Max(Live(d, f))
      OBVIOUS
    <2>3. i \in DOMAIN annotation
      BY <2>1, <2>2, LargestMember DEF Live
    <2>4. annotation[i] \in Notes
      BY <2>3 DEF GoldenTables
    <2>5. QED
      BY <2>2, <2>4 DEF Notes
  <1>3. QED
    BY <1>1, <1>2 DEF Annotations

LEMMA StepReadAnnotations ==
    ASSUME EvalInv, NEW w \in Workers, NEW d \in Docs, ReadAnnotations(w, d)
    PROVE  EvalInv'
  <1>1. /\ job[w] \in Jobs /\ Holds(job[w]) /\ job[w].pc = "annotations" /\ job[w].todo \subseteq Docs
        /\ job[w].op = "benchmark" /\ GoldenTables
        /\ UNCHANGED <<annotationTables, extractionTables, runTables>> /\ text' = text
    BY WorkerHolds DEF ReadAnnotations, At, Holds, extractionTables
  <1>2. CASE Complete(d) /\ d \in text
    <2>1. PICK j, e : /\ e = Annotations(d)
                      /\ j = [job[w] EXCEPT !.pc = "look_up_record", !.doc = d, !.todo = @ \ {d}, !.expected = e]
      OBVIOUS
    <2>2. e \in [Fields -> Values \cup {None}]
      BY <1>1, <1>2, <2>1, AnnotationsType
    <2>3. job[w].todo \ {d} \subseteq Docs
      BY <1>1
    <2>4. /\ j \in Jobs /\ j.pc = "look_up_record" /\ j.doc = d /\ j.expected = e /\ j.todo \subseteq Docs
      BY <1>1, <2>1, <2>2, <2>3, ZenonT(60) DEF Jobs, Chores
    <2>5. Holds(j)'
      BY <1>1, <1>2, <2>2, <2>4 DEF Holds, OnItsWay
    <2>6. QED
      BY <1>1, <1>2, <2>1, <2>4, <2>5, OnlyWorks DEF ReadAnnotations, Goto
  <1>3. CASE ~ (Complete(d) /\ d \in text)
    <2>1. PICK j : j = [job[w] EXCEPT !.todo = @ \ {d}, !.skipped = @ + 1]
      OBVIOUS
    <2>2. job[w].todo \ {d} \subseteq Docs /\ job[w].skipped + 1 \in Nat
      BY <1>1 DEF Jobs
    <2>3. j \in Jobs /\ j.pc = "annotations" /\ j.todo \subseteq Docs /\ j.op = "benchmark"
      BY <1>1, <2>1, <2>2, ZenonT(60) DEF Jobs, Chores
    <2>4. Holds(j)'
      BY <2>3 DEF Holds
    <2>5. QED
      BY <1>1, <1>3, <2>1, <2>3, <2>4, OnlyWorks DEF ReadAnnotations, Goto
  <1>4. QED
    BY <1>2, <1>3

LEMMA StepInsertGolden ==
    ASSUME EvalInv, NEW w \in Workers, InsertGolden(w)
    PROVE  EvalInv'
  <1>1. /\ Holds(job[w]) /\ Working /\ GoldenTables /\ RowTables /\ RunTables /\ job[w].doc \in Docs
        /\ UNCHANGED <<annotation, extractionTables, runTables>> /\ golden' = golden \cup {job[w].doc} /\ Finish(w)
    BY WorkerHolds DEF InsertGolden, At, Holds
  <1>2. GoldenTables'
    BY <1>1 DEF GoldenTables, Chain
  <1>3. Grows
    BY <1>1 DEF Grows, extractionTables, runTables
  <1>4. QED
    BY <1>1, <1>2, <1>3, Finishes, SameEvalTables DEF EvalInv

LEMMA StepInsertAnnotation ==
    ASSUME EvalInv, NEW w \in Workers, InsertAnnotation(w)
    PROVE  EvalInv'
  <1>1. /\ job[w] \in Jobs /\ Holds(job[w]) /\ Working /\ GoldenTables /\ RowTables /\ RunTables
        /\ job[w].pc = "insert_annotation" /\ UNCHANGED <<golden, extractionTables, runTables>>
    BY WorkerHolds DEF InsertAnnotation, At
  <1>2. PICK note : note = [doc |-> job[w].doc, field |-> job[w].field, value |-> job[w].value, next |-> 0]
    OBVIOUS
  <1>3. /\ job[w].doc \in golden /\ job[w].doc \in Docs /\ job[w].field \in Fields
        /\ job[w].value \in Values \cup {None} /\ (job[w].current # 0 => About(job[w], job[w].current))
    BY <1>1 DEF Holds, GoldenTables
  <1>4. note \in Notes /\ note.doc = job[w].doc /\ note.field = job[w].field /\ note.next = 0
    BY <1>2, <1>3 DEF Notes
  <1>5. annotation' = Append(annotation, note)
    BY <1>2 DEF InsertAnnotation
  <1>6. /\ annotation' \in Seq(Notes) /\ Len(annotation) \in Nat /\ DOMAIN annotation = 1 .. Len(annotation)
        /\ DOMAIN annotation' = 1 .. (Len(annotation) + 1) /\ annotation'[Len(annotation) + 1] = note
        /\ \A i \in DOMAIN annotation : annotation'[i] = annotation[i]
    BY <1>1, <1>4, <1>5 DEF GoldenTables
  <1>7. Grows
    BY <1>1, <1>6 DEF Grows, extractionTables, runTables
  <1>8. Chain'
    <2>1. ASSUME NEW i \in DOMAIN annotation'
          PROVE  /\ annotation'[i].doc \in golden
                 /\ annotation'[i].next # 0 =>
                      /\ annotation'[i].next \in DOMAIN annotation' /\ annotation'[i].next > i
                      /\ annotation'[annotation'[i].next].doc = annotation'[i].doc
                      /\ annotation'[annotation'[i].next].field = annotation'[i].field
      <3>1. CASE i = Len(annotation) + 1
        BY <1>3, <1>4, <1>6, <3>1
      <3>2. CASE i # Len(annotation) + 1
        <4>1. i \in DOMAIN annotation
          BY <1>6, <3>2
        <4>2. /\ annotation[i].doc \in golden
              /\ annotation[i].next # 0 =>
                   /\ annotation[i].next \in DOMAIN annotation /\ annotation[i].next > i
                   /\ annotation[annotation[i].next].doc = annotation[i].doc
                   /\ annotation[annotation[i].next].field = annotation[i].field
          BY <1>1, <4>1 DEF GoldenTables, Chain
        <4>3. QED
          BY <1>6, <4>1, <4>2
      <3>3. QED
        BY <3>1, <3>2
    <2>2. QED
      BY <1>1, <2>1 DEF Chain
  <1>9. GoldenTables'
    BY <1>1, <1>6, <1>8 DEF GoldenTables
  <1>10. Working'
    <2>1. CASE job[w].current = 0
      BY <1>1, <1>7, <2>1, Finishes DEF InsertAnnotation
    <2>2. CASE job[w].current # 0
      <3>1. PICK j : j = [job[w] EXCEPT !.pc = "supersede", !.run = Len(annotation) + 1]
        OBVIOUS
      <3>2. Len(annotation) + 1 \in Nat
        BY <1>6
      <3>3. /\ j \in Jobs /\ j.pc = "supersede" /\ j.run = Len(annotation) + 1 /\ j.current = job[w].current
            /\ j.doc = job[w].doc /\ j.field = job[w].field
        BY <1>1, <3>1, <3>2, ZenonT(60) DEF Jobs, Chores
      <3>4. job[w].current \in DOMAIN annotation /\ About(job[w], job[w].current)
        BY <1>3, <2>2 DEF About
      <3>5. j.current < j.run
        BY <1>6, <3>3, <3>4
      <3>6. About(j, j.current)' /\ About(j, j.run)'
        BY <1>4, <1>6, <3>3, <3>4 DEF About
      <3>7. Holds(j)'
        BY <3>3, <3>5, <3>6 DEF Holds
      <3>8. QED
        BY <1>1, <1>7, <2>2, <3>1, <3>3, <3>7, OneJob DEF InsertAnnotation, Goto
    <2>3. QED
      BY <2>1, <2>2
  <1>11. QED
    BY <1>1, <1>9, <1>10, SameEvalTables DEF EvalInv

LEMMA StepSupersedeAnnotation ==
    ASSUME EvalInv, NEW w \in Workers, SupersedeAnnotation(w)
    PROVE  EvalInv'
  <1>1. /\ job[w] \in Jobs /\ Working /\ GoldenTables /\ RowTables /\ RunTables
        /\ UNCHANGED <<golden, extractionTables, runTables>> /\ Finish(w)
        /\ About(job[w], job[w].current) /\ About(job[w], job[w].run) /\ job[w].current < job[w].run
    BY WorkerHolds DEF SupersedeAnnotation, At, Holds
  <1>2. PICK c, k, note : c = job[w].current /\ k = job[w].run /\ note = [annotation[c] EXCEPT !.next = k]
    OBVIOUS
  <1>3. /\ c \in DOMAIN annotation /\ k \in DOMAIN annotation /\ c < k /\ annotation[c].doc = annotation[k].doc
        /\ annotation[c].field = annotation[k].field /\ annotation \in Seq(Notes) /\ k \in Nat
    BY <1>1, <1>2 DEF About, GoldenTables, Jobs
  <1>4. note \in Notes /\ note.doc = annotation[c].doc /\ note.field = annotation[c].field /\ note.next = k
    <2>1. annotation[c] \in Notes
      BY <1>3
    <2>2. QED
      BY <1>2, <1>3, <2>1 DEF Notes
  <1>5. annotation' = [i \in DOMAIN annotation |-> IF i = c THEN note ELSE annotation[i]]
    BY <1>2 DEF SupersedeAnnotation, Superseded
  <1>6. annotation' \in Seq(Notes) /\ DOMAIN annotation' = DOMAIN annotation
    <2>1. annotation' = [annotation EXCEPT ![c] = note]
      BY <1>3, <1>5
    <2>2. c \in 1 .. Len(annotation)
      BY <1>3
    <2>3. QED
      BY <1>3, <1>4, <2>1, <2>2, ExceptSeq
  <1>7. annotation'[c] = note /\ \A i \in DOMAIN annotation \ {c} : annotation'[i] = annotation[i]
    BY <1>3, <1>5
  <1>8. /\ \A i \in DOMAIN annotation : annotation'[i].doc = annotation[i].doc /\ annotation'[i].field = annotation[i].field
        /\ \A i \in DOMAIN annotation : annotation'[i].next = IF i = c THEN k ELSE annotation[i].next
    BY <1>4, <1>7
  <1>9. Grows
    BY <1>1, <1>6, <1>8 DEF Grows, extractionTables, runTables
  <1>10. Chain'
    <2>1. ASSUME NEW i \in DOMAIN annotation
          PROVE  /\ annotation'[i].doc \in golden
                 /\ annotation'[i].next # 0 =>
                      /\ annotation'[i].next \in DOMAIN annotation /\ annotation'[i].next > i
                      /\ annotation'[annotation'[i].next].doc = annotation'[i].doc
                      /\ annotation'[annotation'[i].next].field = annotation'[i].field
      <3>1. /\ annotation[i].doc \in golden
            /\ annotation[i].next # 0 =>
                 /\ annotation[i].next \in DOMAIN annotation /\ annotation[i].next > i
                 /\ annotation[annotation[i].next].doc = annotation[i].doc
                 /\ annotation[annotation[i].next].field = annotation[i].field
        BY <1>1 DEF GoldenTables, Chain
      <3>2. CASE i = c
        <4>1. k > i
          BY <1>3, <3>2
        <4>2. annotation'[i].next = k
          BY <1>8, <3>2
        <4>3. QED
          BY <1>3, <1>8, <3>1, <3>2, <4>1, <4>2
      <3>3. CASE i # c
        BY <1>8, <3>1, <3>3
      <3>4. QED
        BY <3>2, <3>3
    <2>2. QED
      BY <1>1, <1>6, <2>1 DEF Chain
  <1>11. GoldenTables'
    BY <1>1, <1>6, <1>10 DEF GoldenTables
  <1>12. QED
    BY <1>1, <1>9, <1>11, Finishes, SameEvalTables DEF EvalInv

LEMMA StepIngest ==
    ASSUME EvalInv, NEW w \in Workers, NEW d \in Docs, Ingest(w, d)
    PROVE  EvalInv'
  <1>1. /\ Working /\ GoldenTables /\ RowTables /\ RunTables /\ text' = text \cup {d}
        /\ UNCHANGED <<annotationTables, row, runTables>>
    BY WorkerHolds DEF Ingest
  <1>2. PICK j : j = [Unemployed EXCEPT !.pc = "look_up_record", !.op = "ingest", !.doc = d]
    OBVIOUS
  <1>3. j \in Jobs /\ j.pc = "look_up_record" /\ j.doc = d /\ j.op = "ingest"
    BY <1>2, UnemployedHolds, ZenonT(60) DEF Jobs, Chores
  <1>4. Holds(j)'
    BY <1>1, <1>3 DEF Holds, OnItsWay
  <1>5. Grows /\ RowTables'
    BY <1>1 DEF Grows, annotationTables, runTables, RowTables
  <1>6. QED
    BY <1>1, <1>2, <1>3, <1>4, <1>5, OneJob, SameEvalTables DEF EvalInv, Ingest, Goto

\* The extractor has done with a document.
LEMMA StoredHolds ==
    ASSUME Working, Grows, RowTables, NEW w \in Workers, Stored(w), OnItsWay(job[w]), row'[job[w].doc] # None
    PROVE  Working'
  <1>1. job[w] \in Jobs
    BY DEF Working
  <1>2. CASE job[w].op = "benchmark"
    <2>1. PICK j : j = [job[w] EXCEPT !.pc = "load"]
      OBVIOUS
    <2>2. /\ j \in Jobs /\ j.pc = "load" /\ j.op = "benchmark" /\ j.doc = job[w].doc /\ j.expected = job[w].expected
          /\ j.todo = job[w].todo
      BY <1>1, <1>2, <2>1 DEF Jobs, Chores
    <2>3. OnItsWay(j)'
      BY <1>2, <2>2 DEF OnItsWay, Grows
    <2>4. Holds(j)'
      BY <2>2, <2>3 DEF Holds
    <2>5. QED
      BY <1>2, <2>1, <2>2, <2>4, OneJob DEF Stored, Goto
  <1>3. CASE job[w].op # "benchmark"
    BY <1>3, Finishes DEF Stored
  <1>4. QED
    BY <1>2, <1>3

LEMMA StepLookUpRecord ==
    ASSUME EvalInv, NEW w \in Workers, LookUpRecord(w)
    PROVE  EvalInv'
  <1>1. /\ job[w] \in Jobs /\ Working /\ GoldenTables /\ RowTables /\ RunTables /\ OnItsWay(job[w])
        /\ UNCHANGED <<annotationTables, extractionTables, runTables>>
    BY WorkerHolds DEF LookUpRecord, At, Holds
  <1>2. Grows /\ UNCHANGED <<text, row>>
    BY <1>1 DEF Grows, annotationTables, extractionTables, runTables
  <1>3. CASE row[job[w].doc] # None
    BY <1>1, <1>2, <1>3, StoredHolds, SameEvalTables DEF EvalInv, LookUpRecord
  <1>4. CASE row[job[w].doc] = None
    <2>1. PICK j : j = [job[w] EXCEPT !.pc = "insert_record"]
      OBVIOUS
    <2>2. /\ j \in Jobs /\ j.pc = "insert_record" /\ j.op = job[w].op /\ j.doc = job[w].doc
          /\ j.expected = job[w].expected /\ j.todo = job[w].todo
      BY <1>1, <2>1 DEF Jobs, Chores
    <2>3. Holds(j)'
      BY <1>1, <1>2, <2>2 DEF Holds, OnItsWay
    <2>4. QED
      BY <1>1, <1>4, <2>1, <2>2, <2>3, OnlyWorks DEF LookUpRecord, Goto
  <1>5. QED
    BY <1>3, <1>4

LEMMA StepInsertRecord ==
    ASSUME EvalInv, NEW w \in Workers, InsertRecord(w)
    PROVE  EvalInv'
  <1>1. /\ job[w] \in Jobs /\ Working /\ GoldenTables /\ RowTables /\ RunTables /\ OnItsWay(job[w])
        /\ UNCHANGED <<annotationTables, text, runTables>> /\ job[w].doc \in text /\ job[w].doc \in Docs
    BY WorkerHolds DEF InsertRecord, At, Holds, OnItsWay, RowTables
  <1>2. CASE row[job[w].doc] # None
    <2>1. Grows /\ RowTables' /\ Finish(w)
      BY <1>1, <1>2 DEF InsertRecord, Grows, annotationTables, runTables, RowTables
    <2>2. QED
      BY <1>1, <2>1, Finishes, SameEvalTables DEF EvalInv
  <1>3. CASE row[job[w].doc] = None
    <2>1. PICK empty : empty = [f \in Fields |-> None]
      OBVIOUS
    <2>2. empty \in Found /\ empty # None
      BY <2>1, EvalAssumption DEF Found, MachineRows
    <2>3. row' = [row EXCEPT ![job[w].doc] = empty]
      BY <1>3, <2>1 DEF InsertRecord
    <2>4. RowTables' /\ row'[job[w].doc] # None
      BY <1>1, <2>2, <2>3 DEF RowTables
    <2>5. Grows
      BY <1>1, <2>2, <2>3 DEF Grows, annotationTables, runTables, RowTables
    <2>6. PICK found \in Findings : Goto(w, [job[w] EXCEPT !.pc = "insert_field", !.value = found])
      BY <1>3 DEF InsertRecord
    <2>7. PICK j : j = [job[w] EXCEPT !.pc = "insert_field", !.value = found]
      OBVIOUS
    <2>8. found \in Found
      BY <2>6, EvalAssumption DEF Found, MachineRows
    <2>9. /\ j \in Jobs /\ j.pc = "insert_field" /\ j.op = job[w].op /\ j.doc = job[w].doc
          /\ j.expected = job[w].expected /\ j.todo = job[w].todo /\ j.value = found
      BY <1>1, <2>7, <2>8, ZenonT(60) DEF Jobs, Chores
    <2>10. Holds(j)'
      BY <1>1, <2>4, <2>8, <2>9 DEF Holds, OnItsWay
    <2>11. QED
      BY <1>1, <2>4, <2>5, <2>6, <2>7, <2>9, <2>10, OneJob, SameEvalTables DEF EvalInv, Goto
  <1>4. QED
    BY <1>2, <1>3

LEMMA StepInsertField ==
    ASSUME EvalInv, NEW w \in Workers, InsertField(w)
    PROVE  EvalInv'
  <1>1. /\ job[w] \in Jobs /\ Working /\ GoldenTables /\ RowTables /\ RunTables /\ OnItsWay(job[w])
        /\ row[job[w].doc] # None /\ job[w].value \in Found /\ job[w].pc = "insert_field"
        /\ UNCHANGED <<annotationTables, text, runTables>> /\ job[w].doc \in text /\ job[w].doc \in Docs
    BY WorkerHolds DEF InsertField, At, Holds, OnItsWay, RowTables
  <1>2. CASE {f \in Fields : job[w].value[f] # None} = {}
    <2>1. Grows /\ Stored(w) /\ row' = row
      BY <1>1, <1>2 DEF InsertField, Grows, annotationTables, runTables
    <2>2. RowTables' /\ row'[job[w].doc] # None
      BY <1>1, <2>1 DEF RowTables
    <2>3. QED
      BY <1>1, <2>1, <2>2, StoredHolds, SameEvalTables DEF EvalInv
  <1>3. CASE {f \in Fields : job[w].value[f] # None} # {}
    <2>1. PICK f \in Fields : /\ row' = [row EXCEPT ![job[w].doc][f] = job[w].value[f]]
                              /\ Goto(w, [job[w] EXCEPT !.value[f] = None])
      BY <1>3 DEF InsertField
    <2>2. PICK cells, rest : /\ cells = [row[job[w].doc] EXCEPT ![f] = job[w].value[f]]
                             /\ rest = [job[w].value EXCEPT ![f] = None]
      OBVIOUS
    <2>3. row[job[w].doc] \in Found
      BY <1>1 DEF RowTables
    <2>4. cells \in Found /\ rest \in Found
      BY <1>1, <2>1, <2>2, <2>3 DEF Found
    <2>5. cells # None
      BY <2>4, EvalAssumption DEF Found, MachineRows
    <2>6. row' = [row EXCEPT ![job[w].doc] = cells]
      BY <2>1, <2>2
    <2>7. RowTables' /\ row'[job[w].doc] # None
      BY <1>1, <2>4, <2>5, <2>6 DEF RowTables
    <2>8. Grows
      BY <1>1, <2>5, <2>6 DEF Grows, annotationTables, runTables, RowTables
    <2>9. PICK j : j = [job[w] EXCEPT !.value = rest]
      OBVIOUS
    <2>10. /\ j \in Jobs /\ j.pc = "insert_field" /\ j.op = job[w].op /\ j.doc = job[w].doc
           /\ j.expected = job[w].expected /\ j.todo = job[w].todo /\ j.value = rest
      BY <1>1, <2>4, <2>9, ZenonT(60) DEF Jobs
    <2>11. Holds(j)'
      BY <1>1, <2>4, <2>7, <2>10 DEF Holds, OnItsWay
    <2>12. job' = [job EXCEPT ![w] = j]
      BY <2>1, <2>2, <2>9 DEF Goto
    <2>13. QED
      BY <1>1, <2>7, <2>8, <2>10, <2>11, <2>12, OneJob, SameEvalTables DEF EvalInv
  <1>4. QED
    BY <1>2, <1>3

LEMMA StepCorrect ==
    ASSUME EvalInv, NEW w \in Workers, NEW d \in Docs, NEW f \in Fields, NEW v \in Values, Correct(w, d, f, v)
    PROVE  EvalInv'
  <1>1. /\ Working /\ GoldenTables /\ RowTables /\ RunTables /\ row[d] # None
        /\ UNCHANGED <<annotationTables, text, runTables, job>>
    BY WorkerHolds DEF Correct
  <1>2. PICK cell, cells : /\ cell = [value |-> v, confidence |-> 100, cited |-> FALSE]
                           /\ cells = [row[d] EXCEPT ![f] = cell]
    OBVIOUS
  <1>3. cell \in MachineRows /\ row[d] \in Found
    BY <1>1, <1>2 DEF MachineRows, RowTables
  <1>4. cells \in Found
    BY <1>2, <1>3 DEF Found
  <1>5. cells # None /\ row' = [row EXCEPT ![d] = cells]
    BY <1>2, <1>4, EvalAssumption DEF Found, MachineRows, Correct
  <1>6. RowTables'
    BY <1>1, <1>4, <1>5 DEF RowTables
  <1>7. Grows
    BY <1>1, <1>5 DEF Grows, annotationTables, runTables, RowTables
  <1>8. Working'
    <2>1. ASSUME NEW x \in Workers
          PROVE  Holds(job[x])'
      <3>1. job'[x] = job[x] /\ job[x] \in Jobs /\ Holds(job[x])
        BY <1>1 DEF Working
      <3>2. Holds(job[x])'
        BY <1>1, <1>7, <3>1, StillHolds
      <3>3. QED
        BY <3>2
    <2>2. QED
      BY <1>1, <2>1 DEF Working
  <1>9. QED
    BY <1>1, <1>6, <1>8, SameEvalTables DEF EvalInv

LEMMA StepScore ==
    ASSUME EvalInv, NEW w \in Workers, Score(w)
    PROVE  EvalInv'
  <1>1. /\ job[w] \in Jobs /\ RowTables /\ OnItsWay(job[w]) /\ row[job[w].doc] # None /\ job[w].op = "benchmark"
        /\ UNCHANGED <<annotationTables, extractionTables, runTables>> /\ job[w].doc \in Docs
    BY WorkerHolds DEF Score, At, Holds, OnItsWay, RowTables
  <1>2. /\ row[job[w].doc] \in Found /\ job[w].expected \in [Fields -> Values \cup {None}] /\ job[w].todo \subseteq Docs
    BY <1>1 DEF RowTables, OnItsWay
  <1>3. PICK new : new = {[doc |-> job[w].doc, field |-> f, expected |-> job[w].expected[f],
                           actual |-> row[job[w].doc][f]] : f \in DOMAIN job[w].expected}
    OBVIOUS
  <1>4. new \subseteq Marks
    BY <1>1, <1>2, <1>3 DEF Marks, Found
  <1>5. PICK j : j = [job[w] EXCEPT !.pc = "annotations", !.scored = @ + 1, !.marks = @ \cup new]
    OBVIOUS
  <1>6. job[w].scored + 1 \in Nat /\ job[w].marks \cup new \in SUBSET Marks
    BY <1>1, <1>4 DEF Jobs
  <1>7. j \in Jobs /\ j.pc = "annotations" /\ j.todo = job[w].todo /\ j.op = job[w].op
    BY <1>1, <1>5, <1>6, ZenonT(60) DEF Jobs, Chores
  <1>8. Holds(j)'
    BY <1>1, <1>2, <1>7 DEF Holds
  <1>9. job' = [job EXCEPT ![w] = j]
    BY <1>3, <1>5 DEF Score, Goto
  <1>10. QED
    BY <1>1, <1>7, <1>8, <1>9, OnlyWorks

LEMMA StepInsertRun ==
    ASSUME EvalInv, NEW w \in Workers, InsertRun(w)
    PROVE  EvalInv'
  <1>1. /\ job[w] \in Jobs /\ Working /\ GoldenTables /\ RowTables /\ RunTables
        /\ UNCHANGED <<annotationTables, extractionTables, failure, snapshot, answered>>
    BY WorkerHolds DEF InsertRun
  <1>2. PICK x : runs' = Append(runs, x)
    BY DEF InsertRun
  <1>3. PICK j, wrong : /\ wrong = {m \in job[w].marks : Outcome(m) \in {"wrong", "missed", "hallucinated"}}
                        /\ j = [job[w] EXCEPT !.pc = "failures", !.run = Len(runs) + 1, !.doc = None, !.expected = None,
                                              !.todo = wrong]
    OBVIOUS
  <1>4. PICK S : S = {runs[i] : i \in DOMAIN runs}
    OBVIOUS
  <1>5. runs \in Seq(S) /\ Len(runs) \in Nat /\ DOMAIN runs = 1 .. Len(runs)
    BY <1>1, <1>4 DEF RunTables
  <1>6. runs \in Seq(S \cup {x})
    BY <1>5
  <1>7. /\ runs' \in Seq(S \cup {x}) /\ DOMAIN runs' = 1 .. (Len(runs) + 1) /\ Len(runs') = Len(runs) + 1
    BY <1>2, <1>6
  <1>8. runs' \in Seq({runs'[i] : i \in DOMAIN runs'})
    BY <1>5, <1>7
  <1>9. DOMAIN runs \subseteq DOMAIN runs' /\ Len(runs) + 1 \in DOMAIN runs' /\ Len(runs) + 1 \in Nat
    BY <1>5, <1>7
  <1>10. RunTables'
    BY <1>1, <1>8, <1>9 DEF RunTables
  <1>11. Grows
    BY <1>1, <1>9 DEF Grows, annotationTables, extractionTables
  <1>12. wrong \subseteq Marks
    BY <1>1, <1>3 DEF Jobs
  <1>13. j \in Jobs /\ j.pc = "failures" /\ j.run = Len(runs) + 1 /\ j.todo = wrong
    BY <1>1, <1>3, <1>9, <1>12, ZenonT(60) DEF Jobs, Chores
  <1>14. Holds(j)'
    BY <1>9, <1>12, <1>13 DEF Holds
  <1>15. job' = [job EXCEPT ![w] = j]
    BY <1>3 DEF InsertRun, Goto
  <1>16. QED
    BY <1>1, <1>10, <1>11, <1>13, <1>14, <1>15, OneJob, SameEvalTables DEF EvalInv

LEMMA FailureTypes == ASSUME NEW m \in Marks PROVE FailureType(m) \in Types
  <1>1. /\ Category[m.doc].scanned \in BOOLEAN /\ Category[m.doc].tamil \in BOOLEAN /\ Category[m.doc].tables \in BOOLEAN
    BY EvalAssumption DEF Marks
  <1>2. QED
    BY <1>1 DEF FailureType, Types

LEMMA StepRecordFailure ==
    ASSUME EvalInv, NEW w \in Workers, RecordFailure(w)
    PROVE  EvalInv'
  <1>1. /\ job[w] \in Jobs /\ Working /\ GoldenTables /\ RowTables /\ RunTables /\ job[w].pc = "failures"
        /\ job[w].run \in DOMAIN runs /\ job[w].todo \subseteq Marks /\ job[w].marks \subseteq Marks
        /\ UNCHANGED <<annotationTables, extractionTables, runs, snapshot, answered>>
    BY WorkerHolds DEF RecordFailure, At, Holds, Jobs
  <1>2. Grows
    BY <1>1 DEF Grows, annotationTables, extractionTables
  <1>3. ASSUME NEW m \in job[w].todo,
               failure' = failure \cup
                 {[run |-> job[w].run, doc |-> m.doc, field |-> m.field, expected |-> m.expected,
                   actual |-> IF m.actual = None THEN None ELSE m.actual.value, type |-> FailureType(m)]},
               Goto(w, [job[w] EXCEPT !.todo = @ \ {m}])
        PROVE  EvalInv'
    <2>1. PICK x : x = [run |-> job[w].run, doc |-> m.doc, field |-> m.field, expected |-> m.expected,
                        actual |-> IF m.actual = None THEN None ELSE m.actual.value, type |-> FailureType(m)]
      OBVIOUS
    <2>2. x.run = job[w].run /\ x.type \in Types /\ failure' = failure \cup {x}
      BY <1>1, <1>3, <2>1, FailureTypes
    <2>3. RunTables'
      BY <1>1, <2>2 DEF RunTables
    <2>4. PICK j : j = [job[w] EXCEPT !.todo = @ \ {m}]
      OBVIOUS
    <2>5. job[w].todo \ {m} \subseteq Marks
      BY <1>1
    <2>6. j \in Jobs /\ j.pc = "failures" /\ j.run = job[w].run /\ j.todo \subseteq Marks
      BY <1>1, <2>4, <2>5 DEF Jobs
    <2>7. Holds(j)'
      BY <1>1, <2>6 DEF Holds
    <2>8. QED
      BY <1>1, <1>2, <1>3, <2>3, <2>4, <2>6, <2>7, OneJob, SameEvalTables DEF EvalInv, Goto
  <1>4. ASSUME failure' = failure, Goto(w, [job[w] EXCEPT !.pc = "calibrate", !.todo = {m \in job[w].marks : m.actual # None}])
        PROVE  EvalInv'
    <2>1. PICK j, seen : /\ seen = {m \in job[w].marks : m.actual # None}
                         /\ j = [job[w] EXCEPT !.pc = "calibrate", !.todo = seen]
      OBVIOUS
    <2>2. seen \subseteq {m \in Marks : m.actual # None}
      BY <1>1, <2>1
    <2>3. j \in Jobs /\ j.pc = "calibrate" /\ j.run = job[w].run /\ j.todo = seen
      BY <1>1, <2>1, <2>2 DEF Jobs, Chores
    <2>4. Holds(j)'
      BY <1>1, <2>2, <2>3 DEF Holds
    <2>5. RunTables'
      BY <1>1, <1>4 DEF RunTables
    <2>6. QED
      BY <1>1, <1>2, <1>4, <2>1, <2>3, <2>4, <2>5, OneJob, SameEvalTables DEF EvalInv, Goto
  <1>5. QED
    BY <1>3, <1>4 DEF RecordFailure

LEMMA BucketRange == ASSUME NEW c \in 0 .. 100 PROVE Bucket(c) \in 0 .. 9
  BY DEF Bucket

LEMMA StepCalibrate ==
    ASSUME EvalInv, NEW w \in Workers, Calibrate(w)
    PROVE  EvalInv'
  <1>1. /\ job[w] \in Jobs /\ Working /\ GoldenTables /\ RowTables /\ RunTables /\ job[w].pc = "calibrate"
        /\ job[w].run \in DOMAIN runs /\ job[w].todo \subseteq {m \in Marks : m.actual # None}
        /\ UNCHANGED <<annotationTables, extractionTables, runs, failure>>
    BY WorkerHolds DEF Calibrate, At, Holds
  <1>2. Grows
    BY <1>1 DEF Grows, annotationTables, extractionTables
  <1>3. ASSUME NEW m \in job[w].todo, NEW group, group \subseteq job[w].todo, NEW a, NEW b,
               snapshot' = snapshot \cup {[run |-> job[w].run, field |-> m.field, bucket |-> Bucket(m.actual.confidence),
                                           predictions |-> a, correct |-> b]},
               Goto(w, [job[w] EXCEPT !.todo = @ \ group])
        PROVE  EvalInv'
    <2>1. m.actual \in MachineRows
      BY <1>1, <1>3 DEF Marks
    <2>2. Bucket(m.actual.confidence) \in 0 .. 9
      BY <2>1, BucketRange DEF MachineRows
    <2>3. PICK x : x = [run |-> job[w].run, field |-> m.field, bucket |-> Bucket(m.actual.confidence),
                        predictions |-> a, correct |-> b]
      OBVIOUS
    <2>4. x.run = job[w].run /\ x.bucket \in 0 .. 9 /\ snapshot' = snapshot \cup {x}
      BY <1>3, <2>2, <2>3
    <2>5. RunTables'
      BY <1>1, <2>4 DEF RunTables
    <2>6. PICK j : j = [job[w] EXCEPT !.todo = @ \ group]
      OBVIOUS
    <2>7. job[w].todo \ group \subseteq {k \in Marks : k.actual # None}
      BY <1>1
    <2>8. j \in Jobs /\ j.pc = "calibrate" /\ j.run = job[w].run /\ j.todo = job[w].todo \ group
      BY <1>1, <2>6, <2>7 DEF Jobs
    <2>9. Holds(j)'
      BY <1>1, <2>7, <2>8 DEF Holds
    <2>10. QED
      BY <1>1, <1>2, <1>3, <2>5, <2>6, <2>8, <2>9, OneJob, SameEvalTables DEF EvalInv, Goto
  <1>4. CASE Finish(w) /\ snapshot' = snapshot
    <2>1. RunTables'
      BY <1>1, <1>4 DEF RunTables
    <2>2. QED
      BY <1>1, <1>2, <1>4, <2>1, Finishes, SameEvalTables DEF EvalInv
  <1>5. ASSUME NEW m \in job[w].todo,
               LET j == job[w]
                   group == {o \in j.todo : o.field = m.field
                                            /\ Bucket(o.actual.confidence) = Bucket(m.actual.confidence)}
               IN /\ snapshot' = snapshot \cup
                       {[run |-> j.run, field |-> m.field, bucket |-> Bucket(m.actual.confidence),
                         predictions |-> Cardinality(group),
                         correct |-> Cardinality({o \in group : Outcome(o) = "tp"})]}
                  /\ Goto(w, [j EXCEPT !.todo = @ \ group])
        PROVE  EvalInv'
    <2>1. PICK group : group = {o \in job[w].todo : /\ o.field = m.field
                                                    /\ Bucket(o.actual.confidence) = Bucket(m.actual.confidence)}
      OBVIOUS
    <2>2. group \subseteq job[w].todo
      BY <2>1
    <2>3. /\ snapshot' = snapshot \cup {[run |-> job[w].run, field |-> m.field, bucket |-> Bucket(m.actual.confidence),
                                         predictions |-> Cardinality(group),
                                         correct |-> Cardinality({o \in group : Outcome(o) = "tp"})]}
          /\ Goto(w, [job[w] EXCEPT !.todo = @ \ group])
      BY <1>5, <2>1
    <2>4. QED
      BY <1>3, <2>2, <2>3
  <1>6. QED
    BY <1>4, <1>5 DEF Calibrate

LEMMA EvalInvStep == EvalInv /\ [EvalNext]_evalVars => EvalInv'
  <1>1. SUFFICES ASSUME EvalInv, [EvalNext]_evalVars
                 PROVE  EvalInv'
    OBVIOUS
  <1>2. CASE UNCHANGED evalVars
    <2>1. UNCHANGED <<annotationTables, extractionTables, runTables, job>> /\ Grows /\ Working /\ RowTables
      BY <1>1, <1>2 DEF evalVars, Grows, annotationTables, extractionTables, runTables, EvalInv
    <2>2. Working'
      <3>1. ASSUME NEW x \in Workers
            PROVE  Holds(job[x])'
        <4>1. job'[x] = job[x] /\ job[x] \in Jobs /\ Holds(job[x])
          BY <2>1 DEF Working
        <4>2. Holds(job[x])'
          BY <2>1, <4>1, StillHolds
        <4>3. QED
          BY <4>2
      <3>2. QED
        BY <2>1, <3>1 DEF Working
    <2>3. QED
      BY <1>1, <2>1, <2>2, SameEvalTables DEF EvalInv
  <1>3. ASSUME NEW w \in Workers, EvalStep(w)
        PROVE  EvalInv'
    BY <1>1, <1>3, StepInsertGolden, StepInsertAnnotation, StepSupersedeAnnotation, StepLookUpRecord, StepInsertRecord,
       StepInsertField, StepReadAnnotations, StepScore, StepInsertRun, StepRecordFailure, StepCalibrate DEF EvalStep
  <1>4. ASSUME NEW w \in Workers, NEW d \in Docs, LookUpGolden(w, d) \/ Ingest(w, d)
        PROVE  EvalInv'
    BY <1>1, <1>4, StepLookUpGolden, StepIngest
  <1>5. QED
    BY <1>1, <1>2, <1>3, <1>4, StepBeginBenchmark, StepKilled, StepFindCurrent, StepCorrect DEF EvalNext

LEMMA EvalInvariant == EvalSpec => []EvalInv
  BY EvalInitInv, EvalInvStep, PTL DEF EvalSpec

\* However annotators, pipeline, reviewers and benchmarks interleave or die, annotations are about golden documents,
\* records about documents with a text, and failures and calibration about a run that is there.
THEOREM EvalTypesHold == EvalSpec => []EvalTypeOK
  BY EvalInvariant, EvalInvTypes, PTL

\* Whoever annotates a field at the same time and wherever one of them is interrupted, what is superseded is so by a
\* later annotation of the same field, so the newest one is in force.
THEOREM LatestAnnotationStays == EvalSpec => []LatestAnnotationLives
  <1>1. EvalInv => LatestAnnotationLives
    <2>1. SUFFICES ASSUME EvalInv, NEW i \in DOMAIN annotation, annotation[i].next # 0
                   PROVE  /\ annotation[i].next > i
                          /\ annotation[annotation[i].next].doc = annotation[i].doc
                          /\ annotation[annotation[i].next].field = annotation[i].field
      BY DEF LatestAnnotationLives
    <2>2. QED
      BY <2>1 DEF EvalInv, GoldenTables, Chain
  <1>2. QED
    BY <1>1, EvalInvariant, PTL


-----------------------------------------------------------------------------
(* A run accounts for what it scored.                                      *)

Judged(d, f, v) ==
    \E i \in DOMAIN annotation : annotation[i].doc = d /\ annotation[i].field = f /\ annotation[i].value = v

OfField(M, f) == {m \in M : m.field = f}
Wrongs(M) == {m \in M : Outcome(m) \in {"wrong", "missed", "hallucinated"}}
Seens(M) == {m \in M : m.actual # None}
Right(M) == {m \in M : Outcome(m) = "tp"}
Alike(o, m) == o.field = m.field /\ Bucket(o.actual.confidence) = Bucket(m.actual.confidence)
Group(M, m) == {o \in Seens(M) : Alike(o, m)}

FailureRow(r, m) ==
    [run |-> r, doc |-> m.doc, field |-> m.field, expected |-> m.expected,
     actual |-> IF m.actual = None THEN None ELSE m.actual.value, type |-> FailureType(m)]
Cell(r, M, m) ==
    [run |-> r, field |-> m.field, bucket |-> Bucket(m.actual.confidence),
     predictions |-> Cardinality(Group(M, m)), correct |-> Cardinality(Right(Group(M, m)))]

FailuresOf(r) == {x \in failure : x.run = r}
BucketsOf(r) == {x \in snapshot : x.run = r}

Single(M) == \A m, k \in M : m.doc = k.doc /\ m.field = k.field => m = k

\* One mark for every field of n documents, each against an annotation.
Tally(M, n) ==
    /\ M \subseteq Marks /\ n \in Nat
    /\ Single(M) /\ \A m \in M : Judged(m.doc, m.field, m.expected)
    /\ \A f \in Fields : IsFiniteSet(OfField(M, f)) /\ Cardinality(OfField(M, f)) = n

InHand == {"look_up_record", "insert_record", "insert_field", "load"}
Reporting == {"failures", "calibrate"}

\* What is left to score was not scored yet.
Scoring(j) ==
    /\ j.pc \in InHand \cup {"annotations"} => \A m \in j.marks : m.doc \notin j.todo
    /\ j.pc \in InHand =>
          /\ j.doc \notin j.todo /\ \A m \in j.marks : m.doc # j.doc
          /\ \A f \in Fields : Judged(j.doc, f, j.expected[f])

\* The run is on record, and of its rows those that are not still to be written.
Summed(r, M, n) ==
    /\ runs[r].scored = n /\ \A f \in Fields : runs[r].stats[f] = FieldStats(M, f)
    /\ runs[r].met => TargetsMet(runs[r].stats)
Listed(r, M) == FailuresOf(r) = {FailureRow(r, m) : m \in M}
Graded(r, M, rest) == BucketsOf(r) = {Cell(r, M, m) : m \in Seens(M) \ rest}
Reports(j) ==
    /\ j.run \notin answered /\ Summed(j.run, j.marks, j.scored)
    /\ j.pc = "failures" =>
          j.todo \subseteq Wrongs(j.marks) /\ Listed(j.run, Wrongs(j.marks) \ j.todo) /\ BucketsOf(j.run) = {}
    /\ j.pc = "calibrate" =>
          /\ j.todo \subseteq Seens(j.marks) /\ \A m \in j.todo : Group(j.marks, m) \subseteq j.todo
          /\ Listed(j.run, Wrongs(j.marks)) /\ Graded(j.run, j.marks, j.todo)

Keeps(j) ==
    /\ j.op = "benchmark" => Tally(j.marks, j.scored) /\ Scoring(j)
    /\ j.pc \in Reporting => j.op = "benchmark" /\ Reports(j)

Apart == \A v, w \in Workers :
    v # w /\ job[v].pc \in Reporting /\ job[w].pc \in Reporting => job[v].run # job[w].run

Accounting ==
    /\ \A w \in Workers : Keeps(job[w])
    /\ Apart /\ answered \subseteq DOMAIN runs /\ RunAccounts
ReportInv == EvalInv /\ Accounting

\* A sum of cardinalities is the cardinality of a set of pairs; two counts agree when there is a bijection.
LEMMA CountedOnce ==
    ASSUME NEW S, NEW T, NEW f \in [S -> T], IsFiniteSet(S),
           \A a, b \in S : f[a] = f[b] => a = b,
           \A t \in T : \E s \in S : f[s] = t
    PROVE  IsFiniteSet(T) /\ Cardinality(T) = Cardinality(S)
  <1>1. f \in Bijection(S, T)
    BY DEF Bijection, Injection, Surjection, IsInjective
  <1>2. QED
    BY <1>1, FS_Bijection DEF ExistsBijection

LEMMA Outcomes ==
    ASSUME NEW m \in Marks
    PROVE  /\ Outcome(m) = "tn" <=> m.expected = None /\ m.actual = None
           /\ Outcome(m) = "hallucinated" <=> m.expected = None /\ m.actual # None
           /\ Outcome(m) = "missed" <=> m.expected # None /\ m.actual = None
           /\ Outcome(m) \in {"tp", "wrong"} <=> m.expected # None /\ m.actual # None
           /\ Outcome(m) \in {"tn", "hallucinated", "missed", "tp", "wrong"}
  BY DEF Outcome

LEMMA TwoParts ==
    ASSUME NEW S, IsFiniteSet(S), NEW A, NEW B, S = A \cup B, A \cap B = {}
    PROVE  /\ IsFiniteSet(A) /\ IsFiniteSet(B) /\ Cardinality(A) \in Nat /\ Cardinality(B) \in Nat
           /\ Cardinality(S) = Cardinality(A) + Cardinality(B)
  <1>1. A \in SUBSET S /\ B \in SUBSET S
    OBVIOUS
  <1>2. IsFiniteSet(A) /\ IsFiniteSet(B)
    BY <1>1, FS_Subset
  <1>3. Cardinality(A) \in Nat /\ Cardinality(B) \in Nat
    BY <1>2, FS_CardinalityType
  <1>4. Cardinality(A \cup B) = Cardinality(A) + Cardinality(B) - Cardinality(A \cap B)
    BY <1>2, FS_Union
  <1>5. Cardinality(A \cap B) = 0
    BY FS_EmptySet
  <1>6. QED
    BY <1>2, <1>3, <1>4, <1>5

\* The counts of a field, by outcome.
LEMMA CountsOf ==
    ASSUME NEW M, NEW n, Tally(M, n), NEW f \in Fields
    PROVE  LET s == FieldStats(M, f)
               W == OfField(Wrongs(M), f)
           IN /\ IsFiniteSet(W) /\ Cardinality(W) \in Nat
              /\ s.tp \in Nat /\ s.tn \in Nat /\ s.fp \in Nat /\ s.fn \in Nat
              /\ s.tp + s.tn + Cardinality(W) = n
              /\ s.fp = Cardinality({m \in W : m.actual # None})
              /\ s.fn = Cardinality({m \in W : m.expected # None})
              /\ s.fp + s.fn >= Cardinality(W)
              /\ IsFiniteSet(OfField(Seens(M), f)) /\ Cardinality(OfField(Seens(M), f)) = s.tp + s.fp
              /\ IsFiniteSet(OfField(Right(M), f)) /\ Cardinality(OfField(Right(M), f)) = s.tp
  <1>1. PICK S, W, s : S = OfField(M, f) /\ W = OfField(Wrongs(M), f) /\ s = FieldStats(M, f)
    OBVIOUS
  <1>2. IsFiniteSet(S) /\ Cardinality(S) = n /\ S \subseteq Marks
    BY <1>1 DEF Tally, OfField
  <1>3. PICK Tp, Tn, Fp, Fn, Sn : /\ Tp = {m \in S : Outcome(m) = "tp"} /\ Tn = {m \in S : Outcome(m) = "tn"}
                                  /\ Fp = {m \in S : Outcome(m) \in {"wrong", "hallucinated"}}
                                  /\ Fn = {m \in S : Outcome(m) \in {"wrong", "missed"}}
                                  /\ Sn = {m \in S : m.actual # None}
    OBVIOUS
  <1>4. /\ s.tp = Cardinality(Tp) /\ s.tn = Cardinality(Tn) /\ s.fp = Cardinality(Fp) /\ s.fn = Cardinality(Fn)
    <2>1. /\ Tp = {m \in M : m.field = f /\ Outcome(m) \in {"tp"}}
          /\ Tn = {m \in M : m.field = f /\ Outcome(m) \in {"tn"}}
          /\ Fp = {m \in M : m.field = f /\ Outcome(m) \in {"wrong", "hallucinated"}}
          /\ Fn = {m \in M : m.field = f /\ Outcome(m) \in {"wrong", "missed"}}
      BY <1>1, <1>3 DEF OfField
    <2>2. QED
      BY <1>1, <2>1 DEF FieldStats, Count
  <1>5. W = {m \in S : Outcome(m) \in {"wrong", "missed", "hallucinated"}}
    BY <1>1 DEF OfField, Wrongs
  <1>6. /\ Fp = {m \in W : m.actual # None} /\ Fn = {m \in W : m.expected # None}
        /\ Sn = Tp \cup Fp /\ Tp \cap Fp = {} /\ W = Fp \cup Fn
    BY <1>2, <1>3, <1>5, Outcomes
  <1>7. PICK R : R = Tp \cup Tn
    OBVIOUS
  <1>8. S = R \cup W /\ R \cap W = {} /\ Tp \cap Tn = {}
    BY <1>2, <1>3, <1>5, <1>7, Outcomes
  <1>9. /\ IsFiniteSet(R) /\ IsFiniteSet(W) /\ Cardinality(W) \in Nat /\ n = Cardinality(R) + Cardinality(W)
    <2>1. IsFiniteSet(S) /\ S = R \cup W /\ R \cap W = {}
      BY <1>2, <1>8
    <2>2. IsFiniteSet(R) /\ IsFiniteSet(W) /\ Cardinality(W) \in Nat /\ Cardinality(S) = Cardinality(R) + Cardinality(W)
      BY ONLY <2>1, TwoParts
    <2>3. QED
      BY <1>2, <2>2
  <1>10. Cardinality(R) = Cardinality(Tp) + Cardinality(Tn) /\ Cardinality(Tp) \in Nat /\ Cardinality(Tn) \in Nat
    <2>1. IsFiniteSet(R) /\ R = Tp \cup Tn /\ Tp \cap Tn = {}
      BY <1>7, <1>8, <1>9
    <2>2. QED
      BY ONLY <2>1, TwoParts
  <1>11. Sn \in SUBSET S
    BY <1>3
  <1>12. IsFiniteSet(Sn)
    BY <1>2, <1>11, FS_Subset
  <1>13. Cardinality(Sn) = Cardinality(Tp) + Cardinality(Fp)
    BY <1>6, <1>12, TwoParts, ZenonT(60)
  <1>14. IsFiniteSet(Fp) /\ IsFiniteSet(Fn) /\ IsFiniteSet(Tp)
    <2>1. Fp \in SUBSET W /\ Fn \in SUBSET W /\ Tp \in SUBSET Sn
      BY <1>6
    <2>2. QED
      BY <1>9, <1>12, <2>1, FS_Subset
  <1>15. Cardinality(Fp) \in Nat /\ Cardinality(Fn) \in Nat /\ Cardinality(W) <= Cardinality(Fp) + Cardinality(Fn)
    <2>1. Cardinality(Fp) \in Nat /\ Cardinality(Fn) \in Nat
      BY <1>14, FS_CardinalityType
    <2>2. Cardinality(W) = Cardinality(Fp) + Cardinality(Fn) - Cardinality(Fp \cap Fn)
      BY <1>6, <1>14, FS_Union
    <2>3. Cardinality(Fp \cap Fn) \in Nat
      BY <1>14, FS_Intersection, FS_CardinalityType
    <2>4. QED
      BY <2>1, <2>2, <2>3
  <1>16. OfField(Seens(M), f) = Sn /\ OfField(Right(M), f) = Tp
    BY <1>1, <1>3 DEF OfField, Seens, Right
  <1>17. s.fp = Cardinality({m \in W : m.actual # None}) /\ s.fn = Cardinality({m \in W : m.expected # None})
    BY <1>4, <1>6
  <1>18. /\ IsFiniteSet(W) /\ Cardinality(W) \in Nat
         /\ s.tp \in Nat /\ s.tn \in Nat /\ s.fp \in Nat /\ s.fn \in Nat
         /\ s.tp + s.tn + Cardinality(W) = n /\ s.fp + s.fn >= Cardinality(W)
         /\ Cardinality(Sn) = s.tp + s.fp /\ Cardinality(Tp) = s.tp
    BY <1>4, <1>9, <1>10, <1>13, <1>15
  <1>19. QED
    BY <1>1, <1>12, <1>14, <1>16, <1>17, <1>18

\* A sum, as the pairs that it counts.
PairsOf(X, size) == UNION {{x} \X (1 .. size[x]) : x \in X}

\* Elements sorted into classes: as many as the classes have together, counted as pairs.
LEMMA SumOfParts ==
    ASSUME NEW T, IsFiniteSet(T), NEW X, NEW K \in [T -> X], NEW size \in [X -> Nat],
           \A x \in X : size[x] = Cardinality({m \in T : K[m] = x})
    PROVE  Cardinality(PairsOf(X, size)) = Cardinality(T)
  <1>1. PICK P : P = PairsOf(X, size)
    OBVIOUS
  <1>2. \A p : p \in P <=> \E x \in X : \E i \in 1 .. size[x] : p = <<x, i>>
    BY <1>1 DEF PairsOf
  <1>3. DEFINE Class(x) == {m \in T : K[m] = x}
  <1>4. ASSUME NEW x \in X
        PROVE  \E g : g \in Bijection(Class(x), 1 .. size[x])
    <2>1. Class(x) \in SUBSET T /\ size[x] \in Nat /\ size[x] = Cardinality(Class(x))
      OBVIOUS
    <2>2. IsFiniteSet(Class(x))
      BY <2>1, FS_Subset
    <2>3. IsFiniteSet(1 .. size[x]) /\ Cardinality(1 .. size[x]) = size[x]
      BY <2>1, FS_Interval
    <2>4. ExistsBijection(Class(x), 1 .. size[x])
      BY <2>1, <2>2, <2>3, FS_SameCardinalityBij
    <2>5. QED
      BY <2>4 DEF ExistsBijection
  <1>5. PICK G : G = [x \in X |-> CHOOSE g : g \in Bijection(Class(x), 1 .. size[x])]
    OBVIOUS
  <1>6. ASSUME NEW x \in X
        PROVE  /\ G[x] \in [Class(x) -> 1 .. size[x]]
               /\ \A a, b \in Class(x) : G[x][a] = G[x][b] => a = b
               /\ \A i \in 1 .. size[x] : \E a \in Class(x) : G[x][a] = i
    <2>1. G[x] \in Bijection(Class(x), 1 .. size[x])
      BY <1>4, <1>5
    <2>2. QED
      BY <2>1 DEF Bijection, Injection, Surjection, IsInjective
  <1>7. PICK F : F = [m \in T |-> <<K[m], G[K[m]][m]>>]
    OBVIOUS
  <1>8. ASSUME NEW m \in T
        PROVE  K[m] \in X /\ m \in Class(K[m]) /\ G[K[m]][m] \in 1 .. size[K[m]]
    <2>1. PICK x : x = K[m]
      OBVIOUS
    <2>2. x \in X /\ m \in Class(x)
      BY <2>1
    <2>3. G[x] \in [Class(x) -> 1 .. size[x]]
      BY <1>6, <2>2
    <2>4. G[x][m] \in 1 .. size[x]
      BY <2>2, <2>3
    <2>5. QED
      BY <2>1, <2>2, <2>4
  <1>9. F \in [T -> P]
    BY <1>2, <1>7, <1>8
  <1>10. ASSUME NEW a \in T, NEW b \in T, F[a] = F[b]
         PROVE  a = b
    <2>1. K[a] = K[b] /\ G[K[a]][a] = G[K[a]][b]
      BY <1>7, <1>10
    <2>2. K[a] \in X /\ a \in Class(K[a]) /\ b \in Class(K[a])
      BY <1>8, <2>1
    <2>3. QED
      BY <1>6, <2>1, <2>2
  <1>11. ASSUME NEW p \in P
         PROVE  \E m \in T : F[m] = p
    <2>1. PICK x \in X : \E k \in 1 .. size[x] : p = <<x, k>>
      BY <1>2
    <2>2. PICK i \in 1 .. size[x] : p = <<x, i>>
      BY <2>1
    <2>3. PICK a \in Class(x) : G[x][a] = i
      BY <1>6
    <2>4. a \in T /\ K[a] = x
      OBVIOUS
    <2>5. QED
      BY <1>7, <2>3, <2>4, <2>2
  <1>12. QED
    BY <1>1, <1>9, <1>10, <1>11, CountedOnce, ZenonT(60)

\* The failure rows of some marks are as many as the marks.
LEMMA RowsOf ==
    ASSUME NEW r, NEW M, Single(M), NEW W, W \subseteq M, IsFiniteSet(W)
    PROVE  Cardinality({FailureRow(r, m) : m \in W}) = Cardinality(W)
  <1>1. PICK F, X : X = {FailureRow(r, m) : m \in W} /\ F = [m \in W |-> FailureRow(r, m)]
    OBVIOUS
  <1>2. F \in [W -> X] /\ \A x \in X : \E m \in W : F[m] = x
    BY <1>1
  <1>3. ASSUME NEW a \in W, NEW b \in W, F[a] = F[b]
        PROVE  a = b
    <2>1. FailureRow(r, a) = FailureRow(r, b)
      BY <1>1, <1>3
    <2>2. FailureRow(r, a).doc = a.doc /\ FailureRow(r, a).field = a.field
      BY DEF FailureRow
    <2>3. FailureRow(r, b).doc = b.doc /\ FailureRow(r, b).field = b.field
      BY DEF FailureRow
    <2>4. QED
      BY <2>1, <2>2, <2>3 DEF Single
  <1>4. QED
    BY <1>1, <1>2, <1>3, CountedOnce

LEMMA RowSays ==
    ASSUME NEW r, NEW m \in Marks
    PROVE  LET x == FailureRow(r, m) IN
           /\ x.run = r /\ x.doc = m.doc /\ x.field = m.field /\ x.expected = m.expected
           /\ x.actual # None <=> m.actual # None
           /\ x.type = FailureType(m)
  <1>1. PICK x : x = FailureRow(r, m)
    OBVIOUS
  <1>2. /\ x.run = r /\ x.doc = m.doc /\ x.field = m.field /\ x.expected = m.expected
        /\ x.actual = (IF m.actual = None THEN None ELSE m.actual.value) /\ x.type = FailureType(m)
    BY <1>1 DEF FailureRow
  <1>3. m.actual # None => m.actual.value \in Values
    BY DEF Marks, MachineRows
  <1>4. x.actual # None <=> m.actual # None
    BY <1>2, <1>3, EvalAssumption
  <1>5. QED
    BY <1>1, <1>2, <1>4

LEMMA TypeSays ==
    ASSUME NEW m \in Marks, Outcome(m) \in {"wrong", "missed", "hallucinated"}
    PROVE  FailureType(m) = "hallucination" <=> m.expected = None
  <1>1. Outcome(m) = "hallucinated" <=> m.expected = None
    BY Outcomes
  <1>2. /\ Category[m.doc].scanned \in BOOLEAN /\ Category[m.doc].tamil \in BOOLEAN
    BY EvalAssumption DEF Marks
  <1>3. QED
    BY <1>1, <1>2 DEF FailureType

\* Marks of one group share their calibration row; of two groups they do not.
LEMMA CellsOf ==
    ASSUME NEW r, NEW M, NEW k, NEW m
    PROVE  /\ Cell(r, M, k) = Cell(r, M, m) <=> Alike(k, m)
           /\ Cell(r, M, m).run = r /\ Cell(r, M, m).field = m.field
           /\ Cell(r, M, m).predictions = Cardinality(Group(M, m))
           /\ Cell(r, M, m).correct = Cardinality(Right(Group(M, m)))
  <1>1. ASSUME Alike(k, m)
        PROVE  Cell(r, M, k) = Cell(r, M, m)
    <2>1. Group(M, k) = Group(M, m)
      BY <1>1 DEF Group, Alike
    <2>2. QED
      BY <1>1, <2>1 DEF Cell, Alike
  <1>2. \A c : /\ Cell(r, M, c).run = r /\ Cell(r, M, c).field = c.field
               /\ Cell(r, M, c).bucket = Bucket(c.actual.confidence)
               /\ Cell(r, M, c).predictions = Cardinality(Group(M, c))
               /\ Cell(r, M, c).correct = Cardinality(Right(Group(M, c)))
    BY DEF Cell
  <1>3. ASSUME Cell(r, M, k) = Cell(r, M, m)
        PROVE  Alike(k, m)
    BY <1>2, <1>3 DEF Alike
  <1>4. QED
    BY <1>1, <1>2, <1>3

CellsIn(r, M, f) == {Cell(r, M, m) : m \in OfField(Seens(M), f)}

\* The calibration rows of a field add up to the marks that have a confidence, and to those that are right.
LEMMA SumsOf ==
    ASSUME NEW r, NEW M, NEW n, Tally(M, n), NEW f \in Fields
    PROVE  LET X == CellsIn(r, M, f) IN
           /\ Cardinality(UNION {{x} \X (1 .. x.predictions) : x \in X}) = Cardinality(OfField(Seens(M), f))
           /\ Cardinality(UNION {{x} \X (1 .. x.correct) : x \in X}) = Cardinality(OfField(Right(M), f))
  <1>0. PICK X : X = CellsIn(r, M, f)
    OBVIOUS
  <1>1. PICK T, R : T = OfField(Seens(M), f) /\ R = OfField(Right(M), f) /\ X = {Cell(r, M, m) : m \in T}
    BY <1>0 DEF CellsIn
  <1>2. IsFiniteSet(T) /\ IsFiniteSet(R)
    BY <1>1, CountsOf
  <1>3. R \subseteq T
    <2>1. ASSUME NEW m \in R
          PROVE  m \in T
      <3>1. m \in M /\ m \in Marks /\ m.field = f /\ Outcome(m) = "tp"
        BY <1>1 DEF OfField, Right, Tally
      <3>2. m.actual # None
        BY <3>1, Outcomes
      <3>3. QED
        BY <1>1, <3>1, <3>2 DEF OfField, Seens
    <2>2. QED
      BY <2>1
  <1>4. ASSUME NEW m \in T
        PROVE  /\ Group(M, m) = {k \in T : Cell(r, M, k) = Cell(r, M, m)}
               /\ Right(Group(M, m)) = {k \in R : Cell(r, M, k) = Cell(r, M, m)}
               /\ Cell(r, M, m) \in X
               /\ Cardinality(Group(M, m)) \in Nat /\ Cardinality(Right(Group(M, m))) \in Nat
    <2>1. m \in Seens(M) /\ m.field = f
      BY <1>1 DEF OfField
    <2>2. Group(M, m) = {k \in T : Alike(k, m)}
      BY <1>1, <2>1 DEF Group, OfField, Alike
    <2>3. Right(Group(M, m)) = {k \in R : Alike(k, m)}
      <3>1. ASSUME NEW k
            PROVE  k \in Right(Group(M, m)) <=> k \in R /\ Alike(k, m)
        <4>1. k \in Right(Group(M, m)) <=> k \in T /\ Alike(k, m) /\ Outcome(k) = "tp"
          BY <2>2 DEF Right
        <4>2. k \in R <=> k \in T /\ Outcome(k) = "tp"
          BY <1>1, <1>3 DEF OfField, Seens, Right
        <4>3. QED
          BY <4>1, <4>2
      <3>2. QED
        BY <3>1
    <2>4. \A k : Cell(r, M, k) = Cell(r, M, m) <=> Alike(k, m)
      BY CellsOf
    <2>5. Group(M, m) \in SUBSET T /\ Right(Group(M, m)) \in SUBSET R
      BY <2>2, <2>3
    <2>6. Cardinality(Group(M, m)) \in Nat /\ Cardinality(Right(Group(M, m))) \in Nat
      BY <1>2, <2>5, FS_Subset, FS_CardinalityType
    <2>7. Cell(r, M, m) \in X
      BY <1>1
    <2>8. QED
      BY <2>2, <2>3, <2>4, <2>6, <2>7
  <1>5. PICK K, Q, size, good : /\ K = [m \in T |-> Cell(r, M, m)] /\ Q = [m \in R |-> Cell(r, M, m)]
                                /\ size = [x \in X |-> x.predictions] /\ good = [x \in X |-> x.correct]
    OBVIOUS
  <1>6. K \in [T -> X] /\ Q \in [R -> X]
    BY <1>3, <1>4, <1>5
  <1>7. ASSUME NEW x \in X
        PROVE  /\ size[x] \in Nat /\ size[x] = Cardinality({m \in T : K[m] = x})
               /\ good[x] \in Nat /\ good[x] = Cardinality({m \in R : Q[m] = x})
    <2>1. PICK m \in T : x = Cell(r, M, m)
      BY <1>1
    <2>2. size[x] = Cardinality(Group(M, m)) /\ good[x] = Cardinality(Right(Group(M, m)))
      BY <1>5, <2>1, CellsOf
    <2>3. {k \in T : K[k] = x} = Group(M, m) /\ {k \in R : Q[k] = x} = Right(Group(M, m))
      BY <1>4, <1>5, <2>1
    <2>4. QED
      BY <1>4, <2>2, <2>3
  <1>8. size \in [X -> Nat] /\ good \in [X -> Nat]
    BY <1>5, <1>7
  <1>9. /\ Cardinality(UNION {{x} \X (1 .. size[x]) : x \in X}) = Cardinality(T)
        /\ Cardinality(UNION {{x} \X (1 .. good[x]) : x \in X}) = Cardinality(R)
    <2>1. \A x \in X : size[x] = Cardinality({m \in T : K[m] = x})
      BY <1>7
    <2>2. Cardinality(UNION {{x} \X (1 .. size[x]) : x \in X}) = Cardinality(T)
      <3>1. IsFiniteSet(T) /\ K \in [T -> X] /\ size \in [X -> Nat]
        BY <1>2, <1>6, <1>8
      <3>2. Cardinality(PairsOf(X, size)) = Cardinality(T)
        BY <2>1, <3>1, SumOfParts
      <3>3. QED
        BY <3>2 DEF PairsOf
    <2>3. \A x \in X : good[x] = Cardinality({m \in R : Q[m] = x})
      BY <1>7
    <2>4. Cardinality(UNION {{x} \X (1 .. good[x]) : x \in X}) = Cardinality(R)
      <3>1. IsFiniteSet(R) /\ Q \in [R -> X] /\ good \in [X -> Nat]
        BY <1>2, <1>6, <1>8
      <3>2. Cardinality(PairsOf(X, good)) = Cardinality(R)
        BY <2>3, <3>1, SumOfParts
      <3>3. QED
        BY <3>2 DEF PairsOf
    <2>5. QED
      BY <2>2, <2>4
  <1>10. /\ UNION {{x} \X (1 .. size[x]) : x \in X} = UNION {{x} \X (1 .. x.predictions) : x \in X}
         /\ UNION {{x} \X (1 .. good[x]) : x \in X} = UNION {{x} \X (1 .. x.correct) : x \in X}
    <2>1. \A x \in X : size[x] = x.predictions /\ good[x] = x.correct
      BY <1>5
    <2>2. /\ {{x} \X (1 .. size[x]) : x \in X} = {{x} \X (1 .. x.predictions) : x \in X}
          /\ {{x} \X (1 .. good[x]) : x \in X} = {{x} \X (1 .. x.correct) : x \in X}
      BY <2>1
    <2>3. QED
      BY <2>2
  <1>11. QED
    BY <1>0, <1>1, <1>9, <1>10

\* A target of at least 90 percent that is met leaves at most a tenth of the documents failed.
LEMMA MetMeans ==
    ASSUME NEW n \in Nat, NEW k \in Nat, NEW tp \in Nat, NEW tn \in Nat, NEW fp \in Nat, NEW fn \in Nat,
           NEW t \in 90 .. 100, tp + tn + k = n, fp + fn >= k, 100 * (tp + tn) >= t * (tp + fp + fn + tn)
    PROVE  10 * k <= n
  <1>1. PICK s : s = tp + fp + fn + tn
    OBVIOUS
  <1>2. s \in Nat /\ s >= n
    BY <1>1
  <1>3. t * s >= 90 * s
    BY <1>2
  <1>4. 100 * (tp + tn) >= 90 * s
    BY <1>1, <1>2, <1>3
  <1>5. 100 * (n - k) >= 90 * n
    BY <1>2, <1>4
  <1>6. QED
    BY <1>5

\* When everything is written, the run accounts for what it scored.
LEMMA Accounted ==
    ASSUME NEW r, NEW M, NEW n, Tally(M, n), Summed(r, M, n), Listed(r, Wrongs(M)), Graded(r, M, {}), NEW f \in Fields
    PROVE  AccountedFor(r, f)
  <1>1. PICK s : s = runs[r].stats[f]
    OBVIOUS
  <1>2. s = FieldStats(M, f) /\ runs[r].scored = n
    BY <1>1 DEF Summed
  <1>3. PICK W, fails, buckets : /\ W = OfField(Wrongs(M), f)
                                 /\ fails = {x \in failure : x.run = r /\ x.field = f}
                                 /\ buckets = {x \in snapshot : x.run = r /\ x.field = f}
    OBVIOUS
  <1>4. /\ IsFiniteSet(W) /\ Cardinality(W) \in Nat /\ n \in Nat
        /\ s.tp \in Nat /\ s.tn \in Nat /\ s.fp \in Nat /\ s.fn \in Nat
        /\ s.tp + s.tn + Cardinality(W) = n /\ s.fp + s.fn >= Cardinality(W)
        /\ s.fp = Cardinality({m \in W : m.actual # None}) /\ s.fn = Cardinality({m \in W : m.expected # None})
        /\ Cardinality(OfField(Seens(M), f)) = s.tp + s.fp /\ Cardinality(OfField(Right(M), f)) = s.tp
    <2>1. LET u == FieldStats(M, f)
              V == OfField(Wrongs(M), f)
          IN /\ IsFiniteSet(V) /\ Cardinality(V) \in Nat
             /\ u.tp \in Nat /\ u.tn \in Nat /\ u.fp \in Nat /\ u.fn \in Nat
             /\ u.tp + u.tn + Cardinality(V) = n
             /\ u.fp = Cardinality({m \in V : m.actual # None})
             /\ u.fn = Cardinality({m \in V : m.expected # None})
             /\ u.fp + u.fn >= Cardinality(V)
             /\ Cardinality(OfField(Seens(M), f)) = u.tp + u.fp
             /\ Cardinality(OfField(Right(M), f)) = u.tp
      BY CountsOf
    <2>2. n \in Nat
      BY DEF Tally
    <2>3. QED
      BY <1>2, <1>3, <2>1, <2>2
  <1>5. W \subseteq M /\ M \subseteq Marks /\ Single(M)
    BY <1>3 DEF OfField, Wrongs, Tally
  <1>6. ASSUME NEW m \in W
        PROVE  LET x == FailureRow(r, m) IN
               /\ x.run = r /\ x.doc = m.doc /\ x.field = f /\ x.expected = m.expected
               /\ x.actual # None <=> m.actual # None
               /\ x.type = "hallucination" <=> x.expected = None
    <2>1. m \in Marks /\ m.field = f /\ Outcome(m) \in {"wrong", "missed", "hallucinated"}
      BY <1>3, <1>5 DEF OfField, Wrongs
    <2>2. QED
      BY <2>1, RowSays, TypeSays
  <1>7. fails = {FailureRow(r, m) : m \in W}
    <2>1. fails = {x \in FailuresOf(r) : x.field = f}
      BY <1>3 DEF FailuresOf
    <2>2. \A m \in Wrongs(M) : FailureRow(r, m).field = m.field
      BY DEF FailureRow
    <2>3. FailuresOf(r) = {FailureRow(r, m) : m \in Wrongs(M)}
      BY DEF Listed
    <2>4. QED
      BY <1>3, <2>1, <2>2, <2>3 DEF OfField
  <1>8. buckets = CellsIn(r, M, f)
    <2>1. buckets = {x \in BucketsOf(r) : x.field = f}
      BY <1>3 DEF BucketsOf
    <2>2. \A m \in Seens(M) : Cell(r, M, m).field = m.field
      BY CellsOf
    <2>3. BucketsOf(r) = {Cell(r, M, m) : m \in Seens(M)}
      BY DEF Graded
    <2>4. QED
      BY <2>1, <2>2, <2>3 DEF OfField, CellsIn
  <1>9. Cardinality(fails) = Cardinality(W)
    <2>1. Cardinality({FailureRow(r, m) : m \in W}) = Cardinality(W)
      <3>1. Single(M) /\ W \subseteq M /\ IsFiniteSet(W)
        BY <1>4, <1>5
      <3>2. QED
        BY ONLY <3>1, RowsOf
    <2>2. QED
      BY <1>7, <2>1
  <1>10. /\ Cardinality({x \in fails : x.actual # None}) = s.fp
         /\ Cardinality({x \in fails : x.expected # None}) = s.fn
    <2>1. PICK A, B : A = {m \in W : m.actual # None} /\ B = {m \in W : m.expected # None}
      OBVIOUS
    <2>2. A \in SUBSET W /\ B \in SUBSET W
      BY <2>1
    <2>3. IsFiniteSet(A) /\ IsFiniteSet(B) /\ A \subseteq M /\ B \subseteq M
      BY <1>4, <1>5, <2>2, FS_Subset
    <2>4. /\ {x \in fails : x.actual # None} = {FailureRow(r, m) : m \in A}
          /\ {x \in fails : x.expected # None} = {FailureRow(r, m) : m \in B}
      BY <1>6, <1>7, <2>1
    <2>5. /\ Cardinality({FailureRow(r, m) : m \in A}) = Cardinality(A)
          /\ Cardinality({FailureRow(r, m) : m \in B}) = Cardinality(B)
      BY ONLY <1>5, <2>3, RowsOf
    <2>6. QED
      BY <1>4, <2>1, <2>4, <2>5
  <1>11. /\ Cardinality(UNION {{x} \X (1 .. x.predictions) : x \in buckets}) = s.tp + s.fp
         /\ Cardinality(UNION {{x} \X (1 .. x.correct) : x \in buckets}) = s.tp
    <2>1. /\ Cardinality(UNION {{x} \X (1 .. x.predictions) : x \in buckets}) = Cardinality(OfField(Seens(M), f))
          /\ Cardinality(UNION {{x} \X (1 .. x.correct) : x \in buckets}) = Cardinality(OfField(Right(M), f))
      <3>1. Tally(M, n) /\ f \in Fields
        OBVIOUS
      <3>2. QED
        BY ONLY <1>8, <3>1, SumsOf
    <2>2. QED
      BY <1>4, <2>1
  <1>12. ASSUME runs[r].met
         PROVE  10 * Cardinality(W) <= n
    <2>1. 100 * (s.tp + s.tn) >= Target[f] * (s.tp + s.fp + s.fn + s.tn)
      BY <1>1, <1>12 DEF Summed, TargetsMet, Support
    <2>2. Target[f] \in 90 .. 100
      BY EvalAssumption
    <2>3. QED
      BY <1>4, <2>1, <2>2, MetMeans
  <1>13. ASSUME NEW x \in fails
         PROVE  /\ x.type = "hallucination" <=> x.expected = None
                /\ \E i \in DOMAIN annotation :
                     annotation[i].doc = x.doc /\ annotation[i].field = f /\ annotation[i].value = x.expected
    <2>1. PICK m \in W : x = FailureRow(r, m)
      BY <1>7
    <2>2. /\ x.doc = m.doc /\ x.expected = m.expected /\ m \in M /\ m.field = f
          /\ x.type = "hallucination" <=> x.expected = None
      BY <1>3, <1>5, <1>6, <2>1 DEF OfField
    <2>3. Judged(m.doc, m.field, m.expected)
      BY <2>2 DEF Tally
    <2>4. QED
      BY <2>2, <2>3 DEF Judged
  <1>14. QED
    BY <1>1, <1>2, <1>3, <1>4, <1>9, <1>10, <1>11, <1>12, <1>13 DEF AccountedFor

\* An annotation keeps what it says.
NotesStay ==
    \A i \in DOMAIN annotation : /\ i \in DOMAIN annotation'
                                 /\ annotation'[i].doc = annotation[i].doc /\ annotation'[i].field = annotation[i].field
                                 /\ annotation'[i].value = annotation[i].value

\* A step leaves run r and its rows as they are.
SameRun(r) ==
    /\ runs'[r] = runs[r]
    /\ {x \in failure' : x.run = r} = {x \in failure : x.run = r}
    /\ {x \in snapshot' : x.run = r} = {x \in snapshot : x.run = r}

LEMMA JudgedStays ==
    ASSUME NotesStay, NEW d, NEW f, NEW v, Judged(d, f, v)
    PROVE  Judged(d, f, v)'
  BY DEF NotesStay, Judged

LEMMA TallyStays ==
    ASSUME NotesStay, NEW M, NEW n, Tally(M, n)
    PROVE  Tally(M, n)'
  <1>1. \A m \in M : Judged(m.doc, m.field, m.expected)'
    BY JudgedStays DEF Tally
  <1>2. QED
    BY <1>1 DEF Tally

LEMMA ReportsStay ==
    ASSUME NEW j, SameRun(j.run), j.run \notin answered', Reports(j)
    PROVE  Reports(j)'
  <1>1. /\ FailuresOf(j.run)' = FailuresOf(j.run) /\ BucketsOf(j.run)' = BucketsOf(j.run)
        /\ runs'[j.run] = runs[j.run]
    BY DEF SameRun, FailuresOf, BucketsOf
  <1>2. Summed(j.run, j.marks, j.scored)'
    BY <1>1 DEF Reports, Summed
  <1>3. \A M : Listed(j.run, M) => Listed(j.run, M)'
    BY <1>1 DEF Listed
  <1>4. \A M, rest : Graded(j.run, M, rest) => Graded(j.run, M, rest)'
    BY <1>1 DEF Graded
  <1>5. QED
    BY <1>1, <1>2, <1>3, <1>4 DEF Reports

LEMMA ScoringStays ==
    ASSUME NotesStay, NEW j, Scoring(j)
    PROVE  Scoring(j)'
  BY JudgedStays DEF Scoring

LEMMA KeepsStay ==
    ASSUME NotesStay, NEW j, j.pc \in Reporting => SameRun(j.run) /\ j.run \notin answered', Keeps(j)
    PROVE  Keeps(j)'
  <1>1. j.op = "benchmark" => Tally(j.marks, j.scored)' /\ Scoring(j)'
    BY TallyStays, ScoringStays DEF Keeps
  <1>2. j.pc \in Reporting => j.op = "benchmark" /\ Reports(j)'
    BY ReportsStay DEF Keeps
  <1>3. QED
    BY <1>1, <1>2 DEF Keeps

LEMMA AccountedStays ==
    ASSUME NotesStay, NEW r, SameRun(r), NEW f, AccountedFor(r, f)
    PROVE  AccountedFor(r, f)'
  <1>1. PICK fails, buckets : fails = {x \in failure : x.run = r /\ x.field = f}
                              /\ buckets = {x \in snapshot : x.run = r /\ x.field = f}
    OBVIOUS
  <1>2. PICK F, B : F = {x \in failure : x.run = r} /\ B = {x \in snapshot : x.run = r}
    OBVIOUS
  <1>3. F = {x \in failure' : x.run = r} /\ B = {x \in snapshot' : x.run = r} /\ runs'[r] = runs[r]
    BY <1>2 DEF SameRun
  <1>4. fails = {x \in F : x.field = f} /\ buckets = {x \in B : x.field = f}
    BY <1>1, <1>2
  <1>5. fails = {x \in failure' : x.run = r /\ x.field = f} /\ buckets = {x \in snapshot' : x.run = r /\ x.field = f}
    BY <1>3, <1>4
  <1>6. ASSUME NEW x \in fails,
               \E i \in DOMAIN annotation :
                 annotation[i].doc = x.doc /\ annotation[i].field = f /\ annotation[i].value = x.expected
        PROVE  \E i \in DOMAIN annotation' :
                 annotation'[i].doc = x.doc /\ annotation'[i].field = f /\ annotation'[i].value = x.expected
    BY <1>6 DEF NotesStay
  <1>7. QED
    BY <1>1, <1>3, <1>5, <1>6 DEF AccountedFor

\* A step of one worker, as far as the others and the runs that were answered are concerned.
LEMMA OneReports ==
    ASSUME ReportInv, EvalInv', NotesStay, NEW w \in Workers, NEW j, job' = [job EXCEPT ![w] = j], Keeps(j)',
           \A v \in Workers \ {w} : job[v].pc \in Reporting =>
               /\ SameRun(job[v].run) /\ job[v].run \notin answered'
               /\ j.pc \in Reporting => job[v].run # j.run,
           answered' \subseteq DOMAIN runs', \A r \in answered' : \A f \in Fields : AccountedFor(r, f)'
    PROVE  ReportInv'
  <1>1. job \in [Workers -> Jobs]
    BY DEF ReportInv, EvalInv, Working
  <1>2. job'[w] = j /\ \A v \in Workers \ {w} : job'[v] = job[v]
    BY <1>1
  <1>3. ASSUME NEW v \in Workers
        PROVE  Keeps(job[v])'
    <2>1. CASE v = w
      <3>1. job'[v] = j
        BY <1>2, <2>1
      <3>2. QED
        BY <3>1
    <2>2. CASE v # w
      <3>1. PICK k : k = job[v]
        OBVIOUS
      <3>2. Keeps(k) /\ (k.pc \in Reporting => SameRun(k.run) /\ k.run \notin answered')
        BY <2>2, <3>1 DEF ReportInv, Accounting
      <3>3. Keeps(k)'
        BY <3>2, KeepsStay
      <3>4. job'[v] = k
        BY <1>2, <2>2, <3>1
      <3>5. QED
        BY <3>3, <3>4
    <2>3. QED
      BY <2>1, <2>2
  <1>4. Apart'
    <2>1. Apart
      BY DEF ReportInv, Accounting
    <2>2. ASSUME NEW u \in Workers, NEW v \in Workers, u # v, job'[u].pc \in Reporting, job'[v].pc \in Reporting
          PROVE  job'[u].run # job'[v].run
      <3>1. CASE u = w
        BY <1>2, <2>2, <3>1
      <3>2. CASE v = w
        BY <1>2, <2>2, <3>2
      <3>3. CASE u # w /\ v # w
        BY <1>2, <2>1, <2>2, <3>3 DEF Apart
      <3>4. QED
        BY <3>1, <3>2, <3>3
    <2>3. QED
      BY <2>2 DEF Apart
  <1>5. RunAccounts'
    BY DEF RunAccounts
  <1>6. QED
    BY <1>3, <1>4, <1>5 DEF ReportInv, Accounting

LEMMA Aside ==
    ASSUME ReportInv, EvalInv', NotesStay, UNCHANGED runTables, NEW w \in Workers, NEW j, job' = [job EXCEPT ![w] = j],
           j.pc \notin Reporting, Keeps(j)'
    PROVE  ReportInv'
  <1>1. answered' = answered /\ runs' = runs /\ \A r : SameRun(r)
    BY DEF runTables, SameRun
  <1>2. \A v \in Workers \ {w} : job[v].pc \in Reporting => job[v].run \notin answered'
    BY <1>1 DEF ReportInv, Accounting, Keeps, Reports
  <1>3. \A r \in answered' : \A f \in Fields : AccountedFor(r, f)'
    <2>1. \A r \in answered : \A f \in Fields : AccountedFor(r, f)
      BY DEF ReportInv, Accounting, RunAccounts
    <2>2. QED
      BY <1>1, <2>1, AccountedStays
  <1>4. answered' \subseteq DOMAIN runs'
    BY <1>1 DEF ReportInv, Accounting
  <1>5. QED
    BY <1>1, <1>2, <1>3, <1>4, OneReports

LEMMA NotesUnchanged ==
    /\ UNCHANGED annotation => NotesStay
    /\ UNCHANGED annotationTables => NotesStay
  BY DEF NotesStay, annotationTables

\* What is no benchmark has nothing to keep.
LEMMA OtherKeeps ==
    ASSUME NEW j, j.op # "benchmark", j.pc \notin Reporting
    PROVE  Keeps(j)'
  BY DEF Keeps

LEMMA IdleKeeps == Unemployed.pc \notin Reporting /\ Unemployed.pc = "free" /\ Keeps(Unemployed)'
  BY DEF Unemployed, Keeps, Reporting

LEMMA FinishReports ==
    ASSUME ReportInv, EvalInv', NotesStay, UNCHANGED runTables, NEW w \in Workers, Finish(w)
    PROVE  ReportInv'
  BY IdleKeeps, Aside DEF Finish, Goto

LEMMA GoldenReports ==
    ASSUME ReportInv, EvalInv', NEW w \in Workers, NEW d \in Docs, LookUpGolden(w, d)
    PROVE  ReportInv'
  <1>1. PICK j : j = [Unemployed EXCEPT !.pc = "insert_golden", !.op = "golden", !.doc = d]
    OBVIOUS
  <1>2. j.pc \notin Reporting /\ j.op # "benchmark"
    BY <1>1 DEF Unemployed, Reporting
  <1>3. NotesStay /\ UNCHANGED runTables /\ job' = [job EXCEPT ![w] = j]
    BY <1>1, NotesUnchanged DEF LookUpGolden, Goto
  <1>4. QED
    BY <1>2, <1>3, OtherKeeps, Aside

LEMMA FindsOne ==
    ASSUME NEW w \in Workers, NEW d \in Docs, NEW f \in Fields, NEW v \in Values \cup {None}, FindCurrent(w, d, f, v)
    PROVE  \E c \in IF Live(d, f) = {} THEN {0} ELSE Live(d, f) :
               Goto(w, [Unemployed EXCEPT !.pc = "insert_annotation", !.op = "annotate", !.doc = d, !.field = f,
                                          !.value = v, !.current = c])
  BY DEF FindCurrent

LEMMA RecordStarts ==
    ASSUME EvalInv, NEW w \in Workers, InsertRecord(w)
    PROVE  /\ job[w] \in Jobs /\ UNCHANGED <<annotationTables, text, runTables>> /\ job[w].pc = "insert_record"
           /\ row[job[w].doc] # None => Finish(w)
           /\ row[job[w].doc] = None =>
                \E found \in Findings : Goto(w, [job[w] EXCEPT !.pc = "insert_field", !.value = found])
  <1>1. /\ job[w] \in Jobs /\ Working /\ GoldenTables /\ RowTables /\ RunTables /\ OnItsWay(job[w])
        /\ UNCHANGED <<annotationTables, text, runTables>> /\ job[w].doc \in text /\ job[w].doc \in Docs
        /\ job[w].pc = "insert_record"
    BY WorkerHolds DEF InsertRecord, At, Holds, OnItsWay, RowTables
  <1>2. row[job[w].doc] # None => Finish(w)
    BY <1>1 DEF InsertRecord
  <1>3. row[job[w].doc] = None =>
                \E found \in Findings : Goto(w, [job[w] EXCEPT !.pc = "insert_field", !.value = found])
    BY <1>1 DEF InsertRecord
  <1>4. QED
    BY <1>1, <1>2, <1>3

LEMMA FindReports ==
    ASSUME ReportInv, EvalInv', NEW w \in Workers, NEW d \in Docs, NEW f \in Fields,
           NEW v \in Values \cup {None}, FindCurrent(w, d, f, v)
    PROVE  ReportInv'
  <1>1. PICK c \in IF Live(d, f) = {} THEN {0} ELSE Live(d, f) :
          Goto(w, [Unemployed EXCEPT !.pc = "insert_annotation", !.op = "annotate", !.doc = d, !.field = f,
                                     !.value = v, !.current = c])
    BY FindsOne
  <1>2. PICK j : /\ j = [Unemployed EXCEPT !.pc = "insert_annotation", !.op = "annotate", !.doc = d, !.field = f,
                                           !.value = v, !.current = c]
                 /\ Goto(w, j)
    BY <1>1
  <1>3. j.pc \notin Reporting /\ j.op # "benchmark"
    BY <1>2 DEF Unemployed, Reporting
  <1>4. NotesStay /\ UNCHANGED runTables /\ job' = [job EXCEPT ![w] = j]
    BY <1>2, NotesUnchanged DEF FindCurrent, Goto
  <1>5. QED
    BY <1>3, <1>4, OtherKeeps, Aside

LEMMA InsertReports ==
    ASSUME ReportInv, EvalInv', NEW w \in Workers, InsertAnnotation(w)
    PROVE  ReportInv'
  <1>1. PICK k : k = job[w]
    OBVIOUS
  <1>2. NotesStay /\ UNCHANGED runTables
    <2>1. PICK note : annotation' = Append(annotation, note)
      BY DEF InsertAnnotation
    <2>2. annotation \in Seq(Notes)
      BY DEF ReportInv, EvalInv, GoldenTables
    <2>3. \A i \in DOMAIN annotation : i \in DOMAIN annotation' /\ annotation'[i] = annotation[i]
      BY <2>1, <2>2
    <2>4. QED
      BY <2>3 DEF NotesStay, InsertAnnotation
  <1>3. CASE k.current = 0
    BY <1>1, <1>2, <1>3, FinishReports DEF InsertAnnotation
  <1>4. CASE k.current # 0
    <2>1. PICK j : j = [k EXCEPT !.pc = "supersede", !.run = Len(annotation) + 1]
      OBVIOUS
    <2>2. k \in Jobs
      BY <1>1 DEF ReportInv, EvalInv, Working
    <2>3. j.pc = "supersede" /\ j.op = k.op /\ j.marks = k.marks /\ j.scored = k.scored
      BY <2>1, <2>2 DEF Jobs
    <2>4. Keeps(k)'
      BY <1>1, <1>2, KeepsStay DEF ReportInv, Accounting, InsertAnnotation, At, Reporting
    <2>5. Keeps(j)'
      <3>1. j.pc \notin Reporting /\ j.pc \notin InHand \cup {"annotations"}
        BY <2>3 DEF Reporting, InHand
      <3>2. k.op = "benchmark" => Tally(j.marks, j.scored)'
        BY <2>3, <2>4 DEF Keeps
      <3>3. QED
        BY <2>3, <3>1, <3>2 DEF Keeps, Scoring
    <2>6. job' = [job EXCEPT ![w] = j] /\ j.pc \notin Reporting
      BY <1>1, <1>4, <2>1, <2>3 DEF InsertAnnotation, Goto, Reporting
    <2>7. QED
      BY <1>2, <2>5, <2>6, Aside
  <1>5. QED
    BY <1>3, <1>4

LEMMA SupersedeReports ==
    ASSUME ReportInv, EvalInv', NEW w \in Workers, SupersedeAnnotation(w)
    PROVE  ReportInv'
  <1>1. NotesStay
    <2>1. annotation \in Seq(Notes)
      BY DEF ReportInv, EvalInv, GoldenTables
    <2>2. ASSUME NEW i \in DOMAIN annotation
          PROVE  /\ i \in DOMAIN annotation' /\ annotation'[i].doc = annotation[i].doc
                 /\ annotation'[i].field = annotation[i].field /\ annotation'[i].value = annotation[i].value
      <3>1. annotation[i] \in Notes
        BY <2>1
      <3>2. PICK n : annotation'[i] = annotation[i] \/ annotation'[i] = [annotation[i] EXCEPT !.next = n]
        BY DEF SupersedeAnnotation
      <3>3. i \in DOMAIN annotation'
        BY DEF SupersedeAnnotation
      <3>4. QED
        BY <3>1, <3>2, <3>3 DEF Notes
    <2>3. QED
      BY <2>2 DEF NotesStay
  <1>2. QED
    BY <1>1, FinishReports DEF SupersedeAnnotation

\* A document in hand stays in hand.
LEMMA CarriesOn ==
    ASSUME ReportInv, EvalInv', UNCHANGED annotationTables, UNCHANGED runTables, NEW w \in Workers,
           NEW j, job' = [job EXCEPT ![w] = j], job[w].pc \in InHand,
           j.op = "benchmark" => j.pc \in InHand, j.pc \notin Reporting, j.op = job[w].op, j.doc = job[w].doc,
           j.todo = job[w].todo, j.expected = job[w].expected, j.marks = job[w].marks, j.scored = job[w].scored
    PROVE  ReportInv'
  <1>1. NotesStay
    BY NotesUnchanged
  <1>2. PICK k : k = job[w]
    OBVIOUS
  <1>3. Keeps(k)
    BY <1>2 DEF ReportInv, Accounting
  <1>4. Keeps(j)
    <2>1. j.op = "benchmark" => Tally(j.marks, j.scored)
      BY <1>2, <1>3 DEF Keeps
    <2>2. j.op = "benchmark" => Scoring(j)
      BY <1>2, <1>3 DEF Keeps, Scoring
    <2>3. QED
      BY <2>1, <2>2 DEF Keeps
  <1>5. Keeps(j)'
    BY <1>1, <1>4, KeepsStay
  <1>6. QED
    BY <1>1, <1>5, Aside

LEMMA StoredReports ==
    ASSUME ReportInv, EvalInv', UNCHANGED annotationTables, UNCHANGED runTables, NEW w \in Workers,
           job[w].pc \in InHand, Stored(w)
    PROVE  ReportInv'
  <1>1. CASE job[w].op = "benchmark"
    <2>1. PICK j : j = [job[w] EXCEPT !.pc = "load"]
      OBVIOUS
    <2>2. job[w] \in Jobs
      BY DEF ReportInv, EvalInv, Working
    <2>3. /\ j.pc = "load" /\ j.op = job[w].op /\ j.doc = job[w].doc /\ j.todo = job[w].todo
          /\ j.expected = job[w].expected /\ j.marks = job[w].marks /\ j.scored = job[w].scored
      BY <2>1, <2>2 DEF Jobs
    <2>4. job' = [job EXCEPT ![w] = j]
      BY <1>1, <2>1 DEF Stored, Goto
    <2>5. j.pc \in InHand /\ j.pc \notin Reporting
      BY <2>3 DEF InHand, Reporting
    <2>6. QED
      BY <2>3, <2>4, <2>5, CarriesOn
  <1>2. CASE job[w].op # "benchmark"
    BY <1>2, NotesUnchanged, FinishReports DEF Stored
  <1>3. QED
    BY <1>1, <1>2

LEMMA LookUpReports ==
    ASSUME ReportInv, EvalInv', NEW w \in Workers, LookUpRecord(w)
    PROVE  ReportInv'
  <1>1. UNCHANGED annotationTables /\ UNCHANGED runTables /\ job[w].pc \in InHand
    BY DEF LookUpRecord, At, InHand
  <1>2. CASE row[job[w].doc] # None
    BY <1>1, <1>2, StoredReports DEF LookUpRecord
  <1>3. CASE row[job[w].doc] = None
    <2>1. PICK j : j = [job[w] EXCEPT !.pc = "insert_record"]
      OBVIOUS
    <2>2. job[w] \in Jobs
      BY DEF ReportInv, EvalInv, Working
    <2>3. /\ j.pc = "insert_record" /\ j.op = job[w].op /\ j.doc = job[w].doc /\ j.todo = job[w].todo
          /\ j.expected = job[w].expected /\ j.marks = job[w].marks /\ j.scored = job[w].scored
      BY <2>1, <2>2 DEF Jobs
    <2>4. job' = [job EXCEPT ![w] = j]
      BY <1>3, <2>1 DEF LookUpRecord, Goto
    <2>5. j.pc \in InHand /\ j.pc \notin Reporting
      BY <2>3 DEF InHand, Reporting
    <2>6. QED
      BY <1>1, <2>3, <2>4, <2>5, CarriesOn
  <1>4. QED
    BY <1>2, <1>3

LEMMA RecordReports ==
    ASSUME ReportInv, EvalInv', NEW w \in Workers, InsertRecord(w)
    PROVE  ReportInv'
  <1>1. PICK k : k = job[w]
    OBVIOUS
  <1>2. EvalInv
    BY DEF ReportInv
  <1>3. /\ k \in Jobs /\ UNCHANGED <<annotationTables, text, runTables>> /\ k.pc = "insert_record"
        /\ row[k.doc] # None => Finish(w)
        /\ row[k.doc] = None => \E found \in Findings : Goto(w, [k EXCEPT !.pc = "insert_field", !.value = found])
    BY <1>1, <1>2, RecordStarts
  <1>4. UNCHANGED annotationTables /\ UNCHANGED runTables /\ job[w].pc \in InHand
    BY <1>1, <1>3 DEF InHand
  <1>5. CASE row[k.doc] # None
    BY <1>3, <1>4, <1>5, NotesUnchanged, FinishReports
  <1>6. CASE row[k.doc] = None
    <2>1. PICK found \in Findings : Goto(w, [k EXCEPT !.pc = "insert_field", !.value = found])
      BY <1>3, <1>6
    <2>2. PICK j : j = [k EXCEPT !.pc = "insert_field", !.value = found] /\ Goto(w, j)
      BY <2>1
    <2>3. /\ j.pc = "insert_field" /\ j.op = k.op /\ j.doc = k.doc /\ j.todo = k.todo
          /\ j.expected = k.expected /\ j.marks = k.marks /\ j.scored = k.scored
      BY <1>3, <2>2 DEF Jobs
    <2>4. job' = [job EXCEPT ![w] = j]
      BY <2>2 DEF Goto
    <2>5. j.pc \in InHand /\ j.pc \notin Reporting
      BY <2>3 DEF InHand, Reporting
    <2>6. QED
      BY <1>1, <1>4, <2>3, <2>4, <2>5, CarriesOn
  <1>7. QED
    BY <1>5, <1>6

LEMMA FieldReports ==
    ASSUME ReportInv, EvalInv', NEW w \in Workers, InsertField(w)
    PROVE  ReportInv'
  <1>1. UNCHANGED annotationTables /\ UNCHANGED runTables /\ job[w].pc = "insert_field" /\ job[w].pc \in InHand
    BY DEF InsertField, At, InHand
  <1>2. CASE {f \in Fields : job[w].value[f] # None} = {}
    BY <1>1, <1>2, StoredReports DEF InsertField
  <1>3. CASE {f \in Fields : job[w].value[f] # None} # {}
    <2>1. PICK f, j : j = [job[w] EXCEPT !.value[f] = None] /\ Goto(w, j)
      BY <1>3 DEF InsertField
    <2>2. job[w] \in Jobs
      BY DEF ReportInv, EvalInv, Working
    <2>3. /\ j.pc = "insert_field" /\ j.op = job[w].op /\ j.doc = job[w].doc /\ j.todo = job[w].todo
          /\ j.expected = job[w].expected /\ j.marks = job[w].marks /\ j.scored = job[w].scored
      BY <1>1, <2>1, <2>2 DEF Jobs
    <2>4. job' = [job EXCEPT ![w] = j]
      BY <2>1 DEF Goto
    <2>5. j.pc \in InHand /\ j.pc \notin Reporting
      BY <2>3 DEF InHand, Reporting
    <2>6. QED
      BY <1>1, <2>3, <2>4, <2>5, CarriesOn
  <1>4. QED
    BY <1>2, <1>3

LEMMA IngestReports ==
    ASSUME ReportInv, EvalInv', NEW w \in Workers, NEW d, Ingest(w, d)
    PROVE  ReportInv'
  <1>1. PICK j : j = [Unemployed EXCEPT !.pc = "look_up_record", !.op = "ingest", !.doc = d]
    OBVIOUS
  <1>2. j.pc \notin Reporting /\ j.op # "benchmark"
    BY <1>1 DEF Unemployed, Reporting
  <1>3. NotesStay /\ UNCHANGED runTables /\ job' = [job EXCEPT ![w] = j]
    BY <1>1, NotesUnchanged DEF Ingest, Goto
  <1>4. QED
    BY <1>2, <1>3, OtherKeeps, Aside

LEMMA CorrectReports ==
    ASSUME ReportInv, EvalInv', NEW w \in Workers, NEW d, NEW f, NEW v, Correct(w, d, f, v)
    PROVE  ReportInv'
  <1>1. PICK j : j = job[w]
    OBVIOUS
  <1>2. NotesStay /\ UNCHANGED runTables /\ j.pc = "free" /\ job' = job
    BY <1>1, NotesUnchanged DEF Correct, At
  <1>3. j.pc \notin Reporting
    BY <1>2 DEF Reporting
  <1>4. Keeps(j)'
    BY <1>1, <1>2, <1>3, KeepsStay DEF ReportInv, Accounting
  <1>5. job' = [job EXCEPT ![w] = j]
    BY <1>1, <1>2 DEF ReportInv, EvalInv, Working
  <1>6. QED
    BY <1>2, <1>3, <1>4, <1>5, Aside

LEMMA BeginReports ==
    ASSUME ReportInv, EvalInv', NEW w \in Workers, BeginBenchmark(w)
    PROVE  ReportInv'
  <1>1. PICK j : j = [Unemployed EXCEPT !.pc = "annotations", !.op = "benchmark", !.todo = golden]
    OBVIOUS
  <1>2. j.pc = "annotations" /\ j.marks = {} /\ j.scored = 0 /\ j.pc \notin Reporting
    BY <1>1 DEF Unemployed, Reporting
  <1>3. NotesStay /\ UNCHANGED runTables /\ job' = [job EXCEPT ![w] = j]
    BY <1>1, NotesUnchanged DEF BeginBenchmark, Goto
  <1>4. Tally({}, 0)
    <2>1. \A f \in Fields : OfField({}, f) = {}
      BY DEF OfField
    <2>2. QED
      BY <2>1, FS_EmptySet DEF Tally, Single
  <1>5. Scoring(j)
    BY <1>2 DEF Scoring, InHand
  <1>6. Keeps(j)
    BY <1>2, <1>4, <1>5 DEF Keeps
  <1>7. QED
    BY <1>2, <1>3, <1>6, KeepsStay, Aside

\* What the benchmark compares with is what somebody annotated.
LEMMA AnnotationsJudged ==
    ASSUME GoldenTables, NEW d \in Docs, Complete(d), NEW f \in Fields
    PROVE  Judged(d, f, Annotations(d)[f])
  <1>1. Live(d, f) \in SUBSET (1 .. Len(annotation)) /\ Live(d, f) # {} /\ Len(annotation) \in Nat
    BY DEF Live, GoldenTables, Complete
  <1>2. PICK i : i = Max(Live(d, f))
    OBVIOUS
  <1>3. i \in Live(d, f)
    BY <1>1, <1>2, LargestMember
  <1>4. i \in DOMAIN annotation /\ annotation[i].doc = d /\ annotation[i].field = f
    BY <1>3 DEF Live
  <1>5. Annotations(d)[f] = annotation[i].value
    BY <1>1, <1>2 DEF Annotations
  <1>6. QED
    BY <1>4, <1>5 DEF Judged

LEMMA ReadReports ==
    ASSUME ReportInv, EvalInv', NEW w \in Workers, NEW d \in Docs, ReadAnnotations(w, d)
    PROVE  ReportInv'
  <1>1. PICK k : k = job[w]
    OBVIOUS
  <1>2. /\ k \in Jobs /\ k.pc = "annotations" /\ k.op = "benchmark" /\ GoldenTables
    BY <1>1, WorkerHolds DEF ReportInv, ReadAnnotations, At, Holds
  <1>3. Tally(k.marks, k.scored) /\ \A m \in k.marks : m.doc \notin k.todo
    <2>1. Keeps(k)
      BY <1>1 DEF ReportInv, Accounting
    <2>2. QED
      BY <1>2, <2>1 DEF Keeps, Scoring
  <1>4. NotesStay /\ UNCHANGED runTables /\ d \in k.todo
    BY <1>1, NotesUnchanged DEF ReadAnnotations
  <1>5. CASE Complete(d) /\ d \in text
    <2>1. PICK e, j : /\ e = Annotations(d)
                      /\ j = [k EXCEPT !.pc = "look_up_record", !.doc = d, !.todo = @ \ {d}, !.expected = e]
      OBVIOUS
    <2>2. /\ j.pc = "look_up_record" /\ j.op = "benchmark" /\ j.doc = d /\ j.todo = k.todo \ {d} /\ j.expected = e
          /\ j.marks = k.marks /\ j.scored = k.scored /\ j.pc \notin Reporting
      BY <1>2, <2>1, ZenonT(60) DEF Jobs, Reporting
    <2>3. \A f \in Fields : Judged(d, f, e[f])
      BY <1>2, <1>5, <2>1, AnnotationsJudged
    <2>4. \A m \in j.marks : m.doc \notin j.todo /\ m.doc # j.doc
      BY <1>3, <1>4, <2>2
    <2>5. Scoring(j)
      BY <2>2, <2>3, <2>4 DEF Scoring
    <2>6. Keeps(j)
      BY <1>3, <2>2, <2>5 DEF Keeps
    <2>7. job' = [job EXCEPT ![w] = j]
      BY <1>1, <1>5, <2>1 DEF ReadAnnotations, Goto
    <2>8. QED
      BY <1>4, <2>2, <2>6, <2>7, KeepsStay, Aside
  <1>6. CASE ~ (Complete(d) /\ d \in text)
    <2>1. PICK j : j = [k EXCEPT !.todo = @ \ {d}, !.skipped = @ + 1]
      OBVIOUS
    <2>2. /\ j.pc = "annotations" /\ j.op = "benchmark" /\ j.todo = k.todo \ {d}
          /\ j.marks = k.marks /\ j.scored = k.scored
      BY <1>2, <2>1 DEF Jobs
    <2>3. j.pc \notin Reporting /\ j.pc \notin InHand
      BY <2>2 DEF Reporting, InHand
    <2>4. Scoring(j)
      BY <1>3, <2>2, <2>3 DEF Scoring
    <2>5. Keeps(j)
      BY <1>3, <2>2, <2>3, <2>4 DEF Keeps
    <2>6. job' = [job EXCEPT ![w] = j]
      BY <1>1, <1>6, <2>1 DEF ReadAnnotations, Goto
    <2>7. QED
      BY <1>4, <2>3, <2>5, <2>6, KeepsStay, Aside
  <1>7. QED
    BY <1>5, <1>6

NewMarks(d, e, a) == {[doc |-> d, field |-> f, expected |-> e[f], actual |-> a[f]] : f \in Fields}

\* A document that is scored has one mark more for every field.
LEMMA OneMore ==
    ASSUME NEW M, NEW n, Tally(M, n), NEW d, NEW e \in [Fields -> Values \cup {None}], NEW a,
           \A m \in M : m.doc # d, \A f \in Fields : Judged(d, f, e[f]),
           NEW N, N = M \cup NewMarks(d, e, a), N \subseteq Marks
    PROVE  Tally(N, n + 1)
  <1>1. PICK mark : mark = [f \in Fields |-> [doc |-> d, field |-> f, expected |-> e[f], actual |-> a[f]]]
    OBVIOUS
  <1>2. \A f \in Fields : mark[f].doc = d /\ mark[f].field = f /\ mark[f].expected = e[f]
    BY <1>1
  <1>3. N = M \cup {mark[f] : f \in Fields}
    BY <1>1 DEF NewMarks
  <1>4. \A m \in N : m \in M \/ \E f \in Fields : m = mark[f]
    BY <1>3
  <1>5. Single(N)
    <2>1. ASSUME NEW m \in N, NEW k \in N, m.doc = k.doc, m.field = k.field
          PROVE  m = k
      <3>1. CASE m \in M /\ k \in M
        BY <2>1, <3>1 DEF Tally, Single
      <3>2. CASE m \notin M
        BY <1>2, <1>4, <2>1, <3>2
      <3>3. CASE k \notin M
        BY <1>2, <1>4, <2>1, <3>3
      <3>4. QED
        BY <3>1, <3>2, <3>3
    <2>2. QED
      BY <2>1 DEF Single
  <1>6. \A m \in N : Judged(m.doc, m.field, m.expected)
    <2>1. ASSUME NEW m \in N
          PROVE  Judged(m.doc, m.field, m.expected)
      <3>1. CASE m \in M
        BY <3>1 DEF Tally
      <3>2. CASE m \notin M
        <4>1. PICK f \in Fields : m = mark[f]
          BY <1>4, <3>2
        <4>2. Judged(d, f, e[f]) /\ m.doc = d /\ m.field = f /\ m.expected = e[f]
          BY <1>2, <4>1
        <4>3. QED
          BY <4>2
      <3>3. QED
        BY <3>1, <3>2
    <2>2. QED
      BY <2>1
  <1>7. ASSUME NEW f \in Fields
        PROVE  IsFiniteSet(OfField(N, f)) /\ Cardinality(OfField(N, f)) = n + 1
    <2>1. OfField(N, f) = OfField(M, f) \cup {mark[f]}
      BY <1>2, <1>3, <1>4 DEF OfField
    <2>2. mark[f] \notin OfField(M, f)
      BY <1>2 DEF OfField
    <2>3. IsFiniteSet(OfField(M, f)) /\ Cardinality(OfField(M, f)) = n
      BY DEF Tally
    <2>4. QED
      <3>1. PICK A, x : A = OfField(M, f) /\ x = mark[f]
        OBVIOUS
      <3>2. IsFiniteSet(A) /\ Cardinality(A) = n /\ x \notin A
        BY <2>2, <2>3, <3>1
      <3>3. IsFiniteSet(A \cup {x}) /\ Cardinality(A \cup {x}) = n + 1
        BY ONLY <3>2, FS_AddElement
      <3>4. QED
        BY <2>1, <3>1, <3>3
  <1>8. n + 1 \in Nat
    BY DEF Tally
  <1>9. QED
    BY <1>5, <1>6, <1>7, <1>8 DEF Tally

LEMMA ScoreReports ==
    ASSUME ReportInv, EvalInv', NEW w \in Workers, Score(w)
    PROVE  ReportInv'
  <1>1. PICK k : k = job[w]
    OBVIOUS
  <1>2. k \in Jobs /\ k.pc = "load" /\ k.op = "benchmark" /\ k.expected \in [Fields -> Values \cup {None}]
    BY <1>1, WorkerHolds DEF ReportInv, Score, At, Holds, OnItsWay
  <1>3. /\ Tally(k.marks, k.scored) /\ \A m \in k.marks : m.doc \notin k.todo /\ m.doc # k.doc
        /\ k.doc \notin k.todo /\ \A f \in Fields : Judged(k.doc, f, k.expected[f])
    <2>1. Keeps(k)
      BY <1>1 DEF ReportInv, Accounting
    <2>2. k.pc \in InHand
      BY <1>2 DEF InHand
    <2>3. QED
      BY <1>2, <2>1, <2>2 DEF Keeps, Scoring
  <1>4. NotesStay /\ UNCHANGED runTables
    BY NotesUnchanged DEF Score
  <1>5. DOMAIN k.expected = Fields
    BY <1>2
  <1>6. PICK d, e, a : d = k.doc /\ e = k.expected /\ a = row[k.doc]
    OBVIOUS
  <1>7. PICK j : j = [k EXCEPT !.pc = "annotations", !.scored = @ + 1, !.marks = @ \cup NewMarks(d, e, a)]
    OBVIOUS
  <1>8. job' = [job EXCEPT ![w] = j]
    BY <1>1, <1>5, <1>6, <1>7 DEF Score, Goto, NewMarks
  <1>9. /\ j.pc = "annotations" /\ j.scored = k.scored + 1 /\ j.marks = k.marks \cup NewMarks(d, e, a) /\ j.op = "benchmark"
        /\ j.todo = k.todo
    BY <1>2, <1>7 DEF Jobs
  <1>10. j \in Jobs
    <2>1. job' \in [Workers -> Jobs] /\ job'[w] = j
      BY <1>8 DEF EvalInv, ReportInv, Working
    <2>2. QED
      BY <2>1
  <1>11. Tally(j.marks, j.scored)
    <2>1. PICK M, n, N : M = k.marks /\ n = k.scored /\ N = j.marks
      OBVIOUS
    <2>2. /\ Tally(M, n) /\ e \in [Fields -> Values \cup {None}] /\ N \subseteq Marks
          /\ \A m \in M : m.doc # d
      BY <1>2, <1>3, <1>6, <1>10, <2>1 DEF Jobs
    <2>3. \A f \in Fields : Judged(d, f, e[f])
      BY <1>3, <1>6
    <2>4. N = M \cup NewMarks(d, e, a)
      BY <1>6, <1>9, <2>1
    <2>5. Tally(N, n + 1)
      BY ONLY <2>2, <2>3, <2>4, OneMore
    <2>6. QED
      BY <1>9, <2>1, <2>5
  <1>12. \A m \in j.marks : m.doc \notin j.todo
    <2>1. \A m \in NewMarks(d, e, a) : m.doc = k.doc
      BY <1>6 DEF NewMarks
    <2>2. QED
      BY <1>3, <1>9, <2>1
  <1>13. j.pc \notin Reporting /\ j.pc \notin InHand
    BY <1>9 DEF Reporting, InHand
  <1>14. Keeps(j)
    BY <1>11, <1>12, <1>13 DEF Keeps, Scoring
  <1>15. QED
    BY <1>4, <1>8, <1>13, <1>14, KeepsStay, Aside

LEMMA RunReports ==
    ASSUME ReportInv, EvalInv', NEW w \in Workers, InsertRun(w)
    PROVE  ReportInv'
  <1>1. PICK k, r : k = job[w] /\ r = Len(runs) + 1
    OBVIOUS
  <1>2. k \in Jobs /\ k.pc = "annotations" /\ k.op = "benchmark" /\ RunTables
    BY <1>1, WorkerHolds DEF ReportInv, InsertRun, At, Holds
  <1>3. Tally(k.marks, k.scored)
    BY <1>1, <1>2 DEF ReportInv, Accounting, Keeps
  <1>4. /\ UNCHANGED <<annotationTables, extractionTables, failure, snapshot, answered>>
        /\ NotesStay
    BY NotesUnchanged DEF InsertRun
  <1>5. PICK stats, x : /\ stats = [f \in Fields |-> FieldStats(k.marks, f)]
                        /\ x = [scored |-> k.scored, skipped |-> k.skipped, stats |-> stats, met |-> TargetsMet(stats)]
    OBVIOUS
  <1>6. runs' = Append(runs, x)
    BY <1>1, <1>5 DEF InsertRun
  <1>7. /\ r \in DOMAIN runs' /\ runs'[r] = x /\ r \notin DOMAIN runs
        /\ \A i \in DOMAIN runs : i \in DOMAIN runs' /\ runs'[i] = runs[i]
    BY <1>1, <1>2, <1>6 DEF RunTables
  <1>8. PICK j : j = [k EXCEPT !.pc = "failures", !.run = r, !.doc = None, !.expected = None, !.todo = Wrongs(k.marks)]
    OBVIOUS
  <1>9. job' = [job EXCEPT ![w] = j]
    BY <1>1, <1>8 DEF InsertRun, Goto, Wrongs
  <1>10. /\ j.pc = "failures" /\ j.op = "benchmark" /\ j.run = r /\ j.todo = Wrongs(k.marks)
         /\ j.marks = k.marks /\ j.scored = k.scored
    BY <1>2, <1>8, ZenonT(60) DEF Jobs
  <1>11. ASSUME NEW i \in DOMAIN runs
         PROVE  SameRun(i) /\ i # r
    BY <1>4, <1>7 DEF SameRun
  <1>12. answered' = answered /\ answered \subseteq DOMAIN runs
    BY <1>4 DEF ReportInv, Accounting
  <1>13. Reports(j)'
    <2>1. r \notin answered'
      BY <1>7, <1>12
    <2>2. Summed(r, k.marks, k.scored)'
      BY <1>5, <1>7 DEF Summed
    <2>3. FailuresOf(r)' = {} /\ BucketsOf(r)' = {}
      BY <1>2, <1>4, <1>7 DEF RunTables, FailuresOf, BucketsOf
    <2>4. Listed(r, {})'
      BY <2>3 DEF Listed
    <2>5. PICK M : M = Wrongs(k.marks)
      OBVIOUS
    <2>6. M \subseteq M /\ M \ M = {}
      OBVIOUS
    <2>7. QED
      BY <1>10, <2>1, <2>2, <2>3, <2>4, <2>5, <2>6 DEF Reports
  <1>14. Tally(k.marks, k.scored)'
    BY <1>3, <1>4, TallyStays
  <1>15. Keeps(j)'
    <2>1. j.pc \in Reporting /\ j.pc \notin InHand \cup {"annotations"}
      BY <1>10 DEF Reporting, InHand
    <2>2. Scoring(j)'
      BY <2>1 DEF Scoring
    <2>3. QED
      BY <1>10, <1>13, <1>14, <2>1, <2>2 DEF Keeps
  <1>16. ASSUME NEW v \in Workers \ {w}, job[v].pc \in Reporting
         PROVE  SameRun(job[v].run) /\ job[v].run \notin answered' /\ job[v].run # j.run
    <2>1. PICK i : i = job[v].run
      OBVIOUS
    <2>2. i \in DOMAIN runs
      BY <1>16, <2>1, WorkerHolds DEF ReportInv, Holds, Reporting
    <2>3. i \notin answered
      BY <1>16, <2>1 DEF ReportInv, Accounting, Keeps, Reports
    <2>4. SameRun(i) /\ i # j.run
      BY <1>10, <1>11, <2>2
    <2>5. QED
      BY <1>12, <2>1, <2>3, <2>4
  <1>17. \A i \in answered' : \A f \in Fields : AccountedFor(i, f)'
    <2>1. \A i \in answered : \A f \in Fields : AccountedFor(i, f)
      BY DEF ReportInv, Accounting, RunAccounts
    <2>2. \A i \in answered : SameRun(i)
      BY <1>11, <1>12
    <2>3. QED
      BY <1>4, <1>12, <2>1, <2>2, AccountedStays
  <1>18. answered' \subseteq DOMAIN runs'
    BY <1>7, <1>12
  <1>19. QED
    BY <1>4, <1>9, <1>15, <1>16, <1>17, <1>18, OneReports

\* What an invariant and a job under way have established, when it writes the rows of its run.
LEMMA Writing ==
    ASSUME ReportInv, NEW w \in Workers, job[w].pc \in Reporting
    PROVE  /\ job[w] \in Jobs /\ job[w].run \in DOMAIN runs /\ job[w].op = "benchmark" /\ job[w].run \notin answered
           /\ Tally(job[w].marks, job[w].scored) /\ Reports(job[w])
           /\ \A v \in Workers \ {w} : job[v].pc \in Reporting => job[v].run # job[w].run /\ job[v].run \notin answered
           /\ answered \subseteq DOMAIN runs /\ \A r \in answered : \A f \in Fields : AccountedFor(r, f)
  <1>1. job[w] \in Jobs /\ Holds(job[w])
    BY WorkerHolds DEF ReportInv
  <1>2. /\ Keeps(job[w]) /\ Apart /\ answered \subseteq DOMAIN runs /\ RunAccounts
        /\ \A v \in Workers : Keeps(job[v])
    BY DEF ReportInv, Accounting
  <1>3. job[w].run \in DOMAIN runs
    BY <1>1 DEF Holds, Reporting
  <1>4. job[w].op = "benchmark" /\ Tally(job[w].marks, job[w].scored) /\ Reports(job[w])
    BY <1>2 DEF Keeps
  <1>5. \A v \in Workers : job[v].pc \in Reporting => job[v].run \notin answered
    BY <1>2 DEF Keeps, Reports
  <1>6. QED
    BY <1>1, <1>2, <1>3, <1>4, <1>5 DEF Apart, RunAccounts

\* A step that writes rows of one run only.
LEMMA WritesOwn ==
    ASSUME ReportInv, EvalInv', NEW w \in Workers, job[w].pc \in Reporting, UNCHANGED <<annotation, runs, answered>>,
           \A r : r # job[w].run => SameRun(r),
           NEW j, job' = [job EXCEPT ![w] = j], j.op = "benchmark", j.pc \in Reporting, j.run = job[w].run,
           j.marks = job[w].marks, j.scored = job[w].scored, Reports(j)'
    PROVE  ReportInv'
  <1>1. PICK k : k = job[w]
    OBVIOUS
  <1>2. /\ Tally(k.marks, k.scored) /\ k.run \notin answered
        /\ \A v \in Workers \ {w} : job[v].pc \in Reporting => job[v].run # k.run /\ job[v].run \notin answered
        /\ answered \subseteq DOMAIN runs /\ \A r \in answered : \A f \in Fields : AccountedFor(r, f)
    BY <1>1, Writing
  <1>3. NotesStay
    BY NotesUnchanged
  <1>4. Keeps(j)'
    <2>1. Tally(k.marks, k.scored)'
      BY <1>2, <1>3, TallyStays
    <2>2. j.pc \notin InHand \cup {"annotations"}
      BY DEF Reporting, InHand
    <2>3. Scoring(j)'
      BY <2>2 DEF Scoring
    <2>4. QED
      BY <1>1, <2>1, <2>3 DEF Keeps
  <1>5. \A v \in Workers \ {w} : job[v].pc \in Reporting =>
            SameRun(job[v].run) /\ job[v].run \notin answered' /\ job[v].run # j.run
    BY <1>1, <1>2
  <1>6. \A r \in answered' : \A f \in Fields : AccountedFor(r, f)'
    <2>1. \A r \in answered : r # k.run /\ SameRun(r)
      BY <1>1, <1>2
    <2>2. QED
      BY <1>2, <1>3, <2>1, AccountedStays
  <1>7. answered' \subseteq DOMAIN runs'
    BY <1>2
  <1>8. QED
    BY <1>3, <1>4, <1>5, <1>6, <1>7, OneReports

LEMMA FailureReports ==
    ASSUME ReportInv, EvalInv', NEW w \in Workers, RecordFailure(w)
    PROVE  ReportInv'
  <1>1. PICK k : k = job[w]
    OBVIOUS
  <1>2. job[w].pc = "failures" /\ UNCHANGED <<annotationTables, extractionTables, runs, snapshot, answered>>
    BY DEF RecordFailure, At
  <1>3. job[w].pc \in Reporting /\ UNCHANGED <<annotation, runs, answered>>
    BY <1>2 DEF Reporting, annotationTables
  <1>4. k \in Jobs /\ k.op = "benchmark" /\ k.run \notin answered /\ Reports(k)
    BY <1>1, <1>3, Writing
  <1>5. /\ Summed(k.run, k.marks, k.scored) /\ k.todo \subseteq Wrongs(k.marks) /\ BucketsOf(k.run) = {}
        /\ FailuresOf(k.run) = {FailureRow(k.run, m) : m \in Wrongs(k.marks) \ k.todo}
    BY <1>1, <1>2, <1>4 DEF Reports, Listed
  <1>6. Summed(k.run, k.marks, k.scored)' /\ BucketsOf(k.run)' = {} /\ k.run \notin answered'
    BY <1>2, <1>4, <1>5 DEF Summed, BucketsOf
  <1>7. CASE \E m \in k.todo : failure' = failure \cup {FailureRow(k.run, m)} /\ Goto(w, [k EXCEPT !.todo = @ \ {m}])
    <2>1. PICK m \in k.todo : failure' = failure \cup {FailureRow(k.run, m)} /\ Goto(w, [k EXCEPT !.todo = @ \ {m}])
      BY <1>7
    <2>2. PICK j : j = [k EXCEPT !.todo = @ \ {m}]
      OBVIOUS
    <2>3. /\ j.pc = "failures" /\ j.op = "benchmark" /\ j.run = k.run /\ j.todo = k.todo \ {m}
          /\ j.marks = k.marks /\ j.scored = k.scored
      BY <1>1, <1>2, <1>4, <2>2 DEF Jobs
    <2>4. FailureRow(k.run, m).run = k.run
      BY DEF FailureRow
    <2>5. \A r : r # k.run => SameRun(r)
      BY <1>2, <2>1, <2>4 DEF SameRun
    <2>6. FailuresOf(k.run)' = FailuresOf(k.run) \cup {FailureRow(k.run, m)}
      BY <2>1, <2>4 DEF FailuresOf
    <2>7. Wrongs(k.marks) \ (k.todo \ {m}) = (Wrongs(k.marks) \ k.todo) \cup {m}
      BY <1>5, <2>1
    <2>8. PICK A : A = Wrongs(k.marks) \ k.todo
      OBVIOUS
    <2>9. FailuresOf(k.run)' = {FailureRow(k.run, o) : o \in A \cup {m}}
      <3>1. FailuresOf(k.run) = {FailureRow(k.run, o) : o \in A}
        BY <1>5, <2>8
      <3>2. QED
        BY ONLY <2>6, <3>1
    <2>10. Listed(k.run, Wrongs(k.marks) \ (k.todo \ {m}))'
      BY <2>7, <2>8, <2>9 DEF Listed
    <2>11. k.todo \ {m} \subseteq Wrongs(k.marks)
      BY <1>5
    <2>12. Reports(j)'
      BY <1>6, <2>3, <2>10, <2>11 DEF Reports
    <2>13. j.pc \in Reporting /\ job' = [job EXCEPT ![w] = j]
      BY <2>1, <2>2, <2>3 DEF Reporting, Goto
    <2>14. QED
      BY <1>1, <1>3, <2>3, <2>5, <2>12, <2>13, WritesOwn
  <1>8. CASE k.todo = {} /\ UNCHANGED failure /\ Goto(w, [k EXCEPT !.pc = "calibrate", !.todo = Seens(k.marks)])
    <2>1. PICK j : j = [k EXCEPT !.pc = "calibrate", !.todo = Seens(k.marks)]
      OBVIOUS
    <2>2. /\ j.pc = "calibrate" /\ j.op = "benchmark" /\ j.run = k.run /\ j.todo = Seens(k.marks)
          /\ j.marks = k.marks /\ j.scored = k.scored
      BY <1>1, <1>2, <1>4, <2>1 DEF Jobs
    <2>3. \A r : SameRun(r)
      BY <1>2, <1>8 DEF SameRun
    <2>4. Wrongs(k.marks) \ k.todo = Wrongs(k.marks)
      BY <1>8
    <2>5. Listed(k.run, Wrongs(k.marks))'
      <3>1. FailuresOf(k.run)' = FailuresOf(k.run)
        BY <1>8 DEF FailuresOf
      <3>2. FailuresOf(k.run)' = {FailureRow(k.run, m) : m \in Wrongs(k.marks)}
        BY <1>5, <2>4, <3>1
      <3>3. QED
        BY <3>2 DEF Listed
    <2>6. PICK S : S = Seens(k.marks)
      OBVIOUS
    <2>7. Graded(k.run, k.marks, S)'
      <3>1. Seens(k.marks) \ S = {}
        BY <2>6
      <3>2. QED
        BY <1>6, <3>1 DEF Graded
    <2>8. \A m \in S : Group(k.marks, m) \subseteq S
      BY <2>6 DEF Group
    <2>9. Reports(j)'
      <3>1. j.pc # "failures" /\ j.run \notin answered' /\ Summed(j.run, j.marks, j.scored)'
        BY <1>6, <2>2
      <3>2. /\ j.todo \subseteq Seens(j.marks) /\ \A m \in j.todo : Group(j.marks, m) \subseteq j.todo
            /\ Listed(j.run, Wrongs(j.marks))' /\ Graded(j.run, j.marks, j.todo)'
        BY <2>2, <2>5, <2>6, <2>7, <2>8
      <3>3. QED
        BY <3>1, <3>2 DEF Reports
    <2>10. j.pc \in Reporting /\ job' = [job EXCEPT ![w] = j]
      BY <1>8, <2>1, <2>2 DEF Reporting, Goto
    <2>11. QED
      BY <1>1, <1>3, <2>2, <2>3, <2>9, <2>10, WritesOwn
  <1>9. QED
    BY <1>1, <1>7, <1>8 DEF RecordFailure, FailureRow, Seens

LEMMA CalibrationReports ==
    ASSUME ReportInv, EvalInv', NEW w \in Workers, Calibrate(w)
    PROVE  ReportInv'
  <1>1. PICK k, M : k = job[w] /\ M = job[w].marks
    OBVIOUS
  <1>2. job[w].pc = "calibrate" /\ UNCHANGED <<annotationTables, extractionTables, runs, failure>>
    BY DEF Calibrate, At
  <1>3. job[w].pc \in Reporting /\ UNCHANGED <<annotation, runs, failure>> /\ NotesStay
    BY <1>2, NotesUnchanged DEF Reporting, annotationTables
  <1>4. /\ k \in Jobs /\ k.op = "benchmark" /\ k.run \notin answered /\ Reports(k) /\ Tally(M, k.scored)
        /\ k.run \in DOMAIN runs /\ M = k.marks
    BY <1>1, <1>3, Writing
  <1>5. /\ Summed(k.run, M, k.scored) /\ k.todo \subseteq Seens(M) /\ \A m \in k.todo : Group(M, m) \subseteq k.todo
        /\ Listed(k.run, Wrongs(M)) /\ Graded(k.run, M, k.todo)
    BY <1>1, <1>2, <1>4 DEF Reports
  <1>6. CASE \E m \in k.todo :
               LET group == {o \in k.todo : Alike(o, m)}
               IN /\ snapshot' = snapshot \cup
                       {[run |-> k.run, field |-> m.field, bucket |-> Bucket(m.actual.confidence),
                         predictions |-> Cardinality(group), correct |-> Cardinality(Right(group))]}
                  /\ Goto(w, [k EXCEPT !.todo = @ \ group])
                  /\ UNCHANGED answered
    <2>1. PICK m \in k.todo :
               LET group == {o \in k.todo : Alike(o, m)}
               IN /\ snapshot' = snapshot \cup
                       {[run |-> k.run, field |-> m.field, bucket |-> Bucket(m.actual.confidence),
                         predictions |-> Cardinality(group), correct |-> Cardinality(Right(group))]}
                  /\ Goto(w, [k EXCEPT !.todo = @ \ group])
                  /\ UNCHANGED answered
      BY <1>6
    <2>2. PICK group : group = {o \in k.todo : Alike(o, m)}
      OBVIOUS
    <2>3. group = Group(M, m)
      <3>1. Group(M, m) \subseteq k.todo /\ k.todo \subseteq Seens(M)
        BY <1>5
      <3>2. Group(M, m) = {o \in Seens(M) : Alike(o, m)}
        BY DEF Group
      <3>3. QED
        BY <2>2, <3>1, <3>2
    <2>4. /\ snapshot' = snapshot \cup {Cell(k.run, M, m)} /\ Goto(w, [k EXCEPT !.todo = @ \ group])
          /\ UNCHANGED answered
      BY <2>1, <2>2, <2>3 DEF Cell
    <2>5. PICK j : j = [k EXCEPT !.todo = @ \ group]
      OBVIOUS
    <2>6. /\ j.pc = "calibrate" /\ j.op = "benchmark" /\ j.run = k.run /\ j.todo = k.todo \ group
          /\ j.marks = M /\ j.scored = k.scored
      BY <1>1, <1>2, <1>4, <2>5 DEF Jobs
    <2>7. Cell(k.run, M, m).run = k.run
      BY CellsOf
    <2>8. \A r : r # k.run => SameRun(r)
      BY <1>3, <2>4, <2>7 DEF SameRun
    <2>9. BucketsOf(k.run)' = BucketsOf(k.run) \cup {Cell(k.run, M, m)}
      BY <2>4, <2>7 DEF BucketsOf
    <2>10. \A o \in group : Cell(k.run, M, o) = Cell(k.run, M, m)
      BY <2>2, CellsOf
    <2>11. m \in group /\ group \subseteq k.todo
      BY <2>1, <2>2 DEF Alike
    <2>12. PICK A : A = Seens(M) \ k.todo
      OBVIOUS
    <2>13. Seens(M) \ (k.todo \ group) = A \cup group
      BY <1>5, <2>11, <2>12
    <2>14. BucketsOf(k.run)' = {Cell(k.run, M, o) : o \in A \cup group}
      <3>1. BucketsOf(k.run) = {Cell(k.run, M, o) : o \in A}
        BY <1>5, <2>12 DEF Graded
      <3>2. QED
        BY ONLY <2>9, <2>10, <2>11, <3>1
    <2>15. Graded(k.run, M, k.todo \ group)'
      BY <2>13, <2>14 DEF Graded
    <2>16. ASSUME NEW o \in k.todo \ group
           PROVE  Group(M, o) \subseteq k.todo \ group
      <3>1. Group(M, o) \subseteq k.todo
        BY <1>5
      <3>2. ASSUME NEW p \in Group(M, o)
            PROVE  p \notin group
        BY <2>2, <2>16, <3>2 DEF Group, Alike
      <3>3. QED
        BY <3>1, <3>2
    <2>17. Listed(k.run, Wrongs(M))' /\ Summed(k.run, M, k.scored)' /\ k.run \notin answered'
      BY <1>3, <1>4, <1>5, <2>4 DEF Listed, FailuresOf, Summed
    <2>18. Reports(j)'
      <3>1. j.pc # "failures" /\ j.run \notin answered' /\ Summed(j.run, j.marks, j.scored)'
        BY <2>6, <2>17
      <3>2. /\ j.todo \subseteq Seens(j.marks) /\ \A o \in j.todo : Group(j.marks, o) \subseteq j.todo
            /\ Listed(j.run, Wrongs(j.marks))' /\ Graded(j.run, j.marks, j.todo)'
        BY <1>5, <2>6, <2>15, <2>16, <2>17
      <3>3. QED
        BY <3>1, <3>2 DEF Reports
    <2>19. j.pc \in Reporting /\ job' = [job EXCEPT ![w] = j]
      BY <2>4, <2>5, <2>6 DEF Reporting, Goto
    <2>20. UNCHANGED <<annotation, runs, answered>>
      BY <1>3, <2>4
    <2>21. QED
      BY <1>1, <1>3, <2>6, <2>8, <2>18, <2>19, <2>20, WritesOwn
  <1>7. CASE k.todo = {} /\ answered' = answered \cup {k.run} /\ Finish(w) /\ UNCHANGED snapshot
    <2>1. \A r : SameRun(r)
      BY <1>3, <1>7 DEF SameRun
    <2>2. \A f \in Fields : AccountedFor(k.run, f)
      <3>1. PICK r, n : r = k.run /\ n = k.scored
        OBVIOUS
      <3>2. Tally(M, n) /\ Summed(r, M, n) /\ Listed(r, Wrongs(M)) /\ Graded(r, M, {})
        BY <1>4, <1>5, <1>7, <3>1
      <3>3. \A f \in Fields : AccountedFor(r, f)
        BY ONLY <3>2, Accounted
      <3>4. QED
        BY <3>1, <3>3
    <2>3. \A r \in answered' : \A f \in Fields : AccountedFor(r, f)'
      <3>1. \A r \in answered' : \A f \in Fields : AccountedFor(r, f)
        BY <1>1, <1>3, <1>7, <2>2, Writing
      <3>2. QED
        BY <1>3, <2>1, <3>1, AccountedStays
    <2>4. \A v \in Workers \ {w} : job[v].pc \in Reporting => SameRun(job[v].run) /\ job[v].run \notin answered'
      BY <1>1, <1>3, <1>7, <2>1, Writing
    <2>5. answered' \subseteq DOMAIN runs'
      BY <1>1, <1>3, <1>4, <1>7, Writing
    <2>6. job' = [job EXCEPT ![w] = Unemployed]
      BY <1>7 DEF Finish, Goto
    <2>7. PICK j : j = Unemployed
      OBVIOUS
    <2>8. Keeps(j)' /\ j.pc \notin Reporting
      BY <2>7 DEF Unemployed, Keeps, Reporting
    <2>9. QED
      BY <1>3, <2>3, <2>4, <2>5, <2>6, <2>7, <2>8, OneReports
  <1>8. QED
    BY <1>1, <1>4, <1>6, <1>7 DEF Calibrate, Alike, Right

LEMMA ReportInit == EvalInit => ReportInv
  <1>1. SUFFICES ASSUME EvalInit
                 PROVE  ReportInv
    OBVIOUS
  <1>2. \A w \in Workers : job[w] = Unemployed
    BY <1>1 DEF EvalInit
  <1>3. Keeps(Unemployed) /\ Unemployed.pc \notin Reporting
    BY DEF Unemployed, Keeps, Reporting
  <1>4. answered = {}
    BY <1>1 DEF EvalInit
  <1>5. QED
    BY <1>1, <1>2, <1>3, <1>4, EvalInitInv DEF ReportInv, Accounting, Apart, RunAccounts

LEMMA ReportStep == ReportInv /\ [EvalNext]_evalVars => ReportInv'
  <1>1. SUFFICES ASSUME ReportInv, [EvalNext]_evalVars
                 PROVE  ReportInv'
    OBVIOUS
  <1>2. EvalInv'
    BY <1>1, EvalInvStep DEF ReportInv
  <1>3. CASE UNCHANGED evalVars
    <2>1. /\ UNCHANGED runTables /\ NotesStay /\ job' = job
      BY <1>3, NotesUnchanged DEF evalVars
    <2>2. /\ answered' = answered /\ runs' = runs /\ \A r : SameRun(r)
      BY <2>1 DEF runTables, SameRun
    <2>3. /\ \A w \in Workers : Keeps(job[w]) /\ (job[w].pc \in Reporting => job[w].run \notin answered)
          /\ Apart /\ answered \subseteq DOMAIN runs /\ \A r \in answered : \A f \in Fields : AccountedFor(r, f)
      BY <1>1 DEF ReportInv, Accounting, RunAccounts, Keeps, Reports
    <2>4. ASSUME NEW w \in Workers
          PROVE  Keeps(job[w])'
      <3>1. PICK k : k = job[w]
        OBVIOUS
      <3>2. Keeps(k)'
        BY <2>1, <2>2, <2>3, <3>1, KeepsStay
      <3>3. job'[w] = k
        BY <2>1, <3>1
      <3>4. QED
        BY <3>2, <3>3
    <2>5. \A r \in answered : \A f \in Fields : AccountedFor(r, f)'
      BY <2>1, <2>2, <2>3, AccountedStays
    <2>6. RunAccounts' /\ Apart' /\ answered' \subseteq DOMAIN runs'
      BY <2>1, <2>2, <2>3, <2>5 DEF RunAccounts, Apart
    <2>7. QED
      BY <1>2, <2>4, <2>6 DEF ReportInv, Accounting
  <1>4. CASE EvalNext
    <2>1. PICK w \in Workers :
            \/ EvalStep(w) \/ BeginBenchmark(w) \/ Killed(w)
            \/ \E d \in Docs : LookUpGolden(w, d) \/ Ingest(w, d)
            \/ \E d \in Docs, f \in Fields, v \in Values \cup {None} : FindCurrent(w, d, f, v)
            \/ \E d \in Docs, f \in Fields, v \in Values : Correct(w, d, f, v)
      BY <1>4 DEF EvalNext
    <2>2. CASE InsertGolden(w)
      BY <1>1, <1>2, <2>2, NotesUnchanged, FinishReports DEF InsertGolden
    <2>3. CASE Killed(w)
      BY <1>1, <1>2, <2>3, NotesUnchanged, FinishReports DEF Killed
    <2>4. CASE InsertAnnotation(w) \/ SupersedeAnnotation(w)
      BY <1>1, <1>2, <2>4, InsertReports, SupersedeReports
    <2>5. CASE LookUpRecord(w) \/ InsertRecord(w) \/ InsertField(w)
      BY <1>1, <1>2, <2>5, LookUpReports, RecordReports, FieldReports
    <2>6. CASE \E d \in Docs : ReadAnnotations(w, d)
      BY <1>1, <1>2, <2>6, ReadReports
    <2>7. CASE Score(w) \/ InsertRun(w) \/ RecordFailure(w) \/ Calibrate(w)
      BY <1>1, <1>2, <2>7, ScoreReports, RunReports, FailureReports, CalibrationReports
    <2>8. CASE BeginBenchmark(w)
      BY <1>1, <1>2, <2>8, BeginReports
    <2>9. CASE \E d \in Docs : LookUpGolden(w, d) \/ Ingest(w, d)
      BY <1>1, <1>2, <2>9, GoldenReports, IngestReports
    <2>10. CASE \E d \in Docs, f \in Fields, v \in Values \cup {None} : FindCurrent(w, d, f, v)
      BY <1>1, <1>2, <2>10, FindReports
    <2>11. CASE \E d \in Docs, f \in Fields, v \in Values : Correct(w, d, f, v)
      BY <1>1, <1>2, <2>11, CorrectReports
    <2>12. QED
      BY <2>1, <2>2, <2>3, <2>4, <2>5, <2>6, <2>7, <2>8, <2>9, <2>10, <2>11 DEF EvalStep
  <1>5. QED
    BY <1>1, <1>3, <1>4

\* However annotators, reviewers and the pipeline go on while a run reads, and wherever it is ended: a run that was
\* answered accounts for every field of every document it scored (certification/benchmark.py, run_full_certification).
\* A run under way has one mark for each field of each document it scored, against an annotation that still stands;
\* once it is on record nobody else writes rows of its number, and the rows it has written are those of the marks
\* that are no longer to do.  Every sum of the property is then the size of a set of marks.
THEOREM RunsAccount == EvalSpec => []RunAccounts
  <1>1. ReportInv => RunAccounts
    BY DEF ReportInv, Accounting
  <1>2. QED
    BY <1>1, ReportInit, ReportStep, PTL DEF EvalSpec

-----------------------------------------------------------------------------
(* The review centre.                                                      *)

Made == [paper : Papers, shape : Shapes, status : Statuses, gap : BOOLEAN]
Flags == [entry : Entries, resolved : BOOLEAN]
Decisions == {"approve", "reject", "reprocess"}
Loop == {"next", "read_fields", "write_status", "insert_entry", "insert_fields"}
OnOne == {"read_fields", "write_status", "insert_entry", "insert_fields", "find_current", "insert_row", "supersede",
          "insert_escalation", "drop_fields", "drop_entry"}
Tasks == [pc : OnOne \cup {"idle", "list_fields", "select", "next", "resolve", "count_backlog", "insert_campaign",
                           "drop_escalations"},
          op : Decisions \cup {"none", "correct", "escalate", "resolve", "campaign", "cleanup"},
          queue : TypedQueues \cup ReviewerQueues \cup Workbenches \cup {"none"},
          todo : SUBSET Entries, at : Nat, paper : Papers \cup {Absent}, field : CoreFields, row : Nat,
          override : BOOLEAN, gap : BOOLEAN, skipped : SUBSET Entries, failed : SUBSET Entries, processed : SUBSET Entries]

\* A record with a row of every core field, unless a cleanup has begun on it.
Sound(r) == r \in stripped \/ \A f \in CoreFields : rows[r][f] # <<>>

\* A reviewer who works off a selection that was listed as ready for approval.
Readied(t) ==
    /\ t.skipped \subseteq stripped
    /\ t.pc # "list_fields" => \A r \in t.todo : Sound(r)
    /\ t.pc = "read_fields" => Sound(t.at)

\* What a request relies on, and what no other request takes back.
Relies(t) ==
    /\ t.pc \in OnOne => t.at \in Entries
    /\ t.pc \in Loop => t.op \in Decisions
    /\ t.pc = "insert_entry" => t.paper \in Papers
    /\ t.pc = "insert_fields" => t.row \in Entries
    /\ t.pc = "insert_row" => t.at \in stripped \/ t.row <= Len(rows[t.at][t.field])
    /\ t.pc = "supersede" => t.at \in stripped \/ t.row < Len(rows[t.at][t.field])
    /\ t.pc = "resolve" => t.row \in DOMAIN escalation
    /\ t.pc = "drop_entry" => t.at \in stripped
    /\ t.pc = "write_status" /\ t.op = "approve" /\ ~ t.gap => Sound(t.at)
    /\ t.queue = "ready_for_approval" => Readied(t)

Desks == desk \in [Reviewers -> Tasks] /\ \A p \in Reviewers : Relies(desk[p])

\* The last row of a field is in force, unless a cleanup has begun on the record.
LastInForce(r) ==
    r \in stripped \/ \A f \in CoreFields : rows[r][f] # <<>> => rows[r][f][Len(rows[r][f])] # "out"

EntryTable ==
    /\ entry \in [Entries -> Made \cup {Absent}] /\ lastEntry \in 0 .. MaxEntries
    /\ \A r \in Entries : Exists(r) => r <= lastEntry
FieldTable ==
    /\ rows \in [Entries -> [CoreFields -> Seq(RowKinds)]] /\ stripped \subseteq Entries
    /\ \A r \in Entries : LastInForce(r)
\* Fields belong to a record, and what was approved without a gap has them all.
Bound ==
    \A r \in Entries : /\ \A f \in CoreFields : rows[r][f] # <<>> => Exists(r)
                       /\ Exists(r) /\ entry[r].status = "approved" /\ ~ entry[r].gap => Sound(r)
FlagTable ==
    /\ escalation \in Seq(Flags \cup {Absent})
    /\ \A e \in DOMAIN escalation : escalation[e] # Absent => Exists(escalation[e].entry)

DeskTables == EntryTable /\ FieldTable /\ Bound /\ FlagTable /\ available \subseteq Papers
DeskInv == Desks /\ DeskTables

LEMMA DeskInvTypes == DeskInv => DeskTypeOK
  <1>1. SUFFICES ASSUME DeskInv
                 PROVE  DeskTypeOK
    OBVIOUS
  <1>2. ASSUME NEW r \in Entries, Exists(r)
        PROVE  r <= lastEntry /\ entry[r] \in [paper : Papers, shape : Shapes, status : Statuses, gap : BOOLEAN]
    BY <1>1, <1>2 DEF DeskInv, DeskTables, EntryTable, Made, Exists
  <1>3. ASSUME NEW r \in Entries, NEW f \in CoreFields
        PROVE  rows[r][f] \in Seq(RowKinds) /\ (rows[r][f] # <<>> => Exists(r))
    BY <1>1 DEF DeskInv, DeskTables, FieldTable, Bound
  <1>4. /\ \A e \in DOMAIN escalation : escalation[e] # Absent => Exists(escalation[e].entry)
        /\ lastEntry \in 0 .. MaxEntries /\ available \subseteq Papers
    BY <1>1 DEF DeskInv, DeskTables, FlagTable, EntryTable
  <1>5. QED
    BY <1>2, <1>3, <1>4 DEF DeskTypeOK

LEMMA EntriesFinite == IsFiniteSet(Entries)
  <1>1. 1 \in Int /\ MaxEntries \in Int
    BY DeskAssumption
  <1>2. IsFiniteSet(1 .. MaxEntries)
    BY ONLY <1>1, FS_Interval
  <1>3. QED
    BY <1>2 DEF Entries

LEMMA FreeDeskFits == FreeDesk \in Tasks /\ Relies(FreeDesk)
  <1>1. "subject" \in CoreFields
    BY DEF CoreFields
  <1>2. FreeDesk \in Tasks
    BY <1>1 DEF FreeDesk, Tasks
  <1>3. QED
    BY <1>2 DEF FreeDesk, Relies, OnOne, Loop

LEMMA DeskInitInv == DeskInit => DeskInv
  <1>1. SUFFICES ASSUME DeskInit
                 PROVE  DeskInv
    OBVIOUS
  <1>2. Desks
    <2>1. desk = [p \in Reviewers |-> FreeDesk]
      BY <1>1 DEF DeskInit
    <2>2. desk \in [Reviewers -> Tasks]
      BY <2>1, FreeDeskFits
    <2>3. ASSUME NEW p \in Reviewers
          PROVE  Relies(desk[p])
      <3>1. desk[p] = FreeDesk
        BY <2>1
      <3>2. QED
        BY <3>1, FreeDeskFits
    <2>4. QED
      BY <2>2, <2>3 DEF Desks
  <1>3. \A r \in Entries : ~ Exists(r) /\ \A f \in CoreFields : rows[r][f] = <<>>
    BY <1>1 DEF DeskInit, Blank, Exists
  <1>4. EntryTable
    BY <1>1, <1>3, DeskAssumption DEF DeskInit, EntryTable
  <1>5. FieldTable
    <2>1. <<>> \in Seq(RowKinds)
      OBVIOUS
    <2>2. rows \in [Entries -> [CoreFields -> Seq(RowKinds)]]
      BY <1>1, <2>1 DEF DeskInit, Blank
    <2>3. QED
      BY <1>1, <1>3, <2>2 DEF DeskInit, FieldTable, LastInForce
  <1>6. Bound
    BY <1>3 DEF Bound
  <1>7. FlagTable /\ available \subseteq Papers
    BY <1>1 DEF DeskInit, FlagTable
  <1>8. QED
    BY <1>2, <1>4, <1>5, <1>6, <1>7 DEF DeskInv, DeskTables

\* Rows and escalations are added, and what a cleanup takes it has marked.
Advances ==
    /\ stripped \subseteq stripped' /\ DOMAIN escalation \subseteq DOMAIN escalation'
    /\ \A r \in Entries, f \in CoreFields : r \in stripped' \/ Len(rows[r][f]) <= Len(rows'[r][f])

LEMMA RowsLength ==
    ASSUME FieldTable, NEW r \in Entries, NEW f \in CoreFields
    PROVE  /\ rows[r][f] \in Seq(RowKinds) /\ Len(rows[r][f]) \in Nat /\ DOMAIN rows[r][f] = 1 .. Len(rows[r][f])
           /\ rows[r][f] = <<>> <=> Len(rows[r][f]) = 0
  <1>1. rows[r][f] \in Seq(RowKinds)
    BY DEF FieldTable
  <1>2. QED
    BY <1>1

LEMMA StillSound ==
    ASSUME FieldTable, FieldTable', Advances, NEW r \in Entries, Sound(r)
    PROVE  Sound(r)'
  <1>1. CASE r \in stripped'
    BY <1>1 DEF Sound
  <1>2. CASE r \notin stripped'
    <2>1. r \notin stripped
      BY <1>2 DEF Advances
    <2>2. ASSUME NEW f \in CoreFields
          PROVE  rows'[r][f] # <<>>
      <3>1. rows[r][f] # <<>> /\ rows[r][f] \in Seq(RowKinds) /\ rows'[r][f] \in Seq(RowKinds)
        BY <2>1 DEF Sound, FieldTable
      <3>2. Len(rows[r][f]) <= Len(rows'[r][f])
        BY <1>2 DEF Advances
      <3>3. QED
        BY <3>1, <3>2
    <2>3. QED
      BY <2>2 DEF Sound
  <1>3. QED
    BY <1>1, <1>2

LEMMA StillRelies ==
    ASSUME FieldTable, FieldTable', Advances, NEW t \in Tasks, Relies(t)
    PROVE  Relies(t)'
  <1>1. t.field \in CoreFields /\ t.row \in Nat /\ t.todo \subseteq Entries
    BY DEF Tasks
  <1>2. t.pc \in OnOne => t.at \in Entries
    BY DEF Relies
  <1>3. ASSUME t.at \in Entries
        PROVE  /\ Len(rows[t.at][t.field]) \in Nat /\ Len(rows'[t.at][t.field]) \in Nat
               /\ t.at \in stripped' \/ Len(rows[t.at][t.field]) <= Len(rows'[t.at][t.field])
    <2>1. rows[t.at][t.field] \in Seq(RowKinds) /\ rows'[t.at][t.field] \in Seq(RowKinds)
      BY <1>1, <1>3 DEF FieldTable
    <2>2. QED
      BY <1>1, <1>3, <2>1 DEF Advances
  <1>4. t.pc = "insert_row" => t.at \in stripped' \/ t.row <= Len(rows'[t.at][t.field])
    <2>1. SUFFICES ASSUME t.pc = "insert_row", t.at \notin stripped'
                   PROVE  t.row <= Len(rows'[t.at][t.field])
      OBVIOUS
    <2>2. t.at \in Entries /\ t.row <= Len(rows[t.at][t.field])
      BY <2>1 DEF Relies, OnOne, Advances
    <2>3. Len(rows[t.at][t.field]) <= Len(rows'[t.at][t.field])
      BY <1>3, <2>1, <2>2
    <2>4. t.row \in Nat /\ Len(rows[t.at][t.field]) \in Nat /\ Len(rows'[t.at][t.field]) \in Nat
      BY <1>1, <1>3, <2>2
    <2>5. \A i, m, n \in Nat : i <= m /\ m <= n => i <= n
      OBVIOUS
    <2>6. QED
      BY ONLY <2>2, <2>3, <2>4, <2>5
  <1>5. t.pc = "supersede" => t.at \in stripped' \/ t.row < Len(rows'[t.at][t.field])
    <2>1. SUFFICES ASSUME t.pc = "supersede", t.at \notin stripped'
                   PROVE  t.row < Len(rows'[t.at][t.field])
      OBVIOUS
    <2>2. t.at \in Entries /\ t.row < Len(rows[t.at][t.field])
      BY <2>1 DEF Relies, OnOne, Advances
    <2>3. Len(rows[t.at][t.field]) <= Len(rows'[t.at][t.field])
      BY <1>3, <2>1, <2>2
    <2>4. t.row \in Nat /\ Len(rows[t.at][t.field]) \in Nat /\ Len(rows'[t.at][t.field]) \in Nat
      BY <1>1, <1>3, <2>2
    <2>5. \A i, m, n \in Nat : i < m /\ m <= n => i < n
      OBVIOUS
    <2>6. QED
      BY ONLY <2>2, <2>3, <2>4, <2>5
  <1>6. t.pc = "write_status" /\ t.op = "approve" /\ ~ t.gap => Sound(t.at)'
    <2>1. SUFFICES ASSUME t.pc = "write_status", t.op = "approve", ~ t.gap
                   PROVE  Sound(t.at)'
      OBVIOUS
    <2>2. t.at \in Entries /\ Sound(t.at)
      BY <2>1 DEF Relies, OnOne
    <2>3. QED
      BY <2>2, StillSound
  <1>7. t.queue = "ready_for_approval" => Readied(t)'
    <2>1. SUFFICES ASSUME t.queue = "ready_for_approval"
                   PROVE  Readied(t)'
      OBVIOUS
    <2>2. Readied(t)
      BY <2>1 DEF Relies
    <2>3. t.skipped \subseteq stripped'
      BY <2>2 DEF Readied, Advances
    <2>4. t.pc # "list_fields" => \A r \in t.todo : Sound(r)'
      BY <1>1, <2>2, StillSound DEF Readied
    <2>5. t.pc = "read_fields" => Sound(t.at)'
      <3>1. SUFFICES ASSUME t.pc = "read_fields"
                     PROVE  Sound(t.at)'
        OBVIOUS
      <3>2. t.at \in Entries /\ Sound(t.at)
        BY <1>2, <2>2, <3>1 DEF Readied, OnOne
      <3>3. QED
        BY <3>2, StillSound
    <2>6. QED
      BY <2>3, <2>4, <2>5 DEF Readied
  <1>8. QED
    BY <1>2, <1>4, <1>5, <1>6, <1>7 DEF Relies, Advances

LEMMA OneTask ==
    ASSUME Desks, FieldTable, FieldTable', Advances, NEW p \in Reviewers, NEW t \in Tasks, Sit(p, t), Relies(t)'
    PROVE  Desks'
  <1>1. desk' = [desk EXCEPT ![p] = t] /\ desk' \in [Reviewers -> Tasks] /\ desk'[p] = t
    BY DEF Desks, Sit
  <1>2. ASSUME NEW q \in Reviewers
        PROVE  Relies(desk[q])'
    <2>1. CASE q = p
      <3>1. desk'[q] = t
        BY <1>1, <2>1
      <3>2. QED
        BY <3>1
    <2>2. CASE q # p
      <3>1. desk'[q] = desk[q] /\ desk[q] \in Tasks /\ Relies(desk[q])
        BY <1>1, <2>2 DEF Desks
      <3>2. Relies(desk[q])'
        BY <3>1, StillRelies
      <3>3. QED
        BY <3>2
    <2>3. QED
      BY <2>1, <2>2
  <1>3. QED
    BY <1>1, <1>2 DEF Desks

LEMMA SameTask ==
    ASSUME Desks, FieldTable, FieldTable', Advances, UNCHANGED desk
    PROVE  Desks'
  <1>1. ASSUME NEW q \in Reviewers
        PROVE  Relies(desk[q])'
    <2>1. desk'[q] = desk[q] /\ desk[q] \in Tasks /\ Relies(desk[q])
      BY DEF Desks
    <2>2. Relies(desk[q])'
      BY <2>1, StillRelies
    <2>3. QED
      BY <2>2
  <1>2. QED
    BY <1>1 DEF Desks

LEMMA ReviewerLeaves ==
    ASSUME Desks, FieldTable, FieldTable', Advances, NEW p \in Reviewers, Leave(p)
    PROVE  Desks'
  <1>1. Relies(FreeDesk)'
    BY DEF Relies, FreeDesk, OnOne, Loop
  <1>2. QED
    BY <1>1, FreeDeskFits, OneTask DEF Leave

LEMMA SameDeskTables ==
    /\ EntryTable /\ UNCHANGED <<entry, lastEntry>> => EntryTable'
    /\ FieldTable /\ UNCHANGED <<rows, stripped>> => FieldTable'
    /\ Bound /\ UNCHANGED <<entry, rows, stripped>> => Bound'
    /\ FlagTable /\ UNCHANGED <<entry, escalation>> => FlagTable'
  BY DEF EntryTable, FieldTable, Bound, FlagTable, LastInForce, Exists, Sound

LEMMA NothingAdvances ==
    ASSUME FieldTable, UNCHANGED <<rows, stripped, escalation>>
    PROVE  Advances
  <1>1. ASSUME NEW r \in Entries, NEW f \in CoreFields
        PROVE  Len(rows[r][f]) <= Len(rows'[r][f])
    <2>1. Len(rows[r][f]) \in Nat /\ rows'[r][f] = rows[r][f]
      BY RowsLength
    <2>2. QED
      BY <2>1
  <1>2. QED
    BY <1>1 DEF Advances

\* A request that only reads.
LEMMA OnlyReads ==
    ASSUME DeskInv, NEW p \in Reviewers, NEW t \in Tasks, Sit(p, t), Relies(t),
           UNCHANGED <<entry, rows, lastEntry, available, escalation, stripped>>
    PROVE  DeskInv'
  <1>1. Advances /\ FieldTable /\ FieldTable' /\ Desks
    BY NothingAdvances, SameDeskTables DEF DeskInv, DeskTables
  <1>2. Relies(t)'
    BY <1>1, StillRelies
  <1>3. Desks'
    BY <1>1, <1>2, OneTask
  <1>4. QED
    BY <1>3, SameDeskTables DEF DeskInv, DeskTables

LEMMA TaskHolds ==
    ASSUME DeskInv, NEW p \in Reviewers
    PROVE  desk[p] \in Tasks /\ Relies(desk[p]) /\ Desks /\ EntryTable /\ FieldTable /\ Bound /\ FlagTable /\ available \subseteq Papers
  BY DEF DeskInv, Desks, DeskTables

LEMMA EntriesNat == Entries \subseteq Nat
  BY DeskAssumption DEF Entries

\* An operation that starts with a request of its own, and goes no further yet.
LEMMA StepStarts ==
    ASSUME DeskInv, NEW p \in Reviewers,
           \/ \E r \in Entries, f \in CoreFields : CorrectField(p, r, f)
           \/ \E r \in Entries : Escalate(p, r)
           \/ \E e \in DOMAIN escalation : ResolveEscalation(p, e)
           \/ \E target \in 0 .. MaxEntries : StartCampaign(p, target)
           \/ CleanUp(p)
    PROVE  DeskInv'
  <1>1. ASSUME NEW r \in Entries, NEW f \in CoreFields, CorrectField(p, r, f)
        PROVE  DeskInv'
    <2>1. PICK t : t = [FreeDesk EXCEPT !.pc = "find_current", !.op = "correct", !.at = r, !.field = f]
      OBVIOUS
    <2>2. /\ t.pc = "find_current" /\ t.queue = "none" /\ t.at = r /\ t.gap = FALSE /\ t.op = "correct"
          /\ t \in Tasks
      BY <2>1, FreeDeskFits, EntriesNat DEF FreeDesk, Tasks, OnOne
    <2>3. Relies(t)
      BY <2>2 DEF Relies, OnOne, Loop
    <2>4. QED
      BY <1>1, <2>1, <2>2, <2>3, OnlyReads DEF CorrectField, recordTables
  <1>2. ASSUME NEW r \in Entries, Escalate(p, r)
        PROVE  DeskInv'
    <2>1. PICK t : t = [FreeDesk EXCEPT !.pc = "insert_escalation", !.op = "escalate", !.at = r]
      OBVIOUS
    <2>2. /\ t.pc = "insert_escalation" /\ t.queue = "none" /\ t.at = r /\ t.gap = FALSE /\ t.op = "escalate"
          /\ t \in Tasks
      BY <2>1, FreeDeskFits, EntriesNat DEF FreeDesk, Tasks, OnOne
    <2>3. Relies(t)
      BY <2>2 DEF Relies, OnOne, Loop
    <2>4. QED
      BY <1>2, <2>1, <2>2, <2>3, OnlyReads DEF Escalate, recordTables
  <1>3. ASSUME NEW e \in DOMAIN escalation, ResolveEscalation(p, e)
        PROVE  DeskInv'
    <2>1. PICK t : t = [FreeDesk EXCEPT !.pc = "resolve", !.op = "resolve", !.row = e]
      OBVIOUS
    <2>2. DOMAIN escalation \subseteq Nat
      BY TaskHolds DEF FlagTable
    <2>3. t \in Tasks /\ Relies(t)
      BY <2>1, <2>2, FreeDeskFits, ZenonT(60) DEF FreeDesk, Tasks, Relies, OnOne, Loop
    <2>4. QED
      BY <1>3, <2>1, <2>3, OnlyReads DEF ResolveEscalation, recordTables
  <1>4. ASSUME NEW target \in 0 .. MaxEntries, StartCampaign(p, target)
        PROVE  DeskInv'
    <2>1. PICK t : t = [FreeDesk EXCEPT !.pc = "count_backlog", !.op = "campaign", !.row = target]
      OBVIOUS
    <2>2. target \in Nat
      BY DeskAssumption
    <2>3. t \in Tasks /\ Relies(t)
      BY <2>1, <2>2, FreeDeskFits, ZenonT(60) DEF FreeDesk, Tasks, Relies, OnOne, Loop
    <2>4. QED
      BY <1>4, <2>1, <2>3, OnlyReads DEF StartCampaign, recordTables
  <1>5. CASE CleanUp(p)
    <2>1. PICK t : t = [FreeDesk EXCEPT !.pc = "drop_escalations", !.op = "cleanup", !.todo = Duplicates]
      OBVIOUS
    <2>2. Duplicates \subseteq Entries
      BY DEF Duplicates, Pending
    <2>3. t \in Tasks /\ Relies(t)
      BY <2>1, <2>2, FreeDeskFits, ZenonT(60) DEF FreeDesk, Tasks, Relies, OnOne, Loop
    <2>4. QED
      BY <1>5, <2>1, <2>3, OnlyReads DEF CleanUp, recordTables
  <1>6. QED
    BY <1>1, <1>2, <1>3, <1>4, <1>5

LEMMA StepDecide ==
    ASSUME DeskInv, NEW p \in Reviewers, NEW op \in Decisions, NEW r \in Entries, NEW override \in BOOLEAN,
           Decide(p, op, r, override)
    PROVE  DeskInv'
  <1>1. PICK t : t = [FreeDesk EXCEPT !.pc = "next", !.op = op, !.todo = {r}, !.override = override]
    OBVIOUS
  <1>2. t \in Tasks /\ Relies(t)
    BY <1>1, FreeDeskFits, ZenonT(60) DEF FreeDesk, Tasks, Relies, OnOne, Loop
  <1>3. QED
    BY <1>1, <1>2, OnlyReads DEF Decide, recordTables

LEMMA StepListQueue ==
    ASSUME DeskInv, NEW p \in Reviewers, NEW queue \in TypedQueues \cup ReviewerQueues \cup Workbenches,
           ListQueue(p, queue)
    PROVE  DeskInv'
  <1>1. CASE queue \in TypedQueues
    <2>1. PICK t : t = [FreeDesk EXCEPT !.pc = "select", !.queue = queue, !.todo = {r \in Pending : Typed(r, queue)}]
      OBVIOUS
    <2>2. {r \in Pending : Typed(r, queue)} \subseteq Entries /\ queue # "ready_for_approval"
      BY <1>1 DEF Pending, TypedQueues
    <2>3. t \in Tasks /\ Relies(t)
      BY <2>1, <2>2, FreeDeskFits, ZenonT(60) DEF FreeDesk, Tasks, Relies, OnOne, Loop
    <2>4. QED
      BY <1>1, <2>1, <2>3, OnlyReads DEF ListQueue, recordTables
  <1>2. CASE queue \notin TypedQueues
    <2>1. PICK t : t = [FreeDesk EXCEPT !.pc = "list_fields", !.queue = queue, !.todo = Pending]
      OBVIOUS
    <2>2. Pending \subseteq Entries
      BY DEF Pending
    <2>3. t \in Tasks /\ Relies(t)
      BY <2>1, <2>2, FreeDeskFits, ZenonT(60) DEF FreeDesk, Tasks, Relies, OnOne, Loop, Readied
    <2>4. QED
      BY <1>2, <2>1, <2>3, OnlyReads DEF ListQueue, recordTables
  <1>3. QED
    BY <1>1, <1>2

\* Only rows in force make a record complete.
LEMMA CompleteIsSound ==
    ASSUME NEW r \in Entries, InForce(r) = CoreFields
    PROVE  Sound(r)
  <1>1. ASSUME NEW f \in CoreFields, rows[r][f] = <<>>
        PROVE  FALSE
    <2>1. InForceRows(r, f) = {}
      BY <1>1 DEF InForceRows
    <2>2. QED
      BY <2>1 DEF InForce
  <1>2. QED
    BY <1>1 DEF Sound

\* A record with rows of every field has one of each in force.
LEMMA SoundIsComplete ==
    ASSUME FieldTable, NEW r \in Entries, Sound(r), r \notin stripped
    PROVE  InForce(r) = CoreFields
  <1>1. ASSUME NEW f \in CoreFields
        PROVE  InForceRows(r, f) # {}
    <2>1. /\ rows[r][f] # <<>> /\ rows[r][f] \in Seq(RowKinds) /\ rows[r][f][Len(rows[r][f])] # "out"
      BY DEF Sound, FieldTable, LastInForce
    <2>2. Len(rows[r][f]) \in DOMAIN rows[r][f]
      BY <2>1
    <2>3. QED
      BY <2>1, <2>2 DEF InForceRows
  <1>2. QED
    BY <1>1 DEF InForce

LEMMA ReadySegment ==
    ASSUME NEW r, NEW present, Segment(r, present) = "ready_for_approval"
    PROVE  present = CoreFields
  BY DEF Segment

LEMMA StepListFields ==
    ASSUME DeskInv, NEW p \in Reviewers, ListFields(p)
    PROVE  DeskInv'
  <1>1. PICK S : S = {r \in desk[p].todo : IF desk[p].queue = "missing_metadata"
                                           THEN InForce(r) # CoreFields \/ entry[r].paper \notin available
                                           ELSE Segment(r, InForce(r)) = desk[p].queue}
    OBVIOUS
  <1>2. PICK t : t = [desk[p] EXCEPT !.pc = "select", !.todo = S]
    OBVIOUS
  <1>3. Sit(p, t) /\ UNCHANGED <<entry, rows, lastEntry, available, escalation, stripped>> /\ desk[p].pc = "list_fields"
    BY <1>1, <1>2 DEF ListFields, recordTables, Waits
  <1>4. desk[p] \in Tasks /\ Relies(desk[p])
    BY TaskHolds
  <1>5. S \subseteq desk[p].todo /\ S \subseteq Entries
    BY <1>1, <1>4 DEF Tasks
  <1>6. t \in Tasks /\ t.pc = "select" /\ t.todo = S /\ t.queue = desk[p].queue /\ t.skipped = desk[p].skipped
    BY <1>2, <1>4, <1>5 DEF Tasks
  <1>7. ASSUME desk[p].queue = "ready_for_approval"
        PROVE  Readied(t)
    <2>1. ASSUME NEW r \in S
          PROVE  Sound(r)
      <3>1. Segment(r, InForce(r)) = "ready_for_approval"
        BY <1>1, <1>7
      <3>2. InForce(r) = CoreFields
        BY <3>1, ReadySegment
      <3>3. QED
        BY <1>5, <3>2, CompleteIsSound
    <2>2. t.skipped \subseteq stripped
      BY <1>4, <1>6, <1>7 DEF Relies, Readied
    <2>3. QED
      BY <1>6, <2>1, <2>2 DEF Readied
  <1>8. Relies(t)
    BY <1>6, <1>7 DEF Relies, OnOne, Loop
  <1>9. QED
    BY <1>3, <1>6, <1>8, OnlyReads

LEMMA StepSubmit ==
    ASSUME DeskInv, NEW p \in Reviewers, NEW op \in Decisions, NEW ticked \in SUBSET Entries, Submit(p, op, ticked)
    PROVE  DeskInv'
  <1>1. UNCHANGED <<entry, rows, lastEntry, available, escalation, stripped>> /\ desk[p].pc = "select"
        /\ ticked \subseteq desk[p].todo
    BY DEF Submit, recordTables, Waits
  <1>2. CASE ticked = {}
    BY <1>1, <1>2, FreeDeskFits, OnlyReads DEF Submit, Leave
  <1>3. CASE ticked # {}
    <2>1. PICK t : t = [desk[p] EXCEPT !.pc = "next", !.op = op, !.todo = ticked]
      OBVIOUS
    <2>2. desk[p] \in Tasks /\ Relies(desk[p])
      BY TaskHolds
    <2>3. t \in Tasks /\ t.pc = "next" /\ t.op = op /\ t.todo = ticked /\ t.queue = desk[p].queue /\ t.skipped = desk[p].skipped
      BY <2>1, <2>2 DEF Tasks
    <2>4. desk[p].queue = "ready_for_approval" => Readied(t)
      BY <1>1, <2>2, <2>3 DEF Relies, Readied
    <2>5. Relies(t)
      BY <2>3, <2>4 DEF Relies, OnOne, Loop
    <2>6. QED
      BY <1>1, <1>3, <2>1, <2>3, <2>5, OnlyReads DEF Submit
  <1>4. QED
    BY <1>2, <1>3

\* Reading and giving up: the next record, the gate, a parser that raises, the counts.
LEMMA StepRequireRecord ==
    ASSUME DeskInv, NEW p \in Reviewers, NEW r \in Entries, RequireRecord(p, r)
    PROVE  DeskInv'
  <1>1. /\ UNCHANGED <<entry, rows, lastEntry, available, escalation, stripped>> /\ desk[p].pc = "next"
        /\ r \in desk[p].todo
    BY DEF RequireRecord, recordTables, Waits
  <1>2. desk[p] \in Tasks /\ Relies(desk[p]) /\ EntryTable /\ FieldTable /\ Bound
    BY TaskHolds
  <1>3. desk[p].op \in Decisions /\ (desk[p].queue = "ready_for_approval" => Readied(desk[p]))
    BY <1>1, <1>2 DEF Relies, Loop
  <1>4. CASE Exists(r)
    <2>1. PICK t : t = [desk[p] EXCEPT !.pc = FirstRead[desk[p].op], !.at = r, !.paper = entry[r].paper, !.todo = @ \ {r}]
      OBVIOUS
    <2>2. /\ FirstRead[desk[p].op] \in {"read_fields", "write_status", "insert_entry"}
          /\ FirstRead[desk[p].op] = "write_status" => desk[p].op = "reject"
      BY <1>3 DEF FirstRead, Decisions
    <2>3. entry[r].paper \in Papers
      BY <1>2, <1>4 DEF EntryTable, Made, Exists
    <2>4. /\ t \in Tasks /\ t.pc \in {"read_fields", "write_status", "insert_entry"} /\ t.at = r /\ t.paper \in Papers
          /\ t.todo = desk[p].todo \ {r} /\ t.queue = desk[p].queue /\ t.skipped = desk[p].skipped
          /\ t.op = desk[p].op /\ (t.pc = "write_status" => t.op = "reject")
      BY <1>2, <2>1, <2>2, <2>3, EntriesNat DEF Tasks, OnOne
    <2>5. desk[p].queue = "ready_for_approval" => Readied(t)
      BY <1>1, <1>3, <2>4 DEF Readied
    <2>6. Relies(t)
      BY <1>3, <2>4, <2>5 DEF Relies, OnOne, Loop
    <2>7. QED
      BY <1>1, <1>4, <2>1, <2>4, <2>6, OnlyReads DEF RequireRecord
  <1>5. CASE ~ Exists(r)
    <2>1. PICK t : t = Skip(desk[p], r)
      OBVIOUS
    <2>2. /\ t \in Tasks /\ t.pc = "next" /\ t.op = desk[p].op /\ t.todo = desk[p].todo \ {r}
          /\ t.queue = desk[p].queue /\ t.skipped = desk[p].skipped \cup {r}
      BY <1>2, <2>1, ZenonT(60) DEF Tasks, Skip, Onward
    <2>3. ASSUME desk[p].queue = "ready_for_approval"
          PROVE  Readied(t)
      <3>1. Sound(r) /\ "subject" \in CoreFields
        BY <1>1, <1>3, <2>3 DEF Readied, CoreFields
      <3>2. r \in stripped
        BY <1>2, <1>5, <3>1 DEF Sound, Bound
      <3>3. QED
        BY <1>1, <1>3, <2>2, <2>3, <3>2 DEF Readied
    <2>4. Relies(t)
      BY <1>3, <2>2, <2>3 DEF Relies, OnOne, Loop
    <2>5. QED
      BY <1>1, <1>5, <2>1, <2>2, <2>4, OnlyReads DEF RequireRecord
  <1>6. QED
    BY <1>4, <1>5

LEMMA StepReadFields ==
    ASSUME DeskInv, NEW p \in Reviewers, ReadFields(p)
    PROVE  DeskInv'
  <1>1. /\ UNCHANGED <<entry, rows, lastEntry, available, escalation, stripped>> /\ desk[p].pc = "read_fields"
    BY DEF ReadFields, recordTables, Waits
  <1>2. desk[p] \in Tasks /\ Relies(desk[p]) /\ EntryTable /\ FieldTable /\ Bound
    BY TaskHolds
  <1>3. desk[p].at \in Entries /\ (desk[p].queue = "ready_for_approval" => Readied(desk[p]))
    BY <1>1, <1>2 DEF Relies, OnOne, Loop
  <1>4. PICK missing : missing = CoreFields \ InForce(desk[p].at)
    OBVIOUS
  <1>5. missing = {} => Sound(desk[p].at)
    <2>1. InForce(desk[p].at) \subseteq CoreFields
      BY DEF InForce
    <2>2. QED
      BY <1>3, <1>4, <2>1, CompleteIsSound
  <1>6. CASE ~ Exists(desk[p].at) \/ (missing # {} /\ ~ desk[p].override)
    <2>1. PICK t : t = Skip(desk[p], desk[p].at)
      OBVIOUS
    <2>2. Sit(p, t)
      BY <1>4, <1>6, <2>1 DEF ReadFields
    <2>3. /\ t \in Tasks /\ t.pc = "next" /\ t.op = desk[p].op /\ t.todo \subseteq desk[p].todo
          /\ t.queue = desk[p].queue /\ t.skipped = desk[p].skipped \cup {desk[p].at}
      BY <1>2, <1>3, <2>1, ZenonT(60) DEF Tasks, Skip, Onward
    <2>4. ASSUME desk[p].queue = "ready_for_approval"
          PROVE  Readied(t)
      <3>1. Sound(desk[p].at) /\ "subject" \in CoreFields
        BY <1>1, <1>3, <2>4 DEF Readied, CoreFields
      <3>2. desk[p].at \in stripped
        <4>1. SUFFICES ASSUME desk[p].at \notin stripped
                       PROVE  FALSE
          OBVIOUS
        <4>2. InForce(desk[p].at) = CoreFields
          BY <1>2, <1>3, <3>1, <4>1, SoundIsComplete
        <4>3. Exists(desk[p].at)
          BY <1>2, <1>3, <3>1, <4>1 DEF Sound, Bound
        <4>4. QED
          BY <1>4, <1>6, <4>2, <4>3
      <3>3. QED
        BY <1>1, <1>3, <2>3, <2>4, <3>2 DEF Readied
    <2>5. desk[p].op \in Decisions
      BY <1>1, <1>2 DEF Relies, Loop
    <2>6. Relies(t)
      BY <2>3, <2>4, <2>5 DEF Relies, OnOne, Loop
    <2>7. QED
      BY <1>1, <2>2, <2>3, <2>6, OnlyReads
  <1>7. CASE Exists(desk[p].at) /\ ~ (missing # {} /\ ~ desk[p].override)
    <2>1. PICK g : g = (missing # {})
      OBVIOUS
    <2>2. g \in BOOLEAN /\ (~ g => missing = {})
      BY <2>1
    <2>3. PICK t : t = [desk[p] EXCEPT !.pc = "write_status", !.gap = g]
      OBVIOUS
    <2>4. Sit(p, t)
      BY <1>4, <1>7, <2>1, <2>3 DEF ReadFields
    <2>5. /\ t \in Tasks /\ t.pc = "write_status" /\ t.at = desk[p].at /\ t.todo = desk[p].todo
          /\ t.queue = desk[p].queue /\ t.skipped = desk[p].skipped /\ t.op = desk[p].op /\ t.gap = g
      BY <1>2, <2>2, <2>3 DEF Tasks, OnOne
    <2>6. desk[p].queue = "ready_for_approval" => Readied(t)
      BY <1>1, <1>3, <2>5 DEF Readied
    <2>7. t.op \in Decisions
      BY <1>1, <1>2, <2>5 DEF Relies, Loop
    <2>8. ~ t.gap => Sound(t.at)
      BY <1>5, <2>2, <2>5
    <2>9. Relies(t)
      BY <1>3, <2>5, <2>6, <2>7, <2>8 DEF Relies, OnOne
    <2>10. QED
      BY <1>1, <2>4, <2>5, <2>9, OnlyReads
  <1>8. QED
    BY <1>6, <1>7

\* A record is done with, whatever the outcome, and the loop goes on.
LEMMA NextInLoop ==
    ASSUME NEW t \in Tasks, Relies(t), t.pc \in Loop \ {"next"}, NEW u \in {Fail(t), Process(t)}
    PROVE  u \in Tasks /\ Relies(u)
  <1>1. t.at \in Entries /\ t.pc # "list_fields" /\ t.op \in Decisions
    BY DEF Relies, OnOne, Loop
  <1>2. /\ u \in Tasks /\ u.pc = "next" /\ u.op = t.op /\ u.todo = t.todo /\ u.queue = t.queue /\ u.skipped = t.skipped
    <2>1. CASE u = Fail(t)
      BY <1>1, <2>1, ZenonT(60) DEF Tasks, Fail, Onward
    <2>2. CASE u = Process(t)
      BY <1>1, <2>2 DEF Tasks, Process, Onward
    <2>3. QED
      BY <2>1, <2>2
  <1>3. t.queue = "ready_for_approval" => Readied(u)
    BY <1>1, <1>2 DEF Relies, Readied
  <1>4. QED
    BY <1>2, <1>3 DEF Relies, OnOne, Loop

LEMMA StepParseFails ==
    ASSUME DeskInv, NEW p \in Reviewers, ParseFails(p)
    PROVE  DeskInv'
  <1>1. /\ UNCHANGED <<entry, rows, lastEntry, available, escalation, stripped>>
        /\ desk[p].pc \in {"insert_entry", "insert_fields"} /\ Sit(p, Fail(desk[p]))
    BY DEF ParseFails, recordTables, Waits
  <1>2. desk[p] \in Tasks /\ Relies(desk[p])
    BY TaskHolds
  <1>3. Fail(desk[p]) \in Tasks /\ Relies(Fail(desk[p]))
    BY <1>1, <1>2, NextInLoop DEF Loop
  <1>4. QED
    BY <1>1, <1>3, OnlyReads

LEMMA StepLeaves ==
    ASSUME DeskInv, NEW p \in Reviewers, ShowCounts(p) \/ CleanedUp(p) \/ Interrupted(p)
    PROVE  DeskInv'
  <1>1. UNCHANGED <<entry, rows, lastEntry, available, escalation, stripped>> /\ Sit(p, FreeDesk)
    BY DEF ShowCounts, CleanedUp, Interrupted, Leave, recordTables
  <1>2. QED
    BY <1>1, FreeDeskFits, OnlyReads

LEMMA StepReadCurrent ==
    ASSUME DeskInv, NEW p \in Reviewers, ReadCurrent(p)
    PROVE  DeskInv'
  <1>1. /\ UNCHANGED <<entry, rows, lastEntry, available, escalation, stripped>> /\ desk[p].pc = "find_current"
    BY DEF ReadCurrent, recordTables, Waits
  <1>2. desk[p] \in Tasks /\ Relies(desk[p]) /\ FieldTable
    BY TaskHolds
  <1>3. desk[p].at \in Entries /\ desk[p].field \in CoreFields
    BY <1>1, <1>2 DEF Relies, OnOne, Tasks
  <1>4. Current(desk[p].at, desk[p].field) \in Nat
        /\ Current(desk[p].at, desk[p].field) <= Len(rows[desk[p].at][desk[p].field])
    <2>1. PICK S : S = InForceRows(desk[p].at, desk[p].field)
      OBVIOUS
    <2>2. PICK n : n = Len(rows[desk[p].at][desk[p].field])
      OBVIOUS
    <2>3. S \subseteq 1 .. n /\ n \in Nat
      BY <1>2, <1>3, <2>1, <2>2, RowsLength DEF InForceRows
    <2>4. CASE S = {}
      BY <2>1, <2>2, <2>3, <2>4 DEF Current
    <2>5. CASE S # {}
      <3>1. \E i \in S : \A j \in S : i <= j
        BY <2>3, <2>5, NatLeast
      <3>2. PICK c : c = Current(desk[p].at, desk[p].field)
        OBVIOUS
      <3>3. c \in S
        BY <2>1, <2>5, <3>1, <3>2 DEF Current
      <3>4. c \in Nat /\ c <= n
        BY <2>3, <3>3
      <3>5. QED
        BY <2>2, <3>2, <3>4
    <2>6. QED
      BY <2>4, <2>5
  <1>5. PICK t : t = [desk[p] EXCEPT !.pc = "insert_row", !.row = Current(desk[p].at, desk[p].field)]
    OBVIOUS
  <1>6. /\ t \in Tasks /\ t.pc = "insert_row" /\ t.at = desk[p].at /\ t.field = desk[p].field
        /\ t.row = Current(desk[p].at, desk[p].field) /\ t.todo = desk[p].todo
        /\ t.queue = desk[p].queue /\ t.skipped = desk[p].skipped
    BY <1>2, <1>4, <1>5 DEF Tasks, OnOne
  <1>7. t.queue = "ready_for_approval" => Readied(t)
    BY <1>1, <1>2, <1>6 DEF Relies, Readied
  <1>8. Relies(t)
    BY <1>3, <1>4, <1>6, <1>7 DEF Relies, OnOne, Loop
  <1>9. QED
    BY <1>1, <1>5, <1>6, <1>8, OnlyReads DEF ReadCurrent

LEMMA StepCampaign ==
    ASSUME DeskInv, NEW p \in Reviewers,
           CountBacklog(p) \/ InsertCampaign(p) \/ \E c \in DOMAIN campaign : EndCampaign(p, c)
    PROVE  DeskInv'
  <1>1. CASE CountBacklog(p)
    <2>1. PICK n : n = QueueSize("extraction")
      OBVIOUS
    <2>2. n \in Nat
      <3>1. IsFiniteSet(Entries)
        BY EntriesFinite
      <3>2. PICK S : S = {r \in Pending : Typed(r, "extraction")}
        OBVIOUS
      <3>3. S \subseteq Entries
        BY <3>2 DEF Pending
      <3>4. Cardinality(S) \in Nat
        BY <3>1, <3>3, FS_Subset, FS_CardinalityType
      <3>5. QED
        BY <2>1, <3>2, <3>4 DEF QueueSize, TypedQueues
    <2>3. PICK t : t = [desk[p] EXCEPT !.pc = "insert_campaign", !.at = n]
      OBVIOUS
    <2>4. /\ UNCHANGED <<entry, rows, lastEntry, available, escalation, stripped>> /\ desk[p].pc = "count_backlog"
          /\ Sit(p, t)
      BY <1>1, <2>1, <2>3 DEF CountBacklog, recordTables, Waits
    <2>5. desk[p] \in Tasks /\ Relies(desk[p])
      BY TaskHolds
    <2>6. /\ t \in Tasks /\ t.pc = "insert_campaign" /\ t.todo = desk[p].todo
          /\ t.queue = desk[p].queue /\ t.skipped = desk[p].skipped
      BY <2>2, <2>3, <2>5 DEF Tasks
    <2>7. t.queue = "ready_for_approval" => Readied(t)
      BY <2>4, <2>5, <2>6 DEF Relies, Readied
    <2>8. Relies(t)
      BY <2>6, <2>7 DEF Relies, OnOne, Loop
    <2>9. QED
      BY <2>4, <2>6, <2>8, OnlyReads
  <1>2. CASE InsertCampaign(p)
    BY <1>2, FreeDeskFits, OnlyReads DEF InsertCampaign, Leave, recordTables
  <1>3. ASSUME NEW c \in DOMAIN campaign, EndCampaign(p, c)
        PROVE  DeskInv'
    <2>1. UNCHANGED <<entry, rows, lastEntry, available, escalation, stripped, desk>>
      BY <1>3 DEF EndCampaign, recordTables
    <2>2. Advances /\ FieldTable /\ FieldTable' /\ Desks
      BY <2>1, NothingAdvances, SameDeskTables DEF DeskInv, DeskTables
    <2>3. Desks'
      BY <2>1, <2>2, SameTask
    <2>4. QED
      BY <2>1, <2>3, SameDeskTables DEF DeskInv, DeskTables
  <1>4. QED
    BY <1>1, <1>2, <1>3

LEMMA StepPdf ==
    ASSUME DeskInv, NEW d \in Papers, PdfLost(d) \/ PdfStored(d)
    PROVE  DeskInv'
  <1>1. UNCHANGED <<entry, rows, lastEntry, escalation, stripped, desk>> /\ available' \subseteq Papers
    BY TaskHolds DEF PdfLost, PdfStored, recordTables, DeskInv, DeskTables
  <1>2. Advances /\ FieldTable /\ FieldTable' /\ Desks
    BY <1>1, NothingAdvances, SameDeskTables DEF DeskInv, DeskTables
  <1>3. Desks'
    BY <1>1, <1>2, SameTask
  <1>4. QED
    BY <1>1, <1>3, SameDeskTables DEF DeskInv, DeskTables

-----------------------------------------------------------------------------

\* Rows are added to a record, or one of them is superseded by a later one.
LEMMA FieldsChange ==
    ASSUME FieldTable, Bound, NEW r \in Entries, NEW new \in [CoreFields -> Seq(RowKinds)], Exists(r),
           rows' = [rows EXCEPT ![r] = new], UNCHANGED <<entry, stripped, escalation>>,
           \A f \in CoreFields : Len(rows[r][f]) <= Len(new[f]),
           r \in stripped \/ \A f \in CoreFields : new[f] # <<>> => new[f][Len(new[f])] # "out"
    PROVE  FieldTable' /\ Bound' /\ Advances
  <1>1. rows \in [Entries -> [CoreFields -> Seq(RowKinds)]] /\ rows' \in [Entries -> [CoreFields -> Seq(RowKinds)]]
    BY DEF FieldTable
  <1>2. rows'[r] = new /\ \A q \in Entries : q # r => rows'[q] = rows[q]
    BY <1>1
  <1>3. Advances
    <2>1. ASSUME NEW q \in Entries, NEW f \in CoreFields
          PROVE  Len(rows[q][f]) <= Len(rows'[q][f])
      <3>1. CASE q = r
        BY <1>2, <3>1
      <3>2. CASE q # r
        <4>1. rows'[q][f] = rows[q][f] /\ Len(rows[q][f]) \in Nat
          BY <1>2, <3>2, RowsLength
        <4>2. QED
          BY <4>1
      <3>3. QED
        BY <3>1, <3>2
    <2>2. QED
      BY <2>1 DEF Advances
  <1>4. FieldTable'
    <2>1. ASSUME NEW q \in Entries
          PROVE  LastInForce(q)'
      <3>1. CASE q = r
        BY <1>2, <3>1 DEF LastInForce
      <3>2. CASE q # r
        BY <1>2, <3>2 DEF LastInForce, FieldTable
      <3>3. QED
        BY <3>1, <3>2
    <2>2. QED
      BY <1>1, <2>1 DEF FieldTable
  <1>5. Bound'
    <2>1. ASSUME NEW q \in Entries
          PROVE  /\ \A f \in CoreFields : rows'[q][f] # <<>> => Exists(q)'
                 /\ Exists(q)' /\ entry'[q].status = "approved" /\ ~ entry'[q].gap => Sound(q)'
      <3>1. \A f \in CoreFields : rows'[q][f] # <<>> => Exists(q)'
        BY <1>2 DEF Bound, Exists
      <3>2. ASSUME Exists(q)', entry'[q].status = "approved", ~ entry'[q].gap
            PROVE  Sound(q)'
        <4>1. Sound(q)
          BY <3>2 DEF Bound, Exists
        <4>2. QED
          BY <1>3, <1>4, <4>1, StillSound
      <3>3. QED
        BY <3>1, <3>2
    <2>2. QED
      BY <2>1 DEF Bound
  <1>6. QED
    BY <1>3, <1>4, <1>5

LEMMA AppendRow ==
    ASSUME NEW s \in Seq(RowKinds), NEW kind \in RowKinds
    PROVE  /\ Append(s, kind) \in Seq(RowKinds) /\ Append(s, kind) # <<>> /\ Len(Append(s, kind)) = Len(s) + 1
           /\ Len(s) \in Nat /\ Append(s, kind)[Len(Append(s, kind))] = kind
  OBVIOUS

LEMMA StepInsertFields ==
    ASSUME DeskInv, NEW p \in Reviewers, InsertFields(p)
    PROVE  DeskInv'
  <1>1. /\ UNCHANGED <<entry, lastEntry, available, escalation, stripped>> /\ desk[p].pc = "insert_fields"
    BY DEF InsertFields, Waits
  <1>2. desk[p] \in Tasks /\ Relies(desk[p]) /\ Desks /\ EntryTable /\ FieldTable /\ Bound /\ FlagTable /\ available \subseteq Papers
    BY TaskHolds
  <1>3. /\ desk[p].row \in Entries
        /\ \A u \in {Fail(desk[p]), Process(desk[p])} : u \in Tasks /\ Relies(u)
    BY <1>1, <1>2, NextInLoop DEF Relies, Loop
  <1>4. CASE Exists(desk[p].row)
    <2>1. PICK r \in Entries : r = desk[p].row
      BY <1>3
    <2>2. PICK shape : shape = entry[r].shape
      OBVIOUS
    <2>3. PICK new : new = WithFields(rows[r], shape)
      OBVIOUS
    <2>4. rows' = [rows EXCEPT ![r] = new] /\ Sit(p, Process(desk[p])) /\ Exists(r)
      BY <1>4, <2>1, <2>2, <2>3 DEF InsertFields
    <2>5. shape.found \in [CoreFields -> Extracted]
      BY <1>2, <2>2, <2>4, DeskAssumption DEF EntryTable, Made, Exists, ShapeRows
    <2>6. ASSUME NEW f \in CoreFields
          PROVE  /\ new[f] \in Seq(RowKinds) /\ Len(rows[r][f]) <= Len(new[f])
                 /\ r \in stripped \/ (new[f] # <<>> => new[f][Len(new[f])] # "out")
      <3>1. rows[r][f] \in Seq(RowKinds) /\ Len(rows[r][f]) \in Nat
        BY <1>2, RowsLength
      <3>2. CASE shape.found[f] = "none"
        <4>1. new[f] = rows[r][f]
          BY <2>3, <3>2 DEF WithFields
        <4>2. r \in stripped \/ (rows[r][f] # <<>> => rows[r][f][Len(rows[r][f])] # "out")
          BY <1>2 DEF FieldTable, LastInForce
        <4>3. QED
          BY <3>1, <4>1, <4>2
      <3>3. CASE shape.found[f] # "none"
        <4>1. PICK kind : kind = shape.found[f]
          OBVIOUS
        <4>2. kind \in RowKinds /\ kind # "out"
          BY <2>5, <3>3, <4>1 DEF Extracted, RowKinds
        <4>3. new[f] = Append(rows[r][f], kind)
          BY <2>3, <3>3, <4>1 DEF WithFields
        <4>4. QED
          BY <3>1, <4>2, <4>3, AppendRow
      <3>4. QED
        BY <3>2, <3>3
    <2>7. new \in [CoreFields -> Seq(RowKinds)]
      BY <2>3, <2>6 DEF WithFields
    <2>8. FieldTable' /\ Bound' /\ Advances
      BY <1>1, <1>2, <2>4, <2>6, <2>7, FieldsChange
    <2>9. PICK u : u = Process(desk[p])
      OBVIOUS
    <2>10. u \in Tasks /\ Relies(u)'
      BY <1>2, <1>3, <2>8, <2>9, StillRelies
    <2>11. Desks'
      BY <1>2, <2>4, <2>8, <2>9, <2>10, OneTask
    <2>12. QED
      BY <1>1, <1>2, <2>8, <2>11, SameDeskTables DEF DeskInv, DeskTables
  <1>5. CASE ~ Exists(desk[p].row)
    <2>1. PICK u : u = Fail(desk[p])
      OBVIOUS
    <2>2. u \in Tasks /\ Relies(u) /\ Sit(p, u) /\ UNCHANGED <<entry, rows, lastEntry, available, escalation, stripped>>
      BY <1>1, <1>3, <1>5, <2>1 DEF InsertFields
    <2>3. QED
      BY <2>2, OnlyReads
  <1>6. QED
    BY <1>4, <1>5

LEMMA StepInsertRow ==
    ASSUME DeskInv, NEW p \in Reviewers, InsertRow(p)
    PROVE  DeskInv'
  <1>1. /\ UNCHANGED <<entry, lastEntry, available, escalation, stripped>> /\ desk[p].pc = "insert_row"
    BY DEF InsertRow, Waits
  <1>2. desk[p] \in Tasks /\ Relies(desk[p]) /\ Desks /\ EntryTable /\ FieldTable /\ Bound /\ FlagTable /\ available \subseteq Papers
    BY TaskHolds
  <1>3. PICK r : r = desk[p].at
    OBVIOUS
  <1>4. PICK g : g = desk[p].field
    OBVIOUS
  <1>5. /\ r \in Entries /\ g \in CoreFields /\ desk[p].row \in Nat
        /\ r \in stripped \/ desk[p].row <= Len(rows[r][g])
    BY <1>1, <1>2, <1>3, <1>4 DEF Relies, OnOne, Tasks
  <1>6. CASE Exists(r) /\ Len(rows[r][g]) < MaxRows
    <2>1. PICK new : new = [rows[r] EXCEPT ![g] = Append(@, "strong")]
      OBVIOUS
    <2>2. rows \in [Entries -> [CoreFields -> Seq(RowKinds)]] /\ "strong" \in RowKinds /\ "strong" # "out"
      BY <1>2 DEF FieldTable, RowKinds
    <2>3. rows' = [rows EXCEPT ![r] = new]
          /\ (IF desk[p].row = 0 THEN Leave(p) ELSE Sit(p, [desk[p] EXCEPT !.pc = "supersede"]))
      BY <1>3, <1>4, <1>6, <2>1 DEF InsertRow
    <2>4. /\ new[g] = Append(rows[r][g], "strong") /\ \A f \in CoreFields \ {g} : new[f] = rows[r][f]
      BY <1>5, <2>1, <2>2
    <2>5. ASSUME NEW f \in CoreFields
          PROVE  /\ new[f] \in Seq(RowKinds) /\ Len(rows[r][f]) <= Len(new[f])
                 /\ r \in stripped \/ (new[f] # <<>> => new[f][Len(new[f])] # "out")
      <3>1. rows[r][f] \in Seq(RowKinds) /\ Len(rows[r][f]) \in Nat
        BY <1>2, <1>5, RowsLength
      <3>2. CASE f # g
        <4>1. new[f] = rows[r][f]
          BY <2>4, <3>2
        <4>2. r \in stripped \/ (rows[r][f] # <<>> => rows[r][f][Len(rows[r][f])] # "out")
          BY <1>2, <1>5 DEF FieldTable, LastInForce
        <4>3. QED
          BY <3>1, <4>1, <4>2
      <3>3. CASE f = g
        <4>1. new[f] = Append(rows[r][f], "strong")
          BY <2>4, <3>3
        <4>2. QED
          BY <2>2, <3>1, <4>1, AppendRow
      <3>4. QED
        BY <3>2, <3>3
    <2>6. new \in [CoreFields -> Seq(RowKinds)]
      <3>1. new = [f \in CoreFields |-> new[f]]
        BY <1>5, <2>1, <2>2
      <3>2. QED
        BY <2>5, <3>1
    <2>7. FieldTable' /\ Bound' /\ Advances
      BY <1>1, <1>2, <1>5, <1>6, <2>3, <2>5, <2>6, FieldsChange
    <2>8. Desks'
      <3>1. CASE desk[p].row = 0
        BY <1>2, <2>3, <2>7, <3>1, ReviewerLeaves
      <3>2. CASE desk[p].row # 0
        <4>1. PICK t : t = [desk[p] EXCEPT !.pc = "supersede"]
          OBVIOUS
        <4>2. /\ t \in Tasks /\ t.pc = "supersede" /\ t.at = r /\ t.field = g /\ t.row = desk[p].row /\ t.todo = desk[p].todo
              /\ t.queue = desk[p].queue /\ t.skipped = desk[p].skipped
          BY <1>2, <1>3, <1>4, <4>1 DEF Tasks, OnOne
        <4>3. t.queue = "ready_for_approval" => Readied(t)'
          <5>1. t.queue = "ready_for_approval" => Readied(t)
            BY <1>1, <1>2, <4>2 DEF Relies, Readied
          <5>2. QED
            BY <1>2, <2>7, <4>2, <5>1, StillSound DEF Readied, Advances, Tasks
        <4>4. t.at \in stripped' \/ t.row < Len(rows'[t.at][t.field])
          <5>1. rows'[r][g] = new[g]
            BY <1>5, <2>2, <2>3
          <5>2. Len(rows'[r][g]) = Len(rows[r][g]) + 1 /\ Len(rows[r][g]) \in Nat
            BY <1>5, <2>2, <2>4, <5>1, AppendRow
          <5>3. r \in stripped' \/ desk[p].row < Len(rows'[r][g])
            BY <1>1, <1>5, <5>2
          <5>4. QED
            BY <4>2, <5>3
        <4>5. Relies(t)'
          BY <1>5, <4>2, <4>3, <4>4 DEF Relies, OnOne, Loop
        <4>6. Sit(p, t)
          BY <2>3, <3>2, <4>1
        <4>7. QED
          BY <1>2, <2>7, <4>2, <4>5, <4>6, OneTask
      <3>3. QED
        BY <3>1, <3>2
    <2>9. QED
      BY <1>1, <1>2, <2>7, <2>8, SameDeskTables DEF DeskInv, DeskTables
  <1>7. CASE ~ (Exists(r) /\ Len(rows[r][g]) < MaxRows)
    <2>1. Leave(p) /\ UNCHANGED <<entry, rows, lastEntry, available, escalation, stripped>>
      BY <1>1, <1>3, <1>4, <1>7 DEF InsertRow
    <2>2. QED
      BY <2>1, FreeDeskFits, OnlyReads DEF Leave
  <1>8. QED
    BY <1>6, <1>7

LEMMA StepSupersede ==
    ASSUME DeskInv, NEW p \in Reviewers, Supersede(p)
    PROVE  DeskInv'
  <1>1. /\ UNCHANGED <<entry, lastEntry, available, escalation, stripped>> /\ desk[p].pc = "supersede" /\ Leave(p)
    BY DEF Supersede, Waits
  <1>2. desk[p] \in Tasks /\ Relies(desk[p]) /\ Desks /\ EntryTable /\ FieldTable /\ Bound /\ FlagTable /\ available \subseteq Papers
    BY TaskHolds
  <1>3. PICK r : r = desk[p].at
    OBVIOUS
  <1>4. PICK g : g = desk[p].field
    OBVIOUS
  <1>5. PICK k : k = desk[p].row
    OBVIOUS
  <1>6. /\ r \in Entries /\ g \in CoreFields /\ k \in Nat
        /\ r \in stripped \/ k < Len(rows[r][g])
    BY <1>1, <1>2, <1>3, <1>4, <1>5 DEF Relies, OnOne, Tasks
  <1>7. CASE k \in DOMAIN rows[r][g]
    <2>1. PICK new : new = [rows[r] EXCEPT ![g][k] = "out"]
      OBVIOUS
    <2>2. rows \in [Entries -> [CoreFields -> Seq(RowKinds)]] /\ "out" \in RowKinds /\ rows[r][g] \in Seq(RowKinds)
      BY <1>2, <1>6 DEF FieldTable, RowKinds
    <2>3. rows' = [rows EXCEPT ![r] = new]
      BY <1>3, <1>4, <1>5, <1>7, <2>1 DEF Supersede, WithOut
    <2>4. PICK marked : marked = [rows[r][g] EXCEPT ![k] = "out"]
      OBVIOUS
    <2>5. new[g] = marked /\ \A f \in CoreFields \ {g} : new[f] = rows[r][f]
      BY <1>6, <2>1, <2>2, <2>4
    <2>6. /\ marked \in Seq(RowKinds) /\ Len(marked) = Len(rows[r][g]) /\ rows[r][g] # <<>>
          /\ r \in stripped \/ marked[Len(marked)] = rows[r][g][Len(rows[r][g])]
      <3>1. marked \in Seq(RowKinds) /\ Len(marked) = Len(rows[r][g])
        BY <1>7, <2>2, <2>4, ExceptSeq
      <3>2. Len(rows[r][g]) \in Nat /\ DOMAIN rows[r][g] = 1 .. Len(rows[r][g])
        BY <2>2
      <3>3. rows[r][g] # <<>> /\ Len(rows[r][g]) \in DOMAIN rows[r][g]
        BY <1>7, <2>2, <3>2
      <3>4. r \in stripped \/ Len(rows[r][g]) # k
        BY <1>6, <3>2
      <3>5. QED
        BY <2>4, <3>1, <3>3, <3>4
    <2>7. ASSUME NEW f \in CoreFields
          PROVE  /\ new[f] \in Seq(RowKinds) /\ Len(rows[r][f]) <= Len(new[f])
                 /\ r \in stripped \/ (new[f] # <<>> => new[f][Len(new[f])] # "out")
      <3>1. rows[r][f] \in Seq(RowKinds) /\ Len(rows[r][f]) \in Nat
        BY <1>2, <1>6, RowsLength
      <3>2. r \in stripped \/ (rows[r][f] # <<>> => rows[r][f][Len(rows[r][f])] # "out")
        BY <1>2, <1>6 DEF FieldTable, LastInForce
      <3>3. CASE f # g
        BY <2>5, <3>1, <3>2, <3>3
      <3>4. CASE f = g
        BY <2>5, <2>6, <3>1, <3>2, <3>4
      <3>5. QED
        BY <3>3, <3>4
    <2>8. new \in [CoreFields -> Seq(RowKinds)]
      <3>1. new = [f \in CoreFields |-> new[f]]
        BY <1>6, <2>1, <2>2
      <3>2. QED
        BY <2>7, <3>1
    <2>9. Exists(r)
      BY <1>2, <1>6, <2>6 DEF Bound
    <2>10. FieldTable' /\ Bound' /\ Advances
      BY <1>1, <1>2, <1>6, <2>3, <2>7, <2>8, <2>9, FieldsChange
    <2>11. Desks'
      BY <1>1, <1>2, <2>10, ReviewerLeaves
    <2>12. QED
      BY <1>1, <1>2, <2>10, <2>11, SameDeskTables DEF DeskInv, DeskTables
  <1>8. CASE k \notin DOMAIN rows[r][g]
    <2>1. UNCHANGED rows
      BY <1>3, <1>4, <1>5, <1>8 DEF Supersede, WithOut
    <2>2. QED
      BY <1>1, <2>1, FreeDeskFits, OnlyReads DEF Leave
  <1>9. QED
    BY <1>7, <1>8

\* Every record that an escalation refers to is still there.
LEMMA FlagsStay ==
    ASSUME FlagTable, UNCHANGED escalation, \A r \in Entries : Exists(r) => Exists(r)'
    PROVE  FlagTable'
  <1>1. ASSUME NEW e \in DOMAIN escalation, escalation[e] # Absent
        PROVE  entry'[escalation'[e].entry] # Absent
    <2>1. PICK r : r = escalation[e].entry
      OBVIOUS
    <2>2. r \in Entries /\ Exists(r) /\ r = escalation'[e].entry
      BY <1>1, <2>1 DEF FlagTable, Flags
    <2>3. QED
      BY <2>2 DEF Exists
  <1>2. escalation' \in Seq(Flags \cup {Absent}) /\ DOMAIN escalation' = DOMAIN escalation
    BY DEF FlagTable
  <1>3. QED
    BY <1>1, <1>2 DEF FlagTable, Exists

LEMMA RecordsAreThere == Absent \notin Made
  BY DeskAssumption DEF Made

LEMMA StepWriteStatus ==
    ASSUME DeskInv, NEW p \in Reviewers, WriteStatus(p)
    PROVE  DeskInv'
  <1>1. /\ UNCHANGED <<rows, lastEntry, available, escalation, stripped>> /\ desk[p].pc = "write_status"
        /\ Sit(p, Process(desk[p]))
    BY DEF WriteStatus, Waits
  <1>2. desk[p] \in Tasks /\ Relies(desk[p]) /\ Desks /\ EntryTable /\ FieldTable /\ Bound /\ FlagTable /\ available \subseteq Papers
    BY TaskHolds
  <1>3. /\ desk[p].at \in Entries /\ Process(desk[p]) \in Tasks /\ Relies(Process(desk[p]))
        /\ desk[p].op = "approve" /\ ~ desk[p].gap => Sound(desk[p].at)
    BY <1>1, <1>2, NextInLoop DEF Relies, Loop, OnOne
  <1>4. Advances /\ FieldTable'
    BY <1>1, <1>2, NothingAdvances, SameDeskTables
  <1>5. Desks'
    <2>1. PICK t : t = Process(desk[p])
      OBVIOUS
    <2>2. t \in Tasks /\ Relies(t)' /\ Sit(p, t)
      BY <1>1, <1>2, <1>3, <1>4, <2>1, StillRelies
    <2>3. QED
      BY <1>2, <1>4, <2>2, OneTask
  <1>6. PICK r : r = desk[p].at
    OBVIOUS
  <1>7. CASE Exists(r)
    <2>1. PICK status : status = IF desk[p].op = "approve" THEN "approved" ELSE "rejected"
      OBVIOUS
    <2>2. PICK gap : gap = (desk[p].op = "approve" /\ desk[p].gap)
      OBVIOUS
    <2>3. /\ status \in Statuses /\ (status = "approved" => desk[p].op = "approve") /\ gap \in BOOLEAN
          /\ desk[p].op = "approve" /\ ~ gap => ~ desk[p].gap
      BY <2>1, <2>2 DEF Statuses
    <2>4. PICK m : m = [entry[r] EXCEPT !.status = status, !.gap = gap]
      OBVIOUS
    <2>5. entry' = [entry EXCEPT ![r].status = status, ![r].gap = gap]
      BY <1>6, <1>7, <2>1, <2>2 DEF WriteStatus
    <2>6. entry[r] \in Made /\ entry \in [Entries -> Made \cup {Absent}] /\ r \in Entries
      BY <1>2, <1>3, <1>6, <1>7 DEF EntryTable, Exists
    <2>7. m \in Made /\ m.status = status /\ m.gap = gap /\ m # Absent
      BY <2>3, <2>4, <2>6, RecordsAreThere DEF Made
    <2>8. entry'[r] = m /\ entry' \in [Entries -> Made \cup {Absent}] /\ \A q \in Entries : q # r => entry'[q] = entry[q]
      <3>1. entry' = [entry EXCEPT ![r] = m]
        BY <2>4, <2>5, <2>6
      <3>2. QED
        BY <2>6, <2>7, <3>1
    <2>9. \A q \in Entries : Exists(q) <=> Exists(q)'
      BY <1>7, <2>7, <2>8 DEF Exists
    <2>10. EntryTable'
      BY <1>1, <1>2, <2>8, <2>9 DEF EntryTable
    <2>11. Bound'
      <3>1. ASSUME NEW q \in Entries, Exists(q)', entry'[q].status = "approved", ~ entry'[q].gap
            PROVE  Sound(q)'
        <4>1. CASE q = r
          <5>1. Sound(r)
            BY <1>3, <1>6, <2>3, <2>7, <2>8, <3>1, <4>1
          <5>2. QED
            BY <1>1, <4>1, <5>1 DEF Sound
        <4>2. CASE q # r
          <5>1. Sound(q)
            BY <1>2, <2>8, <2>9, <3>1, <4>2 DEF Bound
          <5>2. QED
            BY <1>1, <5>1 DEF Sound
        <4>3. QED
          BY <4>1, <4>2
      <3>2. \A q \in Entries, f \in CoreFields : rows'[q][f] # <<>> => Exists(q)'
        BY <1>1, <1>2, <2>9 DEF Bound
      <3>3. QED
        BY <3>1, <3>2 DEF Bound
    <2>12. FlagTable'
      BY <1>1, <1>2, <2>9, FlagsStay
    <2>13. QED
      BY <1>1, <1>2, <1>4, <1>5, <2>10, <2>11, <2>12 DEF DeskInv, DeskTables
  <1>8. CASE ~ Exists(r)
    <2>1. UNCHANGED entry
      BY <1>6, <1>8 DEF WriteStatus
    <2>2. QED
      BY <1>1, <1>2, <1>4, <1>5, <2>1, SameDeskTables DEF DeskInv, DeskTables
  <1>9. QED
    BY <1>7, <1>8

LEMMA StepInsertEntry ==
    ASSUME DeskInv, NEW p \in Reviewers, NEW shape \in Shapes, InsertEntry(p, shape)
    PROVE  DeskInv'
  <1>1. /\ UNCHANGED <<rows, available, escalation, stripped>> /\ desk[p].pc = "insert_entry"
        /\ lastEntry < MaxEntries /\ lastEntry' = lastEntry + 1
    BY DEF InsertEntry, Waits
  <1>2. desk[p] \in Tasks /\ Relies(desk[p]) /\ Desks /\ EntryTable /\ FieldTable /\ Bound /\ FlagTable /\ available \subseteq Papers
    BY TaskHolds
  <1>3. Advances /\ FieldTable'
    BY <1>1, <1>2, NothingAdvances, SameDeskTables
  <1>4. PICK r : r = lastEntry + 1
    OBVIOUS
  <1>5. r \in Entries /\ r \in Nat /\ lastEntry' = r /\ lastEntry' \in 0 .. MaxEntries /\ ~ Exists(r)
    <2>1. lastEntry \in 0 .. MaxEntries /\ MaxEntries \in Nat /\ (r \in Entries => (Exists(r) => r <= lastEntry))
      BY <1>2, DeskAssumption DEF EntryTable
    <2>2. QED
      BY <1>1, <1>4, <2>1 DEF Entries
  <1>6. PICK m : m = [paper |-> desk[p].paper, shape |-> shape, status |-> "pending", gap |-> FALSE]
    OBVIOUS
  <1>7. m \in Made /\ m.status = "pending" /\ m # Absent
    <2>1. desk[p].paper \in Papers
      BY <1>1, <1>2 DEF Relies
    <2>2. m \in Made /\ m.status = "pending"
      BY <1>6, <2>1 DEF Made, Statuses
    <2>3. QED
      BY <2>2, RecordsAreThere
  <1>8. entry'[r] = m /\ entry' \in [Entries -> Made \cup {Absent}] /\ \A q \in Entries : q # r => entry'[q] = entry[q]
    <2>1. entry' = [entry EXCEPT ![r] = m] /\ entry \in [Entries -> Made \cup {Absent}]
      BY <1>2, <1>4, <1>6 DEF InsertEntry, EntryTable
    <2>2. QED
      BY <1>5, <1>7, <2>1
  <1>9. \A q \in Entries : /\ Exists(q) => Exists(q)'
                           /\ q # r => (Exists(q) <=> Exists(q)')
    BY <1>5, <1>8 DEF Exists
  <1>10. EntryTable'
    <2>1. ASSUME NEW q \in Entries, Exists(q)'
          PROVE  q <= lastEntry'
      <3>1. CASE q = r
        BY <1>5, <3>1
      <3>2. CASE q # r
        <4>1. q <= lastEntry /\ lastEntry \in Nat /\ q \in Nat
          BY <1>2, <1>9, <2>1, <3>2, EntriesNat DEF EntryTable
        <4>2. QED
          BY <1>1, <4>1
      <3>3. QED
        BY <3>1, <3>2
    <2>2. QED
      BY <1>5, <1>8, <2>1 DEF EntryTable
  <1>11. Bound'
    <2>1. ASSUME NEW q \in Entries, Exists(q)', entry'[q].status = "approved", ~ entry'[q].gap
          PROVE  Sound(q)'
      <3>1. q # r
        BY <1>7, <1>8, <2>1
      <3>2. Sound(q)
        BY <1>2, <1>8, <1>9, <2>1, <3>1 DEF Bound
      <3>3. QED
        BY <1>1, <3>2 DEF Sound
    <2>2. \A q \in Entries, f \in CoreFields : rows'[q][f] # <<>> => Exists(q)'
      BY <1>1, <1>2, <1>9 DEF Bound
    <2>3. QED
      BY <2>1, <2>2 DEF Bound
  <1>12. FlagTable'
    BY <1>1, <1>2, <1>9, FlagsStay
  <1>13. Desks'
    <2>1. PICK t : t = [desk[p] EXCEPT !.pc = "insert_fields", !.row = r]
      OBVIOUS
    <2>2. /\ t \in Tasks /\ t.pc = "insert_fields" /\ t.at = desk[p].at /\ t.row = r /\ t.op = desk[p].op
          /\ t.todo = desk[p].todo /\ t.queue = desk[p].queue /\ t.skipped = desk[p].skipped
      BY <1>2, <1>5, <2>1 DEF Tasks, OnOne
    <2>3. t.at \in Entries /\ t.op \in Decisions /\ (t.queue = "ready_for_approval" => Readied(t))
      BY <1>1, <1>2, <2>2 DEF Relies, OnOne, Loop, Readied
    <2>4. Relies(t)
      BY <1>5, <2>2, <2>3 DEF Relies, OnOne
    <2>5. Relies(t)' /\ Sit(p, t)
      BY <1>2, <1>3, <1>4, <2>1, <2>2, <2>4, StillRelies DEF InsertEntry
    <2>6. QED
      BY <1>2, <1>3, <2>2, <2>5, OneTask
  <1>14. QED
    BY <1>1, <1>2, <1>3, <1>10, <1>11, <1>12, <1>13 DEF DeskInv, DeskTables

\* Escalations come, are resolved, and go with their record.
LEMMA FlagsChange ==
    ASSUME DeskInv, NEW p \in Reviewers, NEW t \in Tasks, Relies(t), Sit(p, t),
           DOMAIN escalation \subseteq DOMAIN escalation', FlagTable',
           UNCHANGED <<entry, rows, lastEntry, available, stripped>>
    PROVE  DeskInv'
  <1>1. Desks /\ EntryTable /\ FieldTable /\ Bound /\ available \subseteq Papers
    BY DEF DeskInv, DeskTables
  <1>2. Advances /\ FieldTable'
    <2>1. FieldTable'
      BY <1>1, SameDeskTables
    <2>2. ASSUME NEW r \in Entries, NEW f \in CoreFields
          PROVE  Len(rows[r][f]) <= Len(rows'[r][f])
      <3>1. Len(rows[r][f]) \in Nat /\ rows'[r][f] = rows[r][f]
        BY <1>1, RowsLength
      <3>2. QED
        BY <3>1
    <2>3. QED
      BY <2>1, <2>2 DEF Advances
  <1>3. Relies(t)'
    BY <1>1, <1>2, StillRelies
  <1>4. Desks'
    BY <1>1, <1>2, <1>3, OneTask
  <1>5. QED
    BY <1>1, <1>2, <1>4, SameDeskTables DEF DeskInv, DeskTables

LEMMA StepInsertEscalation ==
    ASSUME DeskInv, NEW p \in Reviewers, InsertEscalation(p)
    PROVE  DeskInv'
  <1>1. /\ UNCHANGED <<entry, rows, lastEntry, available, stripped>> /\ desk[p].pc = "insert_escalation" /\ Sit(p, FreeDesk)
    BY DEF InsertEscalation, Waits, Leave, recordTables
  <1>2. Relies(desk[p]) /\ FlagTable
    BY TaskHolds
  <1>3. CASE Exists(desk[p].at) /\ Len(escalation) < MaxEscalations
    <2>1. PICK x : x = [entry |-> desk[p].at, resolved |-> FALSE]
      OBVIOUS
    <2>2. escalation' = Append(escalation, x) /\ x \in Flags /\ Exists(x.entry)
      BY <1>1, <1>2, <1>3, <2>1 DEF InsertEscalation, Relies, OnOne, Flags
    <2>3. escalation \in Seq(Flags \cup {Absent}) /\ x \in Flags \cup {Absent}
      BY <1>2, <2>2 DEF FlagTable
    <2>4. /\ escalation' \in Seq(Flags \cup {Absent}) /\ DOMAIN escalation \subseteq DOMAIN escalation'
          /\ \A e \in DOMAIN escalation' : (e \in DOMAIN escalation /\ escalation'[e] = escalation[e]) \/ escalation'[e] = x
      BY <2>2, <2>3
    <2>5. FlagTable'
      <3>1. ASSUME NEW e \in DOMAIN escalation', escalation'[e] # Absent
            PROVE  Exists(escalation'[e].entry)
        BY <1>2, <2>2, <2>4, <3>1 DEF FlagTable
      <3>2. QED
        BY <1>1, <2>4, <3>1 DEF FlagTable, Exists
    <2>6. QED
      BY <1>1, <2>4, <2>5, FreeDeskFits, FlagsChange
  <1>4. CASE ~ (Exists(desk[p].at) /\ Len(escalation) < MaxEscalations)
    BY <1>1, <1>4, FreeDeskFits, OnlyReads DEF InsertEscalation
  <1>5. QED
    BY <1>3, <1>4

LEMMA StepWriteResolved ==
    ASSUME DeskInv, NEW p \in Reviewers, WriteResolved(p)
    PROVE  DeskInv'
  <1>1. /\ UNCHANGED <<entry, rows, lastEntry, available, stripped>> /\ desk[p].pc = "resolve" /\ Sit(p, FreeDesk)
    BY DEF WriteResolved, Waits, Leave, recordTables
  <1>2. desk[p].row \in DOMAIN escalation /\ FlagTable
    BY <1>1, TaskHolds DEF Relies
  <1>3. CASE escalation[desk[p].row] # Absent
    <2>1. PICK e : e = desk[p].row
      OBVIOUS
    <2>2. PICK x : x = [escalation[e] EXCEPT !.resolved = TRUE]
      OBVIOUS
    <2>3. escalation' = [escalation EXCEPT ![e].resolved = TRUE]
      BY <1>3, <2>1 DEF WriteResolved
    <2>4. escalation \in Seq(Flags \cup {Absent}) /\ e \in DOMAIN escalation /\ escalation[e] \in Flags /\ Exists(escalation[e].entry)
      BY <1>2, <1>3, <2>1 DEF FlagTable
    <2>5. x \in Flags /\ x.entry = escalation[e].entry
      BY <2>2, <2>4 DEF Flags
    <2>6. escalation' = [escalation EXCEPT ![e] = x] /\ x \in Flags \cup {Absent}
      BY <2>2, <2>3, <2>4, <2>5
    <2>7. /\ escalation' \in Seq(Flags \cup {Absent}) /\ DOMAIN escalation' = DOMAIN escalation
          /\ \A i \in DOMAIN escalation : escalation'[i] = IF i = e THEN x ELSE escalation[i]
      BY <2>4, <2>6, ExceptSeq
    <2>8. FlagTable'
      <3>1. ASSUME NEW i \in DOMAIN escalation', escalation'[i] # Absent
            PROVE  Exists(escalation'[i].entry)
        BY <1>2, <2>4, <2>5, <2>7, <3>1 DEF FlagTable
      <3>2. QED
        BY <1>1, <2>7, <3>1 DEF FlagTable, Exists
    <2>9. QED
      BY <1>1, <2>7, <2>8, FreeDeskFits, FlagsChange
  <1>4. CASE escalation[desk[p].row] = Absent
    BY <1>1, <1>4, FreeDeskFits, OnlyReads DEF WriteResolved
  <1>5. QED
    BY <1>3, <1>4

-----------------------------------------------------------------------------

LEMMA StepDropEscalations ==
    ASSUME DeskInv, NEW p \in Reviewers, NEW r \in Entries, DropEscalations(p, r)
    PROVE  DeskInv'
  <1>1. /\ UNCHANGED <<entry, rows, lastEntry, available, stripped>> /\ desk[p].pc = "drop_escalations"
    BY DEF DropEscalations, Waits, recordTables
  <1>2. desk[p] \in Tasks /\ Relies(desk[p]) /\ FlagTable
    BY TaskHolds
  <1>3. CASE Exists(r)
    <2>1. escalation' = [e \in DOMAIN escalation |->
                            IF escalation[e] # Absent /\ escalation[e].entry = r THEN Absent ELSE escalation[e]]
      BY <1>3 DEF DropEscalations
    <2>2. escalation \in Seq(Flags \cup {Absent})
      BY <1>2 DEF FlagTable
    <2>3. \A e \in DOMAIN escalation : escalation'[e] \in Flags \cup {Absent} /\ escalation'[e] \in {Absent, escalation[e]}
      BY <2>1, <2>2
    <2>4. DOMAIN escalation = 1 .. Len(escalation) /\ Len(escalation) \in Nat /\ DOMAIN escalation' = DOMAIN escalation
      BY <2>1, <2>2
    <2>5. escalation' \in [1 .. Len(escalation) -> Flags \cup {Absent}]
      BY <2>1, <2>3, <2>4
    <2>6. escalation' \in Seq(Flags \cup {Absent})
      BY <2>4, <2>5, SeqDef
    <2>7. FlagTable'
      <3>1. ASSUME NEW e \in DOMAIN escalation', escalation'[e] # Absent
            PROVE  Exists(escalation'[e].entry)
        BY <1>2, <2>3, <2>4, <3>1 DEF FlagTable
      <3>2. QED
        BY <1>1, <2>6, <3>1 DEF FlagTable, Exists
    <2>8. PICK t : t = [desk[p] EXCEPT !.pc = "drop_fields", !.at = r, !.todo = @ \ {r}]
      OBVIOUS
    <2>9. /\ t \in Tasks /\ t.pc = "drop_fields" /\ t.at = r /\ t.todo = desk[p].todo \ {r}
          /\ t.queue = desk[p].queue /\ t.skipped = desk[p].skipped
      BY <1>2, <2>8, EntriesNat DEF Tasks, OnOne
    <2>10. t.queue = "ready_for_approval" => Readied(t)
      BY <1>1, <1>2, <2>9 DEF Relies, Readied
    <2>11. Relies(t)
      BY <2>9, <2>10 DEF Relies, OnOne, Loop
    <2>12. Sit(p, t)
      BY <1>3, <2>8 DEF DropEscalations
    <2>13. QED
      BY <1>1, <2>4, <2>7, <2>9, <2>11, <2>12, FlagsChange
  <1>4. CASE ~ Exists(r)
    <2>1. PICK t : t = [desk[p] EXCEPT !.todo = @ \ {r}]
      OBVIOUS
    <2>2. Sit(p, t) /\ UNCHANGED escalation
      BY <1>4, <2>1 DEF DropEscalations
    <2>3. /\ t \in Tasks /\ t.pc = "drop_escalations" /\ t.todo = desk[p].todo \ {r}
          /\ t.queue = desk[p].queue /\ t.skipped = desk[p].skipped
      BY <1>1, <1>2, <2>1 DEF Tasks
    <2>4. t.queue = "ready_for_approval" => Readied(t)
      BY <1>1, <1>2, <2>3 DEF Relies, Readied
    <2>5. Relies(t)
      BY <2>3, <2>4 DEF Relies, OnOne, Loop
    <2>6. QED
      BY <1>1, <2>2, <2>3, <2>5, OnlyReads
  <1>5. QED
    BY <1>3, <1>4

LEMMA StepDropFields ==
    ASSUME DeskInv, NEW p \in Reviewers, DropFields(p)
    PROVE  DeskInv'
  <1>1. /\ UNCHANGED <<entry, lastEntry, available, escalation>> /\ desk[p].pc = "drop_fields"
    BY DEF DropFields, Waits
  <1>2. desk[p] \in Tasks /\ Relies(desk[p]) /\ Desks /\ EntryTable /\ FieldTable /\ Bound /\ FlagTable /\ available \subseteq Papers
    BY TaskHolds
  <1>3. PICK r \in Entries : r = desk[p].at
    BY <1>1, <1>2 DEF Relies, OnOne
  <1>4. rows' = [rows EXCEPT ![r] = Blank] /\ stripped' = stripped \cup {r}
    BY <1>3 DEF DropFields
  <1>5. rows \in [Entries -> [CoreFields -> Seq(RowKinds)]] /\ Blank \in [CoreFields -> Seq(RowKinds)]
    <2>1. <<>> \in Seq(RowKinds)
      OBVIOUS
    <2>2. QED
      BY <1>2, <2>1 DEF FieldTable, Blank
  <1>6. /\ rows' \in [Entries -> [CoreFields -> Seq(RowKinds)]] /\ rows'[r] = Blank
        /\ \A q \in Entries : q # r => rows'[q] = rows[q]
    BY <1>4, <1>5
  <1>7. FieldTable'
    <2>1. ASSUME NEW q \in Entries
          PROVE  LastInForce(q)'
      <3>1. CASE q = r
        BY <1>4, <3>1 DEF LastInForce
      <3>2. CASE q # r
        BY <1>2, <1>4, <1>6, <3>2 DEF LastInForce, FieldTable
      <3>3. QED
        BY <3>1, <3>2
    <2>2. stripped' \subseteq Entries
      BY <1>2, <1>4 DEF FieldTable
    <2>3. QED
      BY <1>6, <2>1, <2>2 DEF FieldTable
  <1>8. Advances
    <2>1. ASSUME NEW q \in Entries, NEW f \in CoreFields
          PROVE  q \in stripped' \/ Len(rows[q][f]) <= Len(rows'[q][f])
      <3>1. CASE q = r
        BY <1>4, <3>1
      <3>2. CASE q # r
        <4>1. rows'[q][f] = rows[q][f] /\ Len(rows[q][f]) \in Nat
          BY <1>2, <1>6, <3>2, RowsLength
        <4>2. QED
          BY <4>1
      <3>3. QED
        BY <3>1, <3>2
    <2>2. QED
      BY <1>1, <1>4, <2>1 DEF Advances
  <1>9. Bound'
    <2>1. ASSUME NEW q \in Entries, Exists(q)', entry'[q].status = "approved", ~ entry'[q].gap
          PROVE  Sound(q)'
      <3>1. Sound(q)
        BY <1>1, <1>2, <2>1 DEF Bound, Exists
      <3>2. QED
        BY <1>2, <1>7, <1>8, <3>1, StillSound
    <2>2. ASSUME NEW q \in Entries, NEW f \in CoreFields, rows'[q][f] # <<>>
          PROVE  Exists(q)'
      <3>1. q # r
        BY <1>6, <2>2 DEF Blank
      <3>2. rows[q][f] # <<>>
        BY <1>6, <2>2, <3>1
      <3>3. QED
        BY <1>1, <1>2, <3>2 DEF Bound, Exists
    <2>3. QED
      BY <2>1, <2>2 DEF Bound
  <1>10. Desks'
    <2>1. PICK t : t = [desk[p] EXCEPT !.pc = "drop_entry"]
      OBVIOUS
    <2>2. /\ t \in Tasks /\ t.pc = "drop_entry" /\ t.at = r /\ t.todo = desk[p].todo
          /\ t.queue = desk[p].queue /\ t.skipped = desk[p].skipped
      BY <1>2, <1>3, <2>1 DEF Tasks, OnOne
    <2>3. t.queue = "ready_for_approval" => Readied(t)'
      <3>1. t.queue = "ready_for_approval" => Readied(t)
        BY <1>1, <1>2, <2>2 DEF Relies, Readied
      <3>2. QED
        BY <1>2, <1>7, <1>8, <2>2, <3>1, StillSound DEF Readied, Advances, Tasks
    <2>4. Relies(t)' /\ Sit(p, t)
      BY <1>4, <2>1, <2>2, <2>3 DEF Relies, OnOne, Loop, DropFields
    <2>5. QED
      BY <1>2, <1>7, <1>8, <2>2, <2>4, OneTask
  <1>11. QED
    BY <1>1, <1>2, <1>7, <1>9, <1>10, SameDeskTables DEF DeskInv, DeskTables

LEMMA StepDropEntry ==
    ASSUME DeskInv, NEW p \in Reviewers, DropEntry(p)
    PROVE  DeskInv'
  <1>1. /\ UNCHANGED <<rows, lastEntry, available, escalation, stripped>> /\ desk[p].pc = "drop_entry"
    BY DEF DropEntry, Waits
  <1>2. desk[p] \in Tasks /\ Relies(desk[p]) /\ Desks /\ EntryTable /\ FieldTable /\ Bound /\ FlagTable /\ available \subseteq Papers
    BY TaskHolds
  <1>3. PICK r \in Entries : r = desk[p].at
    BY <1>1, <1>2 DEF Relies, OnOne
  <1>4. CASE Exists(r) /\ (Escalated(r) \/ rows[r] # Blank)
    <2>1. Sit(p, FreeDesk) /\ UNCHANGED entry
      BY <1>3, <1>4 DEF DropEntry, Leave
    <2>2. QED
      BY <1>1, <2>1, FreeDeskFits, OnlyReads
  <1>5. CASE ~ (Exists(r) /\ (Escalated(r) \/ rows[r] # Blank))
    <2>1. entry' = [entry EXCEPT ![r] = Absent] /\ Sit(p, [desk[p] EXCEPT !.pc = "drop_escalations", !.at = 0])
      BY <1>3, <1>5 DEF DropEntry
    <2>2. /\ entry' \in [Entries -> Made \cup {Absent}] /\ ~ Exists(r)'
          /\ \A q \in Entries : q # r => entry'[q] = entry[q] /\ (Exists(q) <=> Exists(q)')
      BY <1>2, <2>1 DEF EntryTable, Exists
    <2>3. \A f \in CoreFields : rows[r][f] = <<>>
      BY <1>2, <1>5 DEF Bound, Blank
    <2>4. \A e \in DOMAIN escalation : escalation[e] # Absent => escalation[e].entry # r
      BY <1>2, <1>5 DEF FlagTable, Escalated
    <2>5. EntryTable'
      BY <1>1, <1>2, <2>2 DEF EntryTable
    <2>6. Bound'
      <3>1. ASSUME NEW q \in Entries, Exists(q)', entry'[q].status = "approved", ~ entry'[q].gap
            PROVE  Sound(q)'
        <4>1. q # r
          BY <2>2, <3>1
        <4>2. Sound(q)
          BY <1>2, <2>2, <3>1, <4>1 DEF Bound
        <4>3. QED
          BY <1>1, <4>2 DEF Sound
      <3>2. \A q \in Entries, f \in CoreFields : rows'[q][f] # <<>> => Exists(q)'
        BY <1>1, <1>2, <2>2, <2>3 DEF Bound
      <3>3. QED
        BY <3>1, <3>2 DEF Bound
    <2>7. FlagTable'
      <3>1. ASSUME NEW e \in DOMAIN escalation, escalation[e] # Absent
            PROVE  entry'[escalation'[e].entry] # Absent
        <4>1. PICK q : q = escalation[e].entry
          OBVIOUS
        <4>2. q \in Entries /\ Exists(q) /\ q # r
          BY <1>2, <2>4, <3>1, <4>1 DEF FlagTable, Flags
        <4>3. entry'[q] # Absent
          BY <2>2, <4>2 DEF Exists
        <4>4. QED
          BY <1>1, <4>1, <4>3
      <3>2. QED
        BY <1>1, <1>2, <3>1 DEF FlagTable, Exists
    <2>8. Advances /\ FieldTable'
      BY <1>1, <1>2, NothingAdvances, SameDeskTables
    <2>9. Desks'
      <3>1. PICK t : t = [desk[p] EXCEPT !.pc = "drop_escalations", !.at = 0]
        OBVIOUS
      <3>2. /\ t \in Tasks /\ t.pc = "drop_escalations" /\ t.todo = desk[p].todo
            /\ t.queue = desk[p].queue /\ t.skipped = desk[p].skipped
        BY <1>2, <3>1 DEF Tasks
      <3>3. t.queue = "ready_for_approval" => Readied(t)
        BY <1>1, <1>2, <3>2 DEF Relies, Readied
      <3>4. Relies(t)
        BY <3>2, <3>3 DEF Relies, OnOne, Loop
      <3>5. Relies(t)' /\ Sit(p, t)
        BY <1>2, <2>1, <2>8, <3>1, <3>2, <3>4, StillRelies
      <3>6. QED
        BY <1>2, <2>8, <3>2, <3>5, OneTask
    <2>10. QED
      BY <1>1, <1>2, <2>5, <2>6, <2>7, <2>8, <2>9 DEF DeskInv, DeskTables
  <1>6. QED
    BY <1>4, <1>5

LEMMA DeskInvStep == DeskInv /\ [DeskNext]_deskVars => DeskInv'
  <1>1. SUFFICES ASSUME DeskInv, [DeskNext]_deskVars
                 PROVE  DeskInv'
    OBVIOUS
  <1>2. CASE UNCHANGED deskVars
    <2>1. UNCHANGED <<entry, rows, lastEntry, available, escalation, desk, stripped>>
      BY <1>2 DEF deskVars, recordTables
    <2>2. Advances /\ FieldTable /\ FieldTable' /\ Desks
      BY <1>1, <2>1, NothingAdvances, SameDeskTables DEF DeskInv, DeskTables
    <2>3. Desks'
      BY <2>1, <2>2, SameTask
    <2>4. QED
      BY <1>1, <2>1, <2>3, SameDeskTables DEF DeskInv, DeskTables
  <1>3. ASSUME NEW p \in Reviewers, Batch(p)
        PROVE  DeskInv'
    <2>1. CASE \E op \in {"approve", "reject", "reprocess"} :
                  \/ \E ticked \in SUBSET Entries : Submit(p, op, ticked)
                  \/ \E r \in Entries : \E override \in BOOLEAN : Decide(p, op, r, override)
      BY <1>1, <2>1, StepSubmit, StepDecide DEF Decisions
    <2>2. CASE \E queue \in TypedQueues \cup ReviewerQueues \cup Workbenches : ListQueue(p, queue)
      BY <1>1, <2>2, StepListQueue
    <2>3. CASE \E r \in Entries : RequireRecord(p, r)
      BY <1>1, <2>3, StepRequireRecord
    <2>4. CASE \E shape \in Shapes : InsertEntry(p, shape)
      BY <1>1, <2>4, StepInsertEntry
    <2>5. CASE ListFields(p) \/ ReadFields(p) \/ WriteStatus(p) \/ ParseFails(p) \/ InsertFields(p) \/ ShowCounts(p)
      BY <1>1, <2>5, StepListFields, StepReadFields, StepWriteStatus, StepParseFails, StepInsertFields, StepLeaves
    <2>6. QED
      BY <1>3, <2>1, <2>2, <2>3, <2>4, <2>5 DEF Batch
  <1>4. ASSUME NEW p \in Reviewers, Edit(p)
        PROVE  DeskInv'
    BY <1>1, <1>4, StepStarts, StepReadCurrent, StepInsertRow, StepSupersede, StepInsertEscalation, StepWriteResolved
       DEF Edit
  <1>5. ASSUME NEW p \in Reviewers, Manage(p)
        PROVE  DeskInv'
    BY <1>1, <1>5, StepStarts, StepCampaign, StepDropFields, StepDropEntry, StepLeaves, StepDropEscalations DEF Manage
  <1>6. ASSUME NEW p \in Reviewers, Interrupted(p)
        PROVE  DeskInv'
    BY <1>1, <1>6, StepLeaves
  <1>7. ASSUME NEW d \in Papers, PdfLost(d) \/ PdfStored(d)
        PROVE  DeskInv'
    BY <1>1, <1>7, StepPdf
  <1>8. QED
    BY <1>1, <1>2, <1>3, <1>4, <1>5, <1>6, <1>7 DEF DeskNext

LEMMA DeskInvariant == DeskSpec => []DeskInv
  BY DeskInitInv, DeskInvStep, PTL DEF DeskSpec

\* However the requests of reviewers interleave and stop, ids are handed out in order, fields and escalations belong
\* to records that exist, and every column holds what it may.
THEOREM DeskTypesHold == DeskSpec => []DeskTypeOK
  BY DeskInvariant, DeskInvTypes, PTL

\* A batch that was ticked in the list of records ready for approval skips none of them, whoever corrects,
\* reprocesses or decides in between, but those that a cleanup has taken.
THEOREM ReadyStaysApprovable == DeskSpec => []ReadyIsApprovable
  <1>1. DeskInv => ReadyIsApprovable
    <2>1. SUFFICES ASSUME DeskInv, NEW p \in Reviewers, desk[p].queue = "ready_for_approval", NEW r \in desk[p].skipped
                   PROVE  r \in stripped
      BY DEF ReadyIsApprovable
    <2>2. QED
      BY <2>1, TaskHolds DEF Relies, Readied
  <1>2. QED
    BY <1>1, DeskInvariant, PTL

\* The tables of the three parts of the workbench, side by side.
THEOREM WorkbenchTypesHold == AccountSpec /\ EvalSpec /\ DeskSpec => []TypesOK
  <1>1. AccountTypeOK /\ EvalTypeOK /\ DeskTypeOK => TypesOK
    BY DEF TypesOK
  <1>2. QED
    BY <1>1, AccountTypesHold, EvalTypesHold, DeskTypesHold, PTL

-----------------------------------------------------------------------------
(* What the review centre shows.                                           *)

LEMMA FourFields == IsFiniteSet(CoreFields) /\ Cardinality(CoreFields) = 4
  <1>1. IsFiniteSet({}) /\ Cardinality({}) = 0
    BY FS_EmptySet
  <1>2. IsFiniteSet({"go_number"}) /\ Cardinality({"go_number"}) = 1
    BY FS_Singleton
  <1>3. /\ IsFiniteSet({"go_number"} \cup {"go_date"})
        /\ Cardinality({"go_number"} \cup {"go_date"}) = Cardinality({"go_number"}) + 1
    BY <1>2, FS_AddElement
  <1>4. PICK S : S = {"go_number"} \cup {"go_date"}
    OBVIOUS
  <1>5. IsFiniteSet(S \cup {"department"}) /\ Cardinality(S \cup {"department"}) = 3
    BY <1>2, <1>3, <1>4, FS_AddElement
  <1>6. PICK U : U = S \cup {"department"}
    OBVIOUS
  <1>7. IsFiniteSet(U \cup {"subject"}) /\ Cardinality(U \cup {"subject"}) = 4
    BY <1>4, <1>5, <1>6, FS_AddElement
  <1>8. CoreFields = U \cup {"subject"}
    BY <1>4, <1>6 DEF CoreFields
  <1>9. QED
    BY <1>7, <1>8

\* Three fields missing leave one at most.
LEMMA CriticalHasOne ==
    ASSUME NEW present \in SUBSET CoreFields, Cardinality(CoreFields \ present) >= 3,
           NEW f \in present, NEW g \in present
    PROVE  f = g
  <1>1. SUFFICES ASSUME f # g
                 PROVE  FALSE
    OBVIOUS
  <1>2. IsFiniteSet(CoreFields \ {f}) /\ Cardinality(CoreFields \ {f}) = 3
    BY FourFields, FS_RemoveElement
  <1>3. PICK S : S = CoreFields \ {f}
    OBVIOUS
  <1>4. IsFiniteSet(S) /\ Cardinality(S) = 3 /\ g \in S
    BY <1>1, <1>2, <1>3
  <1>5. IsFiniteSet(S \ {g}) /\ Cardinality(S \ {g}) = 2
    BY <1>4, FS_RemoveElement
  <1>6. CoreFields \ present \subseteq S \ {g}
    BY <1>3
  <1>7. Cardinality(CoreFields \ present) <= Cardinality(S \ {g}) /\ Cardinality(CoreFields \ present) \in Nat
    BY <1>5, <1>6, FS_Subset, FS_CardinalityType
  <1>8. QED
    BY <1>5, <1>7

LEMMA InForceNames ==
    ASSUME NEW r
    PROVE  {x[1] : x \in Joined(r)} = InForce(r)
  <1>1. ASSUME NEW x \in Joined(r)
        PROVE  x[1] \in InForce(r)
    <2>1. PICK f \in CoreFields : x \in {f} \X InForceRows(r, f)
      BY <1>1 DEF Joined
    <2>2. x[1] = f /\ x[2] \in InForceRows(r, f)
      BY <2>1
    <2>3. QED
      BY <2>2 DEF InForce
  <1>2. ASSUME NEW f \in InForce(r)
        PROVE  \E x \in Joined(r) : x[1] = f
    <2>1. f \in CoreFields /\ InForceRows(r, f) # {}
      BY DEF InForce
    <2>2. PICK i : i \in InForceRows(r, f)
      BY <2>1
    <2>3. <<f, i>> \in {f} \X InForceRows(r, f) /\ <<f, i>>[1] = f
      BY <2>2
    <2>4. QED
      BY <2>1, <2>3 DEF Joined
  <1>3. QED
    BY <1>1, <1>2

\* A record counts as extracted in full when every field has a row in force.
LEMMA SuccessfulNames ==
    ASSUME NEW r
    PROVE  Successful(r) <=> InForce(r) = CoreFields
  <1>1. InForce(r) \subseteq CoreFields
    BY DEF InForce
  <1>2. Cardinality(InForce(r)) = Cardinality(CoreFields) <=> InForce(r) = CoreFields
    BY <1>1, FourFields, FS_Subset
  <1>3. QED
    BY <1>2, InForceNames DEF Successful

\* The parts of a score.
LEMMA ScoreParts ==
    ASSUME NEW r, entry[r].shape \in ShapeRows
    PROVE  \E n \in 0 .. 100, m \in 0 .. 100 :
              QualityScore(r) = (IF "go_number" \in InForce(r) THEN 200 ELSE 0) + (IF "go_date" \in InForce(r) THEN 150 ELSE 0)
                                + (IF "department" \in InForce(r) THEN 150 ELSE 0) + (IF "subject" \in InForce(r) THEN 150 ELSE 0)
                                + (IF entry[r].paper \in available THEN 150 ELSE 0) + n + m
  <1>1. PICK c : c = entry[r].shape.confidence
    OBVIOUS
  <1>2. PICK o : o = entry[r].shape.optional
    OBVIOUS
  <1>3. c \in 0 .. 100 /\ o \in 0 .. 3
    BY <1>1, <1>2 DEF ShapeRows
  <1>4. (c * 100) \div 100 \in 0 .. 100
    BY <1>3
  <1>5. (2 * o * 100 + 3) \div 6 \in 0 .. 100
    <2>1. o = 0 \/ o = 1 \/ o = 2 \/ o = 3
      BY <1>3
    <2>2. QED
      BY <2>1
  <1>6. PICK e : e = Earned(InForce(r))
    OBVIOUS
  <1>7. /\ e["go_number"] = IF "go_number" \in InForce(r) THEN 200 ELSE 0
        /\ e["go_date"] = IF "go_date" \in InForce(r) THEN 150 ELSE 0
        /\ e["department"] = IF "department" \in InForce(r) THEN 150 ELSE 0
        /\ e["subject"] = IF "subject" \in InForce(r) THEN 150 ELSE 0
    BY <1>6 DEF Earned, CoreFields, Weight
  <1>8. Weight["pdf_availability"] = 150 /\ Weight["ocr_confidence"] = 100 /\ Weight["metadata_completeness"] = 100
    BY DEF Weight
  <1>9. QualityScore(r) = e["go_number"] + e["go_date"] + e["department"] + e["subject"]
                          + (IF entry[r].paper \in available THEN 150 ELSE 0) + (c * 100) \div 100 + (2 * o * 100 + 3) \div 6
    BY <1>1, <1>2, <1>6, <1>8 DEF QualityScore
  <1>10. PICK n : n = (c * 100) \div 100
    OBVIOUS
  <1>11. PICK m : m = (2 * o * 100 + 3) \div 6
    OBVIOUS
  <1>12. n \in 0 .. 100 /\ m \in 0 .. 100
    BY <1>4, <1>5, <1>10, <1>11
  <1>13. QualityScore(r) = (IF "go_number" \in InForce(r) THEN 200 ELSE 0) + (IF "go_date" \in InForce(r) THEN 150 ELSE 0)
                           + (IF "department" \in InForce(r) THEN 150 ELSE 0) + (IF "subject" \in InForce(r) THEN 150 ELSE 0)
                           + (IF entry[r].paper \in available THEN 150 ELSE 0) + n + m
    BY <1>7, <1>9, <1>10, <1>11
  <1>14. QED
    BY <1>12, <1>13

\* Everything in force earns 650, and 150 more with the PDF; one field in force stays below 600.
LEMMA ScoreBounds ==
    ASSUME NEW r, entry[r].shape \in ShapeRows
    PROVE  /\ QualityScore(r) \in Nat
           /\ InForce(r) = CoreFields => QualityScore(r) >= 650
           /\ InForce(r) = CoreFields /\ entry[r].paper \in available => QualityScore(r) >= 800
           /\ (\A f, g \in InForce(r) : f = g) => QualityScore(r) <= 550
  <1>1. PICK n \in 0 .. 100, m \in 0 .. 100 :
              QualityScore(r) = (IF "go_number" \in InForce(r) THEN 200 ELSE 0) + (IF "go_date" \in InForce(r) THEN 150 ELSE 0)
                                + (IF "department" \in InForce(r) THEN 150 ELSE 0) + (IF "subject" \in InForce(r) THEN 150 ELSE 0)
                                + (IF entry[r].paper \in available THEN 150 ELSE 0) + n + m
    BY ScoreParts
  <1>2. QualityScore(r) \in Nat
    BY <1>1
  <1>3. ASSUME InForce(r) = CoreFields
        PROVE  QualityScore(r) >= 650 /\ (entry[r].paper \in available => QualityScore(r) >= 800)
    <2>1. "go_number" \in InForce(r) /\ "go_date" \in InForce(r) /\ "department" \in InForce(r) /\ "subject" \in InForce(r)
      BY <1>3 DEF CoreFields
    <2>2. QED
      BY <1>1, <2>1
  <1>4. ASSUME \A f, g \in InForce(r) : f = g
        PROVE  QualityScore(r) <= 550
    <2>1. /\ ~ ("go_number" \in InForce(r) /\ "go_date" \in InForce(r))
          /\ ~ ("go_number" \in InForce(r) /\ "department" \in InForce(r))
          /\ ~ ("go_number" \in InForce(r) /\ "subject" \in InForce(r))
          /\ ~ ("go_date" \in InForce(r) /\ "department" \in InForce(r))
          /\ ~ ("go_date" \in InForce(r) /\ "subject" \in InForce(r))
          /\ ~ ("department" \in InForce(r) /\ "subject" \in InForce(r))
      BY <1>4
    <2>2. QED
      BY <1>1, <2>1
  <1>5. QED
    BY <1>2, <1>3, <1>4

\* The label of a record and the page it is listed on follow from the rows in force that the gate has read.
THEOREM LabelsStayEarned == DeskSpec => []LabelsEarned
  <1>1. DeskInv => LabelsEarned
    <2>1. SUFFICES ASSUME DeskInv, NEW r \in Entries, Exists(r)
                   PROVE  LabelEarned(r)
      BY DEF LabelsEarned
    <2>2. EntryTable /\ FieldTable /\ Bound
      BY <2>1 DEF DeskInv, DeskTables
    <2>3. entry[r].shape \in ShapeRows
      BY <2>1, <2>2, DeskAssumption DEF EntryTable, Exists, Made
    <2>4. PICK score : score = QualityScore(r)
      OBVIOUS
    <2>5. PICK present : present = InForce(r)
      OBVIOUS
    <2>6. /\ score \in Nat /\ present \subseteq CoreFields
          /\ present = CoreFields => score >= 650
          /\ present = CoreFields /\ entry[r].paper \in available => score >= 800
          /\ (\A f, g \in present : f = g) => score <= 550
      BY <2>3, <2>4, <2>5, ScoreBounds DEF InForce
    <2>7. Successful(r) <=> present = CoreFields
      BY <2>5, SuccessfulNames
    <2>8. ASSUME entry[r].status = "approved", ~ entry[r].gap, r \notin stripped
          PROVE  Successful(r) /\ ConfidenceLabel(score) # "Review Recommended"
      <3>1. Sound(r)
        BY <2>1, <2>2, <2>8 DEF Bound
      <3>2. present = CoreFields
        BY <2>2, <2>5, <2>8, <3>1, SoundIsComplete
      <3>3. score >= 600
        BY <2>6, <3>2
      <3>4. QED
        BY <2>7, <3>2, <3>3 DEF ConfidenceLabel
    <2>9. ASSUME Segment(r, present) = "critical_extraction_failure"
          PROVE  /\ ~ Successful(r) /\ ConfidenceLabel(score) = "Review Recommended"
                 /\ QualityCategory(score) \in {"Poor", "Needs Review"}
      <3>1. Cardinality(CoreFields \ present) >= 3
        BY <2>9 DEF Segment, CriticalMissingThreshold
      <3>2. \A f, g \in present : f = g
        BY <2>6, <3>1, CriticalHasOne
      <3>3. present # CoreFields
        BY <3>2 DEF CoreFields
      <3>4. score <= 550 /\ score \in Nat
        BY <2>6, <3>2
      <3>5. ~ (score >= 850) /\ ~ (score >= 600) /\ ~ (score >= 900) /\ ~ (score >= 750)
        BY <3>4
      <3>6. QED
        BY <2>7, <3>3, <3>5 DEF ConfidenceLabel, QualityCategory
    <2>10. ASSUME Segment(r, present) = "ready_for_approval", entry[r].paper \in available
           PROVE  r \notin MissingMetadata /\ QualityCategory(score) \in {"Good", "Excellent"}
      <3>1. present = CoreFields
        BY <2>10, ReadySegment
      <3>2. score >= 750
        BY <2>6, <2>10, <3>1
      <3>3. r \notin MissingMetadata
        BY <2>5, <2>10, <3>1 DEF MissingMetadata
      <3>4. QED
        BY <3>2, <3>3 DEF QualityCategory
    <2>11. QED
      BY <2>4, <2>5, <2>8, <2>9, <2>10 DEF LabelEarned
  <1>2. QED
    BY <1>1, DeskInvariant, PTL

LEMMA QuotientReaches ==
    ASSUME NEW n \in Nat, NEW k \in Nat, k > 0
    PROVE  (n * 100) \div k \in Nat /\ ((n * 100) \div k >= 100 <=> n >= k)
  <1>1. PICK q : q = (n * 100) \div k
    OBVIOUS
  <1>2. n * 100 \in Nat
    OBVIOUS
  <1>3. q \in Nat /\ q * k <= n * 100 /\ n * 100 < (q + 1) * k
    BY <1>1, <1>2
  <1>4. ASSUME q >= 100
        PROVE  n >= k
    <2>1. q * k >= 100 * k
      BY <1>3, <1>4
    <2>2. 100 * k <= n * 100
      BY <1>3, <2>1
    <2>3. QED
      BY <2>2
  <1>5. ASSUME n >= k, ~ (q >= 100)
        PROVE  FALSE
    <2>1. q + 1 <= 100 /\ q + 1 \in Nat
      BY <1>3, <1>5
    <2>2. (q + 1) * k <= 100 * k
      BY <2>1
    <2>3. n * 100 >= 100 * k
      BY <1>5
    <2>4. (q + 1) * k \in Int /\ n * 100 \in Int /\ 100 * k \in Int
      BY <1>3
    <2>5. QED
      BY <1>3, <2>2, <2>3, <2>4
  <1>6. QED
    BY <1>1, <1>3, <1>4, <1>5

LEMMA MinReaches ==
    ASSUME NEW n \in Nat
    PROVE  Min({n, 100}) = 100 <=> n >= 100
  <1>1. CASE n >= 100
    <2>1. 100 \in {n, 100} /\ \A y \in {n, 100} : 100 <= y
      BY <1>1
    <2>2. \A x \in {n, 100} : (\A y \in {n, 100} : x <= y) => x = 100
      BY <1>1
    <2>3. QED
      BY <1>1, <2>1, <2>2 DEF Min
  <1>2. CASE ~ (n >= 100)
    <2>1. n \in {n, 100} /\ \A y \in {n, 100} : n <= y
      BY <1>2
    <2>2. \A x \in {n, 100} : (\A y \in {n, 100} : x <= y) => x # 100
      BY <1>2
    <2>3. QED
      BY <1>2, <2>1, <2>2 DEF Min
  <1>3. QED
    BY <1>1, <1>2

\* 100 percent is shown when the backlog is down to the target, and not before.
LEMMA ProgressReaches ==
    ASSUME NEW start \in Nat, NEW target \in Nat, NEW current \in Nat, target < start,
           NEW c, c.start = start, c.target = target
    PROVE  Progress(c, current) = 100 <=> current <= target
  <1>1. PICK reduced : reduced = IF current < start THEN start - current ELSE 0
    OBVIOUS
  <1>2. PICK k : k = start - target
    OBVIOUS
  <1>3. reduced \in Nat /\ k \in Nat /\ k > 0 /\ (reduced >= k <=> current <= target)
    BY <1>1, <1>2
  <1>4. PICK n : n = (reduced * 100) \div k
    OBVIOUS
  <1>5. n \in Nat /\ (n >= 100 <=> reduced >= k)
    BY <1>3, <1>4, QuotientReaches
  <1>6. Progress(c, current) = Min({n, 100})
    BY <1>1, <1>2, <1>4 DEF Progress
  <1>7. QED
    BY <1>3, <1>5, <1>6, MinReaches

Campaigns == [start : Nat, target : Nat, ended : BOOLEAN]
CampaignInv == DeskInv /\ campaign \in Seq(Campaigns)

LEMMA CampaignInitInv == DeskInit => CampaignInv
  BY DeskInitInv DEF DeskInit, CampaignInv

LEMMA CampaignUnchanged ==
    ASSUME DeskNext, ~ \E p \in Reviewers : InsertCampaign(p) \/ \E c \in DOMAIN campaign : EndCampaign(p, c)
    PROVE  UNCHANGED campaign
  <1>1. ASSUME NEW p \in Reviewers, Batch(p)
        PROVE  UNCHANGED campaign
    BY <1>1 DEF Batch, ListQueue, ListFields, Submit, Decide, RequireRecord, ReadFields, WriteStatus, ParseFails, InsertFields,
                ShowCounts, InsertEntry
  <1>2. ASSUME NEW p \in Reviewers, Edit(p)
        PROVE  UNCHANGED campaign
    BY <1>2 DEF Edit, CorrectField, Escalate, ReadCurrent, InsertRow, Supersede, InsertEscalation, WriteResolved,
                ResolveEscalation
  <1>3. ASSUME NEW p \in Reviewers, Manage(p), ~ InsertCampaign(p), ~ \E c \in DOMAIN campaign : EndCampaign(p, c)
        PROVE  UNCHANGED campaign
    BY <1>3 DEF Manage, StartCampaign, CountBacklog, CleanUp, DropFields, DropEntry, CleanedUp, DropEscalations
  <1>4. QED
    BY <1>1, <1>2, <1>3 DEF DeskNext, Interrupted, PdfLost, PdfStored

LEMMA CampaignStep == CampaignInv /\ [DeskNext]_deskVars => CampaignInv'
  <1>1. SUFFICES ASSUME CampaignInv, [DeskNext]_deskVars
                 PROVE  campaign' \in Seq(Campaigns)
    BY DeskInvStep DEF CampaignInv
  <1>2. campaign \in Seq(Campaigns) /\ DeskInv
    BY <1>1 DEF CampaignInv
  <1>3. ASSUME NEW p \in Reviewers, InsertCampaign(p)
        PROVE  campaign' \in Seq(Campaigns)
    <2>1. PICK x : x = [start |-> desk[p].at, target |-> desk[p].row, ended |-> FALSE]
      OBVIOUS
    <2>2. desk[p].at \in Nat /\ desk[p].row \in Nat
      BY <1>2, TaskHolds DEF Tasks
    <2>3. x \in Campaigns /\ campaign' = Append(campaign, x)
      BY <1>3, <2>1, <2>2 DEF InsertCampaign, Campaigns
    <2>4. QED
      BY <1>2, <2>3
  <1>4. ASSUME NEW p \in Reviewers, NEW c \in DOMAIN campaign, EndCampaign(p, c)
        PROVE  campaign' \in Seq(Campaigns)
    <2>1. PICK x : x = [campaign[c] EXCEPT !.ended = TRUE]
      OBVIOUS
    <2>2. campaign[c] \in Campaigns
      BY <1>2
    <2>3. x \in Campaigns
      BY <2>1, <2>2 DEF Campaigns
    <2>4. campaign' = [campaign EXCEPT ![c] = x]
      BY <1>4, <2>1 DEF EndCampaign
    <2>5. QED
      BY <1>2, <2>3, <2>4, ExceptSeq
  <1>5. CASE ~ \E p \in Reviewers : InsertCampaign(p) \/ \E c \in DOMAIN campaign : EndCampaign(p, c)
    BY <1>1, <1>2, <1>5, CampaignUnchanged DEF deskVars
  <1>6. QED
    BY <1>3, <1>4, <1>5

\* The dashboard shows a campaign at 100 percent exactly while the backlog is down to its target.
THEOREM ProgressIsShown == DeskSpec => []ProgressShown
  <1>1. CampaignInv => ProgressShown
    <2>1. SUFFICES ASSUME CampaignInv, Running # {}, campaign[ActiveCampaign].target < campaign[ActiveCampaign].start
                   PROVE  Progress(campaign[ActiveCampaign], Cardinality(Pending)) = 100
                              <=> Cardinality(Pending) <= campaign[ActiveCampaign].target
      BY DEF ProgressShown
    <2>2. campaign \in Seq(Campaigns)
      BY <2>1 DEF CampaignInv
    <2>3. PICK S : S = Running
      OBVIOUS
    <2>4. S \subseteq 1 .. Len(campaign) /\ S # {} /\ Len(campaign) \in Nat
      BY <2>1, <2>2, <2>3 DEF Running
    <2>5. \E c \in S : \A d \in S : d <= c
      BY <2>4, LargestMember
    <2>6. ActiveCampaign \in S
      BY <2>3, <2>5 DEF ActiveCampaign
    <2>7. PICK c : c = campaign[ActiveCampaign]
      OBVIOUS
    <2>8. c \in Campaigns
      BY <2>2, <2>4, <2>6, <2>7
    <2>9. Cardinality(Pending) \in Nat
      <3>1. IsFiniteSet(Entries)
        BY EntriesFinite
      <3>2. Pending \subseteq Entries
        BY DEF Pending
      <3>3. QED
        BY <3>1, <3>2, FS_Subset, FS_CardinalityType
    <2>10. QED
      BY <2>1, <2>7, <2>8, <2>9, ProgressReaches DEF Campaigns
  <1>2. CampaignInv /\ [DeskNext]_deskVars => CampaignInv'
    BY CampaignStep
  <1>3. QED
    BY <1>1, <1>2, CampaignInitInv, PTL DEF DeskSpec

-----------------------------------------------------------------------------
(* Two ways of counting: sums are sets of pairs, and there is a bijection.   *)

LEMMA PendingFinite == IsFiniteSet(Entries) /\ IsFiniteSet(Pending) /\ Pending \subseteq Entries
  <1>1. IsFiniteSet(Entries)
    BY EntriesFinite
  <1>2. Pending \subseteq Entries
    BY DEF Pending
  <1>3. QED
    BY <1>1, <1>2, FS_Subset

\* The duplicates of one document can be numbered from 1 to the number of its pending records, less one.
LEMMA DuplicatesOf ==
    ASSUME NEW d, PendingOf(d) # {}
    PROVE  \E g : /\ g \in [{r \in PendingOf(d) : r # Newest(PendingOf(d))} -> {n \in Entries : n < Cardinality(PendingOf(d))}]
                  /\ \A a, b \in DOMAIN g : g[a] = g[b] => a = b
                  /\ \A n \in Entries : n < Cardinality(PendingOf(d)) => \E r \in DOMAIN g : g[r] = n
  <1>1. PICK P : P = PendingOf(d)
    OBVIOUS
  <1>2. P # {} /\ P \subseteq Pending /\ P \subseteq Entries
    BY <1>1, PendingFinite DEF PendingOf
  <1>3. PICK k : k = Cardinality(P)
    OBVIOUS
  <1>4. IsFiniteSet(P) /\ k \in Nat /\ k <= Cardinality(Entries)
    BY <1>2, <1>3, PendingFinite, FS_Subset, FS_CardinalityType
  <1>5. Cardinality(Entries) = MaxEntries /\ MaxEntries \in Nat
    <2>1. MaxEntries \in Nat /\ MaxEntries \in Int /\ 1 \in Int
      BY DeskAssumption
    <2>2. Cardinality(1 .. MaxEntries) = IF 1 > MaxEntries THEN 0 ELSE MaxEntries - 1 + 1
      BY <2>1, FS_Interval
    <2>3. QED
      BY <2>1, <2>2 DEF Entries
  <1>6. k # 0
    BY <1>2, <1>3, <1>4, FS_EmptySet
  <1>7. Newest(P) \in P
    <2>1. P \subseteq 1 .. MaxEntries
      BY <1>2 DEF Entries
    <2>2. \E r \in P : \A q \in P : q <= r
      BY <1>2, <1>5, <2>1, LargestMember
    <2>3. QED
      BY <2>2 DEF Newest
  <1>8. PICK D : D = P \ {Newest(P)}
    OBVIOUS
  <1>9. IsFiniteSet(D) /\ Cardinality(D) = k - 1
    BY <1>3, <1>4, <1>7, <1>8, FS_RemoveElement
  <1>10. ExistsBijection(D, 1 .. k - 1)
    <2>1. IsFiniteSet(1 .. k - 1) /\ Cardinality(1 .. k - 1) = k - 1
      BY <1>4, <1>6, FS_Interval
    <2>2. QED
      BY <1>9, <2>1, FS_SameCardinalityBij
  <1>11. PICK g : g \in Bijection(D, 1 .. k - 1)
    BY <1>10 DEF ExistsBijection
  <1>12. /\ g \in [D -> 1 .. k - 1]
         /\ \A a, b \in D : g[a] = g[b] => a = b
         /\ \A n \in 1 .. k - 1 : \E r \in D : g[r] = n
    BY <1>11 DEF Bijection, Injection, Surjection, IsInjective
  <1>13. {n \in Entries : n < k} = 1 .. k - 1
    BY <1>4, <1>5, <1>6 DEF Entries
  <1>14. D = {r \in P : r # Newest(P)}
    BY <1>8
  <1>15. \A n \in Entries : n < k => \E r \in D : g[r] = n
    BY <1>12, <1>13
  <1>16. DOMAIN g = D
    BY <1>12
  <1>17. /\ g \in [{r \in P : r # Newest(P)} -> {n \in Entries : n < Cardinality(P)}]
         /\ \A a, b \in DOMAIN g : g[a] = g[b] => a = b
         /\ \A n \in Entries : n < Cardinality(P) => \E r \in DOMAIN g : g[r] = n
    BY <1>3, <1>12, <1>13, <1>14, <1>15, <1>16
  <1>18. QED
    BY <1>1, <1>17

Numbered(d, g) ==
    /\ g \in [{r \in PendingOf(d) : r # Newest(PendingOf(d))} -> {n \in Entries : n < Cardinality(PendingOf(d))}]
    /\ \A a, b \in DOMAIN g : g[a] = g[b] => a = b
    /\ \A n \in Entries : n < Cardinality(PendingOf(d)) => \E r \in DOMAIN g : g[r] = n

\* What a cleanup would remove and what the funnel adds up are as many.
LEMMA DuplicatesAgree == DeskInv => FunnelDuplicates = Cardinality(Duplicates)
  <1>1. SUFFICES ASSUME DeskInv
                 PROVE  FunnelDuplicates = Cardinality(Duplicates)
    OBVIOUS
  <1>2. PICK T : T = {x \in Papers \X Entries : x[2] < Cardinality(PendingOf(x[1]))}
    OBVIOUS
  <1>3. PICK G : G = [d \in Papers |-> CHOOSE g : Numbered(d, g)]
    OBVIOUS
  <1>4. ASSUME NEW d \in Papers, PendingOf(d) # {}
        PROVE  Numbered(d, G[d])
    <2>1. \E g : Numbered(d, g)
      BY <1>4, DuplicatesOf DEF Numbered
    <2>2. QED
      BY <1>3, <2>1
  <1>5. ASSUME NEW r \in Duplicates
        PROVE  /\ r \in Pending /\ r \in Entries /\ entry[r].paper \in Papers
               /\ PendingOf(entry[r].paper) # {} /\ r \in DOMAIN G[entry[r].paper]
               /\ G[entry[r].paper][r] \in Entries /\ G[entry[r].paper][r] < Cardinality(PendingOf(entry[r].paper))
    <2>1. r \in Pending /\ r \in Entries /\ r \in PendingOf(entry[r].paper) /\ r # Newest(PendingOf(entry[r].paper))
      BY PendingFinite DEF Duplicates, PendingOf
    <2>2. Exists(r)
      BY <2>1 DEF Pending
    <2>3. entry[r].paper \in Papers
      BY <1>1, <2>1, <2>2 DEF DeskInv, DeskTables, EntryTable, Made, Exists
    <2>4. Numbered(entry[r].paper, G[entry[r].paper])
      BY <1>4, <2>1, <2>3
    <2>5. QED
      BY <2>1, <2>3, <2>4 DEF Numbered
  <1>6. PICK f : f = [r \in Duplicates |-> <<entry[r].paper, G[entry[r].paper][r]>>]
    OBVIOUS
  <1>7. f \in [Duplicates -> T]
    BY <1>2, <1>5, <1>6
  <1>8. ASSUME NEW a \in Duplicates, NEW b \in Duplicates, f[a] = f[b]
        PROVE  a = b
    <2>1. entry[a].paper = entry[b].paper /\ G[entry[a].paper][a] = G[entry[a].paper][b]
      BY <1>6, <1>8
    <2>2. Numbered(entry[a].paper, G[entry[a].paper]) /\ a \in DOMAIN G[entry[a].paper] /\ b \in DOMAIN G[entry[a].paper]
      BY <1>4, <1>5, <2>1
    <2>3. QED
      BY <2>1, <2>2 DEF Numbered
  <1>9. ASSUME NEW t \in T
        PROVE  \E r \in Duplicates : f[r] = t
    <2>1. t[1] \in Papers /\ t[2] \in Entries /\ t[2] < Cardinality(PendingOf(t[1])) /\ t = <<t[1], t[2]>>
      BY <1>2
    <2>2. PendingOf(t[1]) # {}
      BY <2>1, FS_EmptySet DEF Entries
    <2>3. PICK r \in DOMAIN G[t[1]] : G[t[1]][r] = t[2]
      BY <1>4, <2>1, <2>2 DEF Numbered
    <2>4. r \in PendingOf(t[1]) /\ r # Newest(PendingOf(t[1]))
      <3>1. DOMAIN G[t[1]] = {q \in PendingOf(t[1]) : q # Newest(PendingOf(t[1]))}
        BY <1>4, <2>1, <2>2 DEF Numbered
      <3>2. QED
        BY <2>3, <3>1
    <2>5. entry[r].paper = t[1] /\ r \in Duplicates
      BY <2>4 DEF PendingOf, Duplicates
    <2>6. QED
      BY <1>6, <2>1, <2>3, <2>5
  <1>10. IsFiniteSet(Duplicates)
    BY PendingFinite, FS_Subset DEF Duplicates
  <1>11. Cardinality(T) = Cardinality(Duplicates)
    BY <1>7, <1>8, <1>9, <1>10, CountedOnce
  <1>12. QED
    BY <1>2, <1>11 DEF FunnelDuplicates

\* The records that block a department of T, and the numbers of the table T.
LEMMA TableCounts ==
    ASSUME NEW T
    PROVE  IsFiniteSet(NotReady) /\ NeedAttention(T) = Cardinality({r \in NotReady : Department(r) \in T})
  <1>0. PICK S : S = {r \in NotReady : Department(r) \in T}
    OBVIOUS
  <1>1. S \subseteq Pending /\ NotReady \subseteq Pending /\ Pending \subseteq Entries
    BY <1>0 DEF NotReady, Pending
  <1>2. PICK X : X = {x \in T \X Entries : x[2] \in Blockers(x[1])}
    OBVIOUS
  <1>3. PICK f : f = [r \in S |-> <<Department(r), r>>]
    OBVIOUS
  <1>4. f \in [S -> X]
    BY <1>0, <1>1, <1>2, <1>3 DEF Blockers
  <1>5. \A a, b \in S : f[a] = f[b] => a = b
    BY <1>3
  <1>6. ASSUME NEW x \in X PROVE \E r \in S : f[r] = x
    <2>1. x = <<x[1], x[2]>> /\ x[1] \in T /\ x[2] \in Blockers(x[1])
      BY <1>2
    <2>2. x[2] \in S /\ Department(x[2]) = x[1]
      BY <1>0, <2>1 DEF Blockers
    <2>3. QED
      BY <1>3, <2>1, <2>2
  <1>7. IsFiniteSet(S) /\ IsFiniteSet(NotReady)
    BY <1>1, PendingFinite, FS_Subset
  <1>8. Cardinality(X) = Cardinality(S)
    BY <1>4, <1>5, <1>6, <1>7, CountedOnce
  <1>9. QED
    BY <1>0, <1>2, <1>7, <1>8 DEF NeedAttention

LEMMA NotReadyCounted ==
    Cardinality(NotReady) = Cardinality(Pending) - QueueSize("ready_for_approval")
  <1>1. PICK R : R = {r \in Pending : Segment(r, InForce(r)) = "ready_for_approval"}
    OBVIOUS
  <1>2. NotReady = Pending \ R /\ Pending \cap R = R
    BY <1>1 DEF NotReady
  <1>3. Cardinality(NotReady) = Cardinality(Pending) - Cardinality(R)
    BY <1>2, PendingFinite, FS_Difference
  <1>4. QED
    BY <1>1, <1>3 DEF QueueSize, TypedQueues

\* A table accounts for what its departments have, and for everything when it has room for all.
LEMMA TablesStayInStep == DeskAssumption => TablesAgree
  <1>1. SUFFICES ASSUME DeskAssumption, NEW T \in DepartmentTables
                 PROVE  /\ NeedAttention(T) <= Cardinality(NotReady)
                        /\ NeedAttention(T) = Cardinality(NotReady) <=> Cardinality(Blocked) <= TableSize
    BY NotReadyCounted DEF TablesAgree
  <1>2. PICK S : S = {r \in NotReady : Department(r) \in T}
    OBVIOUS
  <1>3. IsFiniteSet(NotReady) /\ NeedAttention(T) = Cardinality(S) /\ S \in SUBSET NotReady
    BY <1>2, TableCounts
  <1>4. Cardinality(S) <= Cardinality(NotReady) /\ (Cardinality(S) = Cardinality(NotReady) <=> S = NotReady)
    BY <1>3, FS_Subset
  <1>5. IsFiniteSet(Blocked)
    <2>1. PICK f : f = [r \in NotReady |-> Department(r)]
      OBVIOUS
    <2>2. f \in Surjection(NotReady, Blocked)
      BY <2>1 DEF Surjection, Blocked
    <2>3. QED
      BY <1>3, <2>2, FS_Surjection
  <1>6. T \in SUBSET Blocked
        /\ Cardinality(T) = IF Cardinality(Blocked) <= TableSize THEN Cardinality(Blocked) ELSE TableSize
    BY DEF DepartmentTables
  <1>7. Cardinality(T) = Cardinality(Blocked) <=> T = Blocked
    BY <1>5, <1>6, FS_Subset
  <1>8. Cardinality(T) = Cardinality(Blocked) <=> Cardinality(Blocked) <= TableSize
    BY <1>1, <1>5, <1>6, FS_CardinalityType DEF DeskAssumption
  <1>9. S = NotReady <=> T = Blocked
    BY <1>2, <1>6 DEF Blocked
  <1>10. QED
    BY <1>3, <1>4, <1>7, <1>8, <1>9

\* Whatever reviewers, reprocessing, cleanups and campaigns interleave, the numbers that separate code computes
\* from the same rows agree: labels, progress, duplicates and, as far as the table reaches, the departments.
THEOREM NumbersStayInStep == DeskSpec => []NumbersAgree
  <1>1. DeskInv => FunnelDuplicates = Cardinality(Duplicates)
    BY DuplicatesAgree
  <1>2. TablesAgree
    BY TablesStayInStep, DeskAssumption
  <1>3. DeskInv /\ LabelsEarned /\ ProgressShown => NumbersAgree
    BY <1>1, <1>2 DEF NumbersAgree
  <1>4. DeskSpec => []DeskInv
    <2>1. DeskInv /\ [DeskNext]_deskVars => DeskInv'
      BY DeskInvStep
    <2>2. QED
      BY <2>1, DeskInitInv, PTL DEF DeskSpec
  <1>5. QED
    BY <1>3, <1>4, LabelsStayEarned, ProgressIsShown, PTL
=============================================================================
