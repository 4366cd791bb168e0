------------------------------ MODULE Sessions ------------------------------
(***************************************************************************)
(* The sessions of one user: refresh tokens in Redis (AuthService,         *)
(* TokenServices), the access tokens AuthGuard admits, and the operations  *)
(* that end sessions: logout, logout of all devices, change and reset of   *)
(* the password (ProfileService) and banning (DashboardUserService).       *)
(* A request issues at most one pair of tokens, so the pair is named by    *)
(* the request that issued it.  An action ends where a handler awaits      *)
(* Redis, the database or a queue.                                         *)
(***************************************************************************)
EXTENDS Naturals

CONSTANTS
  Requests,    \* requests of the user's devices and of administrators
  MaxCrashes,  \* bound on process crashes
  None

ASSUME NoneAssumption == None \notin Requests
ASSUME CrashAssumption == MaxCrashes \in Nat

VARIABLES
  pc, op,      \* where each request is, and what it asks for
  cookie,      \* the refresh token it carries
  bearer,      \* the access token it carries
  root,        \* the login a token descends from, through refreshes
  seen,        \* the password in force when a login was checked
  found,       \* the refresh tokens a request read in order to delete them
  live,        \* refresh tokens Redis holds
  access,      \* each access token: unissued, valid, or expired or blacklisted
  password,    \* the request that set the password last, None at first
  banned, twoFA,  \* columns of the user's row
  raced,       \* logins with a token under way while a sweep deleted
  crashes      \* process crashes so far

account == <<password, banned, twoFA>>
tokens == <<live, access>>
request == <<cookie, bearer, root, seen, found>>
vars == <<pc, op, cookie, bearer, root, seen, found, live, access, password,
          banned, twoFA, raced, crashes>>

Running == {"issuing", "admitted", "scanning", "blacklisting", "writing",
            "listing", "deleting", "mailing", "banning"}
Logouts == {"logout", "logoutAll"}
Sweeps == {"password", "reset"}

TypeOK ==
  /\ pc \in [Requests -> Running \cup {"idle", "done", "cut"}]
  /\ op \in [Requests -> Logouts \cup Sweeps \cup
                         {"none", "login", "refresh", "ban", "unban"}]
  /\ cookie \in [Requests -> Requests \cup {None}]
  /\ bearer \in [Requests -> Requests \cup {None}]
  /\ root \in [Requests -> Requests \cup {None}]
  /\ seen \in [Requests -> Requests \cup {None}]
  /\ found \in [Requests -> SUBSET Requests]
  /\ live \subseteq Requests
  /\ access \in [Requests -> {"none", "valid", "refused"}]
  /\ password \in Requests \cup {None}
  /\ banned \in BOOLEAN /\ twoFA \in BOOLEAN
  /\ raced \subseteq Requests
  /\ crashes \in Nat

Init ==
  /\ pc = [r \in Requests |-> "idle"]
  /\ op = [r \in Requests |-> "none"]
  /\ cookie = [r \in Requests |-> None]
  /\ bearer = [r \in Requests |-> None]
  /\ root = [r \in Requests |-> None]
  /\ seen = [r \in Requests |-> None]
  /\ found = [r \in Requests |-> {}]
  /\ live = {} /\ access = [r \in Requests |-> "none"]
  /\ password = None /\ banned = FALSE /\ twoFA \in BOOLEAN
  /\ raced = {} /\ crashes = 0

Goto(r, label) == pc' = [pc EXCEPT ![r] = label]
Start(r, o, label) ==
  pc[r] = "idle" /\ op' = [op EXCEPT ![r] = o] /\ Goto(r, label)

\* Requests between the reading of the user's keys and their deletion.
Deleting == \E r \in Requests : \/ op[r] \in Sweeps /\ pc[r] = "deleting"
                               \/ pc[r] = "scanning"
Issuing == {r \in Requests : pc[r] = "issuing"}
-----------------------------------------------------------------------------
(* AuthService: loginUser, TwoFAlogin and refreshToken, with               *)
(* TokenServices.generateTokens.                                           *)

\* The row is read, the password compared with it; with a second factor the
\* client is sent to TwoFAlogin.
Login(r) ==
  /\ ~banned
  /\ Start(r, "login", IF twoFA THEN "done" ELSE "issuing")
  /\ IF twoFA THEN UNCHANGED <<root, seen>>
     ELSE /\ root' = [root EXCEPT ![r] = r]
          /\ seen' = [seen EXCEPT ![r] = password]
  /\ UNCHANGED <<cookie, bearer, found, tokens, account, raced, crashes>>

\* The row is read again and the code verified with its secret.  Nothing asks
\* whether the second factor is on, but only the update that turns it on writes a
\* secret: without one there is nothing to decrypt and the request fails.
TwoFALogin(r) ==
  /\ ~banned /\ twoFA
  /\ Start(r, "login", "issuing")
  /\ root' = [root EXCEPT ![r] = r]
  /\ seen' = [seen EXCEPT ![r] = password]
  /\ UNCHANGED <<cookie, bearer, found, tokens, account, raced, crashes>>

\* Mutants: the signature alone is verified; GET instead of GETDEL.
AnySignedToken(t) == TRUE
Stored(t) == t \in live
TokenPeeked(t) == live
TokenTaken(t) == live \ {t}

\* getdel of the cookie's token; the row is not read again.
Refresh(r, t) ==
  /\ root[t] # None /\ pc[t] = "done"
  /\ Start(r, "refresh", IF Stored(t) THEN "issuing" ELSE "done")
  /\ cookie' = [cookie EXCEPT ![r] = t]
  /\ live' = TokenTaken(t)
  /\ IF Stored(t)
     THEN /\ root' = [root EXCEPT ![r] = root[t]]
          /\ raced' = IF Deleting THEN raced \cup {root[t]} ELSE raced
     ELSE UNCHANGED <<root, raced>>
  /\ UNCHANGED <<bearer, seen, found, access, account, crashes>>

\* setex of the new token; both tokens reach the client.
Issue(r) ==
  /\ pc[r] = "issuing"
  /\ live' = live \cup {r}
  /\ access' = [access EXCEPT ![r] = "valid"]
  /\ Goto(r, "done")
  /\ UNCHANGED <<op, request, account, raced, crashes>>
-----------------------------------------------------------------------------
(* ProfileService behind AuthGuard.                                        *)

\* The guard reads the blacklist, then the row.  For a logout any signed
\* refresh token in the cookie will do.
AdmitLogout(r, o, a, t) ==
  /\ access[a] = "valid" /\ root[t] # None /\ pc[t] = "done"
  /\ Start(r, o, "admitted")
  /\ bearer' = [bearer EXCEPT ![r] = a]
  /\ cookie' = [cookie EXCEPT ![r] = t]
  /\ UNCHANGED <<root, seen, found, tokens, account, raced, crashes>>

AdmitPassword(r, a) ==
  /\ access[a] = "valid" /\ Start(r, "password", "admitted")
  /\ UNCHANGED <<request, tokens, account, raced, crashes>>

Logout(r) ==
  /\ pc[r] = "admitted" /\ op[r] = "logout"
  /\ live' = live \ {cookie[r]}
  /\ Goto(r, "blacklisting")
  /\ UNCHANGED <<op, request, access, account, raced, crashes>>

Racing == raced \cup {root[q] : q \in Issuing}

\* SCAN returns every key that is there from its start to its end.
ScanStarts(r) ==
  /\ pc[r] = "admitted" /\ op[r] = "logoutAll"
  /\ found' = [found EXCEPT ![r] = live]
  /\ raced' = Racing
  /\ Goto(r, "scanning")
  /\ UNCHANGED <<op, cookie, bearer, root, seen, tokens, account, crashes>>

\* Mutant: the pattern matches the request's own token alone.
OwnScanned(r) == cookie[r] \notin live
Scanned(r) == found[r] \cap live = {}

ScanDeletes(r, t) ==
  /\ pc[r] = "scanning" /\ t \in live
  /\ live' = live \ {t}
  /\ UNCHANGED <<pc, op, request, access, account, raced, crashes>>

ScanEnds(r) ==
  /\ pc[r] = "scanning" /\ Scanned(r)
  /\ Goto(r, "blacklisting")
  /\ UNCHANGED <<op, request, tokens, account, raced, crashes>>

\* The entry lives for 30 minutes, as long as the token from its issue on.
Blacklist(r) ==
  /\ pc[r] = "blacklisting"
  /\ access' = [access EXCEPT ![bearer[r]] = "refused"]
  /\ Goto(r, "done")
  /\ UNCHANGED <<op, request, live, account, raced, crashes>>

\* updatePassword reads the row and compares the old password.
CheckPassword(r) ==
  /\ pc[r] = "admitted" /\ op[r] = "password"
  /\ Goto(r, "writing") \/ Goto(r, "done")
  /\ UNCHANGED <<op, request, tokens, account, raced, crashes>>

\* resetPasswordConfirm: the code (Accounts) is right or not.
CheckResetCode(r) ==
  /\ Start(r, "reset", "writing") \/ Start(r, "reset", "done")
  /\ UNCHANGED <<request, tokens, account, raced, crashes>>

WritePassword(r) ==
  /\ pc[r] = "writing"
  /\ password' = r
  /\ Goto(r, "listing")
  /\ UNCHANGED <<op, request, tokens, banned, twoFA, raced, crashes>>

\* KEYS refreshToken_<id>:*
ListTokens(r) ==
  /\ pc[r] = "listing"
  /\ found' = [found EXCEPT ![r] = live]
  /\ raced' = IF op[r] \in Sweeps THEN Racing ELSE raced
  /\ Goto(r, "deleting")
  /\ UNCHANGED <<op, cookie, bearer, root, seen, tokens, account, crashes>>

\* Mutant: DEL of the pattern, which deletes nothing.
PatternSwept(r) == live
Swept(r) == live \ found[r]

DeleteTokens(r) ==
  /\ pc[r] = "deleting"
  /\ live' = Swept(r)
  /\ Goto(r, IF op[r] = "ban" THEN "mailing" ELSE "done")
  /\ UNCHANGED <<op, request, access, account, raced, crashes>>
-----------------------------------------------------------------------------
(* DashboardUserService.banUser.                                           *)

\* Only banning deletes keys and sends an email; the row is written last.
Ban(r) ==
  /\ Start(r, "ban", "listing") \/ Start(r, "unban", "banning")
  /\ UNCHANGED <<request, tokens, account, raced, crashes>>

\* The email job is queued, or the call throws and the row is not written.
BanMails(r) ==
  /\ pc[r] = "mailing"
  /\ Goto(r, "banning") \/ Goto(r, "done")
  /\ UNCHANGED <<op, request, tokens, account, raced, crashes>>

BanWrites(r) ==
  /\ pc[r] = "banning"
  /\ banned' = (op[r] = "ban")
  /\ Goto(r, "done")
  /\ UNCHANGED <<op, request, tokens, password, twoFA, raced, crashes>>
-----------------------------------------------------------------------------
\* TTLs: seven days and 30 minutes.
TokenExpires(t) ==
  /\ t \in live /\ live' = live \ {t}
  /\ UNCHANGED <<pc, op, request, access, account, raced, crashes>>

AccessExpires(a) ==
  /\ access[a] = "valid" /\ access' = [access EXCEPT ![a] = "refused"]
  /\ UNCHANGED <<pc, op, request, live, account, raced, crashes>>

\* Handlers die with the process; Redis and the database keep what they have.
Crash ==
  /\ crashes < MaxCrashes /\ crashes' = crashes + 1
  /\ pc' = [r \in Requests |-> IF pc[r] \in Running THEN "cut" ELSE pc[r]]
  /\ UNCHANGED <<op, request, tokens, account, raced>>
-----------------------------------------------------------------------------
Handler(r) ==
  \/ Login(r) \/ TwoFALogin(r) \/ Issue(r)
  \/ Logout(r) \/ ScanStarts(r) \/ ScanEnds(r) \/ Blacklist(r)
  \/ CheckPassword(r) \/ CheckResetCode(r) \/ WritePassword(r)
  \/ ListTokens(r) \/ DeleteTokens(r)
  \/ Ban(r) \/ BanMails(r) \/ BanWrites(r)

Next ==
  \/ \E r \in Requests : Handler(r) \/ TokenExpires(r) \/ AccessExpires(r)
  \/ \E r, t \in Requests : Refresh(r, t) \/ ScanDeletes(r, t) \/ AdmitPassword(r, t)
  \/ \E r, a, t \in Requests, o \in Logouts : AdmitLogout(r, o, a, t)
  \/ Crash

Spec == Init /\ [][Next]_vars

-----------------------------------------------------------------------------
\* Tokens of a login that Redis holds or a handler is about to store.
Holders(s) == {r \in Requests : root[r] = s /\ (r \in live \/ pc[r] = "issuing")}

\* Rotation: however many devices and tabs refresh with the same token at
\* once, a login has one refresh token, in Redis or under way (refreshToken's
\* getdel).
OneTokenPerLogin ==
  \A s, r, q \in Requests : r \in Holders(s) /\ q \in Holders(s) => r = q

\* A session that ended (logout, sweep, expiry, a refresh cut by a crash)
\* never comes back: no later refresh with any of its tokens revives it.
EndedForGood ==
  [][\A s \in Requests : root[s] = s /\ Holders(s) = {} => Holders(s)' = {}]_vars

\* After a change or reset of the password the sessions opened with an older
\* one are gone, as soon as the sweep is through.  The exceptions are those
\* whose next token was under way between its KEYS and its DEL, and a sweep
\* that a crash cut off.
OldSessionsSwept ==
  (\A r \in Requests : op[r] \in Sweeps =>
      pc[r] \notin {"listing", "deleting", "cut"}) =>
    \A t \in live : seen[root[t]] = password \/ root[t] \in raced

\* After a logout of all devices no session it found is left, but for those
\* whose next token was under way meanwhile.
LoggedOutEverywhere ==
  \A r \in Requests : op[r] = "logoutAll" /\ pc[r] \in {"blacklisting", "done"} =>
    \A t \in found[r] : Holders(root[t]) = {} \/ root[t] \in raced
=============================================================================
