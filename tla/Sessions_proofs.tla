-------------------------- MODULE Sessions_proofs ---------------------------
(***************************************************************************)
(* Proofs about Sessions, for any number of requests and crashes: one      *)
(* token per login, sessions that stay ended, and what a sweep of the      *)
(* user's tokens leaves.                                                   *)
(***************************************************************************)
EXTENDS Sessions, TLAPS

Holds(q) == q \in live \/ pc[q] = "issuing"

\* A token belongs to the login it descends from; a request that has not
\* arrived has none.
Lineage ==
  \A q \in Requests :
    /\ pc[q] = "idle" => root[q] = None /\ q \notin live /\ found[q] = {}
    /\ root[q] # None => root[root[q]] = root[q]
    /\ Holds(q) => root[q] # None
    /\ q \in live => pc[q] = "done"
    /\ \A t \in found[q] : pc[t] = "done" /\ root[t] # None

Base == TypeOK /\ Lineage /\ OneTokenPerLogin

\* A token in use is of the current password, or raced, or a sweep has still
\* to read or to delete it.
Awaited(q) ==
  \E r \in Requests : /\ op[r] \in Sweeps
                     /\ \/ pc[r] \in {"listing", "cut"}
                        \/ pc[r] = "deleting" /\ q \in found[r]
Old ==
  /\ \A r \in Requests : pc[r] = "writing" => op[r] \in Sweeps
  /\ \A q \in Requests : Holds(q) =>
       seen[root[q]] = password \/ root[q] \in raced \/ Awaited(q)

\* What a logout of all devices found is the one token of its session until it
\* is deleted, and then nothing is.
Out ==
  \A r \in Requests : op[r] = "logoutAll" =>
    /\ pc[r] \in {"admitted", "scanning", "blacklisting", "done", "cut"}
    /\ \A t \in found[r] :
         /\ pc[r] = "scanning" =>
              Holders(root[t]) \subseteq {t} \/ root[t] \in raced
         /\ pc[r] \in {"blacklisting", "done"} =>
              Holders(root[t]) = {} \/ root[t] \in raced

-----------------------------------------------------------------------------
\* Every variable keeps its type.
LEMMA TypeNext == TypeOK /\ Lineage /\ [Next]_vars => TypeOK'
<1> SUFFICES ASSUME TypeOK, Lineage, [Next]_vars PROVE TypeOK'
    OBVIOUS
<1> USE NoneAssumption, CrashAssumption
    DEF TypeOK, Running, Logouts, Sweeps, account, tokens, request, Goto, Start
<1>1. ASSUME NEW r \in Requests,
             \/ Login(r) \/ TwoFALogin(r) \/ Issue(r) \/ Logout(r)
             \/ ScanStarts(r) \/ ScanEnds(r) \/ Blacklist(r) \/ CheckPassword(r)
      PROVE  TypeOK'
      BY <1>1 DEF Login, TwoFALogin, Issue, Logout, ScanStarts, ScanEnds,
                  Blacklist, CheckPassword, Racing, Issuing, Lineage, Holds
<1>2. ASSUME NEW r \in Requests, WritePassword(r) \/ CheckResetCode(r)
      PROVE  TypeOK'
      BY <1>2 DEF WritePassword, CheckResetCode
<1>3. ASSUME NEW r \in Requests, ListTokens(r) PROVE TypeOK'
  <2>1. Racing \subseteq Requests
        BY DEF Racing, Issuing, Lineage, Holds
  <2> QED BY <1>3, <2>1 DEF ListTokens
<1>4. ASSUME NEW r \in Requests,
             DeleteTokens(r) \/ Ban(r) \/ BanMails(r) \/ BanWrites(r)
      PROVE  TypeOK'
      BY <1>4 DEF DeleteTokens, Swept, Ban, BanMails, BanWrites
<1>5. ASSUME NEW r \in Requests, TokenExpires(r) \/ AccessExpires(r)
      PROVE  TypeOK'
      BY <1>5 DEF TokenExpires, AccessExpires
<1>6. ASSUME NEW r \in Requests, NEW t \in Requests,
             Refresh(r, t) \/ ScanDeletes(r, t) \/ AdmitPassword(r, t)
      PROVE  TypeOK'
      BY <1>6 DEF Refresh, ScanDeletes, AdmitPassword, Stored, TokenTaken
<1>7. ASSUME NEW r \in Requests, NEW a \in Requests, NEW t \in Requests,
             NEW o \in Logouts, AdmitLogout(r, o, a, t)
      PROVE  TypeOK'
      BY <1>7 DEF AdmitLogout
<1>8. CASE Crash
      BY <1>8 DEF Crash
<1>9. CASE UNCHANGED vars
      BY <1>9 DEF vars
<1> QED BY <1>1, <1>2, <1>3, <1>4, <1>5, <1>6, <1>7, <1>8, <1>9 DEF Next, Handler

\* Tokens keep their login, and no second request joins one.
LEMMA BaseNext == Base /\ [Next]_vars => Base'
<1> SUFFICES ASSUME Base, [Next]_vars PROVE Lineage' /\ OneTokenPerLogin'
    BY TypeNext DEF Base
<1> USE NoneAssumption
    DEF Base, TypeOK, Lineage, OneTokenPerLogin, Holders, Holds, Running,
        account, tokens, request, Goto, Start
<1>1. ASSUME NEW r \in Requests, Login(r) \/ TwoFALogin(r) \/ Issue(r)
      PROVE  Lineage' /\ OneTokenPerLogin'
      BY <1>1 DEF Login, TwoFALogin, Issue
<1>2. ASSUME NEW r \in Requests,
             \/ Logout(r) \/ ScanStarts(r) \/ ScanEnds(r) \/ Blacklist(r)
             \/ CheckPassword(r) \/ CheckResetCode(r) \/ WritePassword(r)
      PROVE  Lineage' /\ OneTokenPerLogin'
      BY <1>2 DEF Logout, ScanStarts, ScanEnds, Blacklist, CheckPassword,
                  CheckResetCode, WritePassword
<1>3. ASSUME NEW r \in Requests,
             \/ ListTokens(r) \/ DeleteTokens(r) \/ Ban(r) \/ BanMails(r)
             \/ BanWrites(r) \/ TokenExpires(r) \/ AccessExpires(r)
      PROVE  Lineage' /\ OneTokenPerLogin'
      BY <1>3 DEF ListTokens, DeleteTokens, Swept, Ban, BanMails, BanWrites,
                  TokenExpires, AccessExpires
<1>4. ASSUME NEW r \in Requests, NEW t \in Requests, Refresh(r, t)
      PROVE  Lineage' /\ OneTokenPerLogin'
      BY <1>4 DEF Refresh, Stored, TokenTaken
<1>5. ASSUME NEW r \in Requests, NEW t \in Requests,
             ScanDeletes(r, t) \/ AdmitPassword(r, t)
      PROVE  Lineage' /\ OneTokenPerLogin'
      BY <1>5 DEF ScanDeletes, AdmitPassword
<1>6. ASSUME NEW r \in Requests, NEW a \in Requests, NEW t \in Requests,
             NEW o \in Logouts, AdmitLogout(r, o, a, t)
      PROVE  Lineage' /\ OneTokenPerLogin'
      BY <1>6 DEF AdmitLogout
<1>7. CASE Crash
      BY <1>7 DEF Crash
<1>8. CASE UNCHANGED vars
      BY <1>8 DEF vars
<1> QED BY <1>1, <1>2, <1>3, <1>4, <1>5, <1>6, <1>7, <1>8 DEF Next, Handler

\* A login without a token gets none.
LEMMA NoRevival ==
  ASSUME Base, [Next]_vars, NEW s \in Requests, root[s] = s, Holders(s) = {}
  PROVE  Holders(s)' = {}
<1> USE NoneAssumption
    DEF Base, TypeOK, Lineage, Holders, Holds, Running, account, tokens,
        request, Goto, Start
<1>1. ASSUME NEW r \in Requests, Handler(r) PROVE Holders(s)' = {}
  <2>1. CASE Login(r) \/ TwoFALogin(r) \/ Issue(r)
        BY <2>1 DEF Login, TwoFALogin, Issue
  <2>2. CASE \/ Logout(r) \/ ScanStarts(r) \/ ScanEnds(r) \/ Blacklist(r)
             \/ CheckPassword(r) \/ CheckResetCode(r) \/ WritePassword(r)
        BY <2>2 DEF Logout, ScanStarts, ScanEnds, Blacklist, CheckPassword,
                    CheckResetCode, WritePassword
  <2>3. CASE \/ ListTokens(r) \/ DeleteTokens(r) \/ Ban(r) \/ BanMails(r)
             \/ BanWrites(r)
        BY <2>3 DEF ListTokens, DeleteTokens, Swept, Ban, BanMails, BanWrites
  <2> QED BY <1>1, <2>1, <2>2, <2>3 DEF Handler
<1>2. ASSUME NEW r \in Requests, TokenExpires(r) \/ AccessExpires(r)
      PROVE  Holders(s)' = {}
      BY <1>2 DEF TokenExpires, AccessExpires
<1>3. ASSUME NEW r \in Requests, NEW t \in Requests,
             Refresh(r, t) \/ ScanDeletes(r, t) \/ AdmitPassword(r, t)
      PROVE  Holders(s)' = {}
      BY <1>3 DEF Refresh, Stored, TokenTaken, ScanDeletes, AdmitPassword
<1>4. ASSUME NEW r \in Requests, NEW a \in Requests, NEW t \in Requests,
             NEW o \in Logouts, AdmitLogout(r, o, a, t)
      PROVE  Holders(s)' = {}
      BY <1>4 DEF AdmitLogout
<1>5. CASE Crash \/ UNCHANGED vars
      BY <1>5 DEF Crash, vars
<1> QED BY <1>1, <1>2, <1>3, <1>4, <1>5 DEF Next

\* Nothing is in use at first.
LEMMA BaseInit == Init => Base
<1> SUFFICES ASSUME Init PROVE Base
    OBVIOUS
<1>1. TypeOK
      BY CrashAssumption DEF Init, TypeOK
<1>2. Lineage /\ OneTokenPerLogin
      BY DEF Init, Lineage, OneTokenPerLogin, Holders, Holds
<1> QED BY <1>1, <1>2 DEF Base

\* Types, lineage and rotation, under every interleaving and crash.
THEOREM Invariance == Spec => []Base
BY BaseInit, BaseNext, PTL DEF Spec

\* Every variable keeps its type.
THEOREM TypeCorrect == Spec => []TypeOK
<1>1. Base => TypeOK
      BY DEF Base
<1> QED BY <1>1, Invariance, PTL

\* However many requests refresh at once, a login has one token.
THEOREM Rotation == Spec => []OneTokenPerLogin
<1>1. Base => OneTokenPerLogin
      BY DEF Base
<1> QED BY <1>1, Invariance, PTL

\* A session that ended is never revived.
THEOREM NothingRevives == Spec => EndedForGood
<1>1. Base /\ [Next]_vars =>
        [\A s \in Requests : root[s] = s /\ Holders(s) = {} => Holders(s)' = {}]_vars
      BY NoRevival
<1> QED BY <1>1, Invariance, PTL DEF Spec, EndedForGood

-----------------------------------------------------------------------------
(* The sweeps.                                                             *)

\* A step of a request that neither sweeps nor adds a token keeps Old.
LEMMA OldStays ==
  ASSUME Base, Old, NEW r \in Requests,
         \A q \in Requests :
           q # r => pc'[q] = pc[q] /\ op'[q] = op[q] /\ found'[q] = found[q],
         pc[r] \notin {"listing", "cut", "deleting"},
         pc'[r] = "writing" => op'[r] \in Sweeps,
         UNCHANGED <<root, seen, password>>, raced \subseteq raced',
         \A q \in Requests : Holds(q)' => Holds(q)
  PROVE  Old'
<1>1. \A q \in Requests : Awaited(q) => Awaited(q)'
      BY DEF Awaited
<1>2. \A q \in Requests : pc'[q] = "writing" => op'[q] \in Sweeps
      BY DEF Old
<1> QED BY <1>1, <1>2 DEF Old

\* Only a token under way while a sweep reads and deletes escapes it.
LEMMA OldNext == Base /\ Old /\ [Next]_vars => Old'
<1> SUFFICES ASSUME Base, Old, [Next]_vars PROVE Old'
    OBVIOUS
<1> USE NoneAssumption
    DEF Base, TypeOK, Lineage, Holds, Running, account, tokens, request, Goto,
        Start
<1>1. ASSUME NEW r \in Requests, Login(r) \/ TwoFALogin(r) PROVE Old'
  <2>1. \A q \in Requests : root[q] # r
        BY <1>1 DEF Login, TwoFALogin
  <2>2. \A q \in Requests : q # r =>
          /\ Holds(q)' => Holds(q)
          /\ root'[q] = root[q] /\ pc'[q] = pc[q] /\ op'[q] = op[q]
          /\ root[q] # None => seen'[root[q]] = seen[root[q]]
        BY <1>1, <2>1 DEF Login, TwoFALogin
  <2>3. Holds(r)' => seen'[root'[r]] = password'
        BY <1>1 DEF Login, TwoFALogin
  <2>4. /\ pc[r] = "idle" /\ pc'[r] # "writing"
        /\ UNCHANGED <<password, raced, found>>
        BY <1>1 DEF Login, TwoFALogin
  <2>5. \A q \in Requests : Awaited(q) => Awaited(q)'
        BY <2>2, <2>4 DEF Awaited
  <2> QED BY <2>2, <2>3, <2>4, <2>5 DEF Old
<1>2. ASSUME NEW r \in Requests,
             \/ Issue(r) \/ Logout(r) \/ ScanEnds(r) \/ Blacklist(r)
             \/ BanMails(r) \/ BanWrites(r) \/ TokenExpires(r) \/ AccessExpires(r)
      PROVE  Old'
  <2>1. CASE Issue(r) \/ Logout(r) \/ ScanEnds(r)
        BY <2>1, OldStays DEF Issue, Logout, ScanEnds
  <2>2. CASE Blacklist(r) \/ BanMails(r) \/ BanWrites(r)
        BY <2>2, OldStays DEF Blacklist, BanMails, BanWrites
  <2>3. CASE TokenExpires(r) \/ AccessExpires(r)
        BY <2>3 DEF TokenExpires, AccessExpires, Old, Awaited
  <2> QED BY <1>2, <2>1, <2>2, <2>3
<1>3. ASSUME NEW r \in Requests, ScanStarts(r) PROVE Old'
      BY <1>3, OldStays DEF ScanStarts, Racing
<1>4. ASSUME NEW r \in Requests,
             CheckPassword(r) \/ CheckResetCode(r) \/ Ban(r)
      PROVE  Old'
      BY <1>4, OldStays DEF CheckPassword, CheckResetCode, Ban, Sweeps
<1>5. ASSUME NEW r \in Requests, WritePassword(r) PROVE Old'
  <2>1. /\ op[r] \in Sweeps /\ pc'[r] = "listing" /\ op' = op
        /\ \A q \in Requests : q # r => pc'[q] = pc[q]
        BY <1>5 DEF WritePassword, Old
  <2>2. \A q \in Requests : Awaited(q)'
        BY <2>1 DEF Awaited
  <2> QED BY <2>1, <2>2 DEF Old
<1>6. ASSUME NEW r \in Requests, ListTokens(r) PROVE Old'
      BY <1>6 DEF ListTokens, Racing, Issuing, Old, Awaited
<1>7. ASSUME NEW r \in Requests, DeleteTokens(r) PROVE Old'
      BY <1>7 DEF DeleteTokens, Swept, Old, Awaited, Sweeps
<1>8. ASSUME NEW r \in Requests, NEW t \in Requests, Refresh(r, t) PROVE Old'
      BY <1>8 DEF Refresh, Stored, TokenTaken, Deleting, Old, Awaited
<1>9. ASSUME NEW r \in Requests, NEW t \in Requests,
             ScanDeletes(r, t) \/ AdmitPassword(r, t)
      PROVE  Old'
  <2>1. CASE ScanDeletes(r, t)
        BY <2>1, OldStays DEF ScanDeletes
  <2>2. CASE AdmitPassword(r, t)
        BY <2>2, OldStays DEF AdmitPassword
  <2> QED BY <1>9, <2>1, <2>2
<1>10. ASSUME NEW r \in Requests, NEW a \in Requests, NEW t \in Requests,
              NEW o \in Logouts, AdmitLogout(r, o, a, t)
       PROVE  Old'
       BY <1>10, OldStays DEF AdmitLogout
<1>11. CASE Crash
       BY <1>11 DEF Crash, Old, Awaited
<1>12. CASE UNCHANGED vars
       BY <1>12 DEF vars, Old, Awaited
<1> QED BY <1>1, <1>2, <1>3, <1>4, <1>5, <1>6, <1>7, <1>8, <1>9, <1>10, <1>11,
           <1>12 DEF Next, Handler

\* After every change or reset of the password that is through, older sessions
\* are gone or raced it.
THEOREM PasswordChangeSweeps == Spec => []OldSessionsSwept
<1>1. Init => Old
      BY DEF Init, Old, Awaited, Holds
<1>2. Base /\ Old => OldSessionsSwept
      BY DEF Base, TypeOK, Lineage, Old, Awaited, Holds, OldSessionsSwept
<1> QED BY <1>1, <1>2, OldNext, Invariance, PTL DEF Spec

\* A session found by a logout of all devices keeps no other token.
LEMMA OutNext == Base /\ Out /\ [Next]_vars => Out'
<1> SUFFICES ASSUME Base, Out, [Next]_vars PROVE Out'
    OBVIOUS
<1>1. \A s \in Requests : root[s] = s /\ Holders(s) = {} => Holders(s)' = {}
      BY NoRevival
<1> USE NoneAssumption
    DEF Base, TypeOK, Lineage, Holds, Holders, Running, account, tokens,
        request, Goto, Start
<1>2. ASSUME NEW r \in Requests, Login(r) \/ TwoFALogin(r) PROVE Out'
      BY <1>1, <1>2 DEF Login, TwoFALogin, Out
<1>3. ASSUME NEW r \in Requests, ScanStarts(r) PROVE Out'
      BY <1>1, <1>3 DEF ScanStarts, Racing, OneTokenPerLogin, Out
<1>4. ASSUME NEW r \in Requests, ScanEnds(r) PROVE Out'
      BY <1>1, <1>4 DEF ScanEnds, Scanned, Out
<1>5. ASSUME NEW r \in Requests,
             \/ Issue(r) \/ Logout(r) \/ Blacklist(r) \/ BanMails(r)
             \/ BanWrites(r) \/ TokenExpires(r) \/ AccessExpires(r)
      PROVE  Out'
      BY <1>1, <1>5 DEF Issue, Logout, Blacklist, BanMails, BanWrites,
         TokenExpires, AccessExpires, Out
<1>6. ASSUME NEW r \in Requests,
             CheckPassword(r) \/ CheckResetCode(r) \/ Ban(r) \/ WritePassword(r)
      PROVE  Out'
      BY <1>1, <1>6 DEF CheckPassword, CheckResetCode, Ban, WritePassword, Out
<1>7. ASSUME NEW r \in Requests, ListTokens(r) \/ DeleteTokens(r) PROVE Out'
      BY <1>1, <1>7 DEF ListTokens, Racing, DeleteTokens, Swept, Out
<1>8. ASSUME NEW r \in Requests, NEW t \in Requests, Refresh(r, t) PROVE Out'
      BY <1>1, <1>8 DEF Refresh, Stored, TokenTaken, Deleting, Out
<1>9. ASSUME NEW r \in Requests, NEW t \in Requests,
             ScanDeletes(r, t) \/ AdmitPassword(r, t)
      PROVE  Out'
      BY <1>1, <1>9 DEF ScanDeletes, AdmitPassword, Out
<1>10. ASSUME NEW r \in Requests, NEW a \in Requests, NEW t \in Requests,
              NEW o \in Logouts, AdmitLogout(r, o, a, t)
       PROVE  Out'
       BY <1>1, <1>10 DEF AdmitLogout, Out
<1>11. CASE Crash \/ UNCHANGED vars
       BY <1>1, <1>11 DEF Crash, vars, Out
<1> QED BY <1>2, <1>3, <1>4, <1>5, <1>6, <1>7, <1>8, <1>9, <1>10, <1>11
        DEF Next, Handler

\* A logout of all devices leaves no session it found but those that raced it.
THEOREM EveryDeviceOut == Spec => []LoggedOutEverywhere
<1>1. Init => Out
      BY DEF Init, Out
<1>2. Base /\ Out => LoggedOutEverywhere
      BY DEF Out, LoggedOutEverywhere
<1> QED BY <1>1, <1>2, OutNext, Invariance, PTL DEF Spec
=============================================================================
