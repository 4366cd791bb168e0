------------------------------ MODULE Accounts ------------------------------
(***************************************************************************)
(* One user's row from sign-up on: the codes mailed to its address and     *)
(* what they confirm (AuthService, ProfileService, EmailWorker), changes   *)
(* of the address, the set-up of the second factor, the profile photo.     *)
(* A secret, a list of backup codes and a photo are named by the request   *)
(* that made them; codes are numbered.  An action ends where a handler or  *)
(* the worker awaits Redis, the database, a queue or another service.      *)
(***************************************************************************)
EXTENDS Naturals

CONSTANTS
  Requests,    \* requests of the user, from any device
  Addresses,   \* email addresses
  MaxCrashes,  \* bound on process crashes
  None

ASSUME NoneAssumption == None \notin Requests \cup Addresses
ASSUME CrashAssumption == MaxCrashes \in Nat

Purposes == {"confirm", "reset"}
Boxes == Addresses \X Purposes

VARIABLES
  pc,          \* where each request is
  box,         \* the address a request names and the purpose of its code
  held,        \* what a request read and uses after an await
  email, confirmed,   \* columns of the row; email is None before sign-up
  twoFA, secret, backup, photo,
  job, code,   \* email job of each request, and the code it made
  issued,      \* codes made so far
  otp,         \* Redis: the code stored for each address and purpose
  inbox,       \* codes that were delivered
  setup,       \* Redis: the secret being set up for each address
  shown,       \* requests whose backup codes the user was shown
  used,        \* pairs of a request that changed the password and its code
  cloud,       \* photos Cloudinary holds
  crashes

row == <<email, confirmed, twoFA, secret, backup, photo>>
mail == <<job, code, issued, otp, inbox>>
history == <<shown, used>>
vars == <<pc, box, held, email, confirmed, twoFA, secret, backup, photo, job,
          code, issued, otp, inbox, setup, shown, used, cloud, crashes>>

Running == {"creating", "mailing", "renameMailing", "checking", "forgetting",
            "confirming", "resetting", "renaming", "verifying", "enabling",
            "clearing", "uploading", "replacing", "linking"}
Things == Requests \cup {None}

TypeOK ==
  /\ pc \in [Requests -> Running \cup {"idle", "done", "cut"}]
  /\ box \in [Requests -> Boxes \cup {None}]
  /\ held \in [Requests -> Things \cup Nat]
  /\ email \in Addresses \cup {None} /\ confirmed \in BOOLEAN
  /\ twoFA \in BOOLEAN /\ secret \in Things /\ backup \in Things
  /\ photo \in Things
  /\ job \in [Requests -> {"none", "queued", "sending", "done"}]
  /\ code \in [Requests -> Nat] /\ issued \in Nat
  /\ otp \in [Boxes -> Nat]   \* 0 when there is none
  /\ inbox \subseteq Nat \ {0}
  /\ setup \in [Addresses -> Things]
  /\ shown \subseteq Requests /\ used \subseteq Requests \X Nat
  /\ cloud \subseteq Requests
  /\ crashes \in Nat

Init ==
  /\ pc = [r \in Requests |-> "idle"]
  /\ box = [r \in Requests |-> None] /\ held = [r \in Requests |-> None]
  /\ email \in Addresses \cup {None} /\ confirmed = FALSE /\ twoFA = FALSE
  /\ secret = None /\ backup = None /\ photo = None
  /\ job = [r \in Requests |-> "none"] /\ code = [r \in Requests |-> 0]
  /\ issued = 0 /\ otp = [b \in Boxes |-> 0]
  /\ inbox = {} /\ setup = [a \in Addresses |-> None]
  /\ shown = {} /\ used = {} /\ cloud = {} /\ crashes = 0

Goto(r, label) == pc' = [pc EXCEPT ![r] = label]
Start(r, b, label) ==
  pc[r] = "idle" /\ box' = [box EXCEPT ![r] = b] /\ Goto(r, label)
Hold(r, x) == held' = [held EXCEPT ![r] = x]
Finish(r) == Goto(r, "done") /\ Hold(r, None)
Address(r) == box[r][1]
-----------------------------------------------------------------------------
(* AuthService.SignUp and resendOTP, ProfileService.updateProfile and      *)
(* resetPasswordReq: they look the address up and queue an email.          *)

\* SignUp finds no row with the address.
SignUp(r, a) ==
  /\ email # a
  /\ Start(r, <<a, "confirm">>, "creating")
  /\ UNCHANGED <<held, row, mail, setup, history, cloud, crashes>>

\* The row is created, unless another request took the address first; a
\* sign-up with another address makes another user.
Create(r) ==
  /\ pc[r] = "creating"
  /\ email' = IF email = None THEN Address(r) ELSE email
  /\ Goto(r, IF email = Address(r) THEN "done" ELSE "mailing")
  /\ UNCHANGED <<box, held, confirmed, twoFA, secret, backup, photo, mail,
                 setup, history, cloud, crashes>>

\* resendOTP for an unconfirmed row; a reset code is sent to any address.
AskForCode(r, b) ==
  /\ b[2] = "confirm" => email = b[1] /\ ~confirmed
  /\ Start(r, b, "mailing")
  /\ UNCHANGED <<held, row, mail, setup, history, cloud, crashes>>

\* updateProfile finds the new address free and queues its email.
Rename(r, a) ==
  /\ email \notin {None, a}
  /\ Start(r, <<a, "confirm">>, "renameMailing")
  /\ UNCHANGED <<held, row, mail, setup, history, cloud, crashes>>

QueueEmail(r) ==
  /\ pc[r] \in {"mailing", "renameMailing"}
  /\ job' = [job EXCEPT ![r] = "queued"]
  /\ Goto(r, IF pc[r] = "renameMailing" THEN "renaming" ELSE "done")
  /\ UNCHANGED <<box, held, row, code, issued, otp, inbox, setup, history, cloud,
                 crashes>>

\* The write is refused when another user has the address by now.
RenameWrites(r) ==
  /\ pc[r] = "renaming"
  /\ \/ email' = Address(r) /\ confirmed' = FALSE
     \/ UNCHANGED <<email, confirmed>>
  /\ Goto(r, "done")
  /\ UNCHANGED <<box, held, twoFA, secret, backup, photo, mail, setup, history,
                 cloud, crashes>>
-----------------------------------------------------------------------------
(* EmailWorker.process: the code is stored before it is sent.              *)

StoreCode(r) ==
  /\ job[r] = "queued"
  /\ job' = [job EXCEPT ![r] = "sending"]
  /\ issued' = issued + 1
  /\ code' = [code EXCEPT ![r] = issued']
  /\ otp' = [otp EXCEPT ![box[r]] = issued']
  /\ UNCHANGED <<pc, box, held, row, inbox, setup, history, cloud, crashes>>

Post(r) ==
  /\ job[r] = "sending" /\ code[r] \notin inbox
  /\ inbox' = inbox \cup {code[r]}
  /\ UNCHANGED <<pc, box, held, row, job, code, issued, otp, setup, history, cloud,
                 crashes>>

\* A failing post is logged and the job completes all the same.
Complete(r) ==
  /\ job[r] = "sending"
  /\ job' = [job EXCEPT ![r] = "done"] /\ code' = [code EXCEPT ![r] = 0]
  /\ UNCHANGED <<pc, box, held, row, issued, otp, inbox, setup, history, cloud,
                 crashes>>

CodeExpires(b) ==
  /\ otp[b] # 0 /\ otp' = [otp EXCEPT ![b] = 0]
  /\ UNCHANGED <<pc, box, held, row, job, code, issued, inbox, setup, history,
                 cloud, crashes>>

\* The user types a delivered code or something else.
Guesses == inbox \cup {0}
-----------------------------------------------------------------------------
(* AuthService.ConfirmEmail and ProfileService.resetPasswordConfirm.       *)

\* The row is found by the address and written by its id.
ConfirmEmail(r, a) ==
  /\ email = a
  /\ Start(r, <<a, "confirm">>, "checking")
  /\ UNCHANGED <<held, row, mail, setup, history, cloud, crashes>>

\* The promise of compare_hash is not awaited, so it is never false: what the
\* user typed does not matter, only that a code is stored.
ConfirmChecks(r) ==
  /\ pc[r] = "checking"
  /\ Goto(r, IF otp[box[r]] # 0 THEN "forgetting" ELSE "done")
  /\ UNCHANGED <<box, held, row, mail, setup, history, cloud, crashes>>

ConfirmForgets(r) ==
  /\ pc[r] = "forgetting"
  /\ otp' = [otp EXCEPT ![box[r]] = 0]
  /\ Goto(r, "confirming")
  /\ UNCHANGED <<box, held, row, job, code, issued, inbox, setup, history, cloud,
                 crashes>>

ConfirmWrites(r) ==
  /\ pc[r] = "confirming"
  /\ confirmed' = TRUE
  /\ Goto(r, "done")
  /\ UNCHANGED <<box, held, email, twoFA, secret, backup, photo, mail, setup,
                 history, cloud, crashes>>

\* Mutant: GET instead of GETDEL.
CodeLeft(b) == otp
CodeTaken(b) == [otp EXCEPT ![b] = 0]

\* getdel, then a comparison that is awaited.
ResetPassword(r, a, guess) ==
  /\ LET b == <<a, "reset">> IN
     /\ otp[b] # 0
     /\ otp' = CodeTaken(b)
     /\ \/ guess = otp[b] /\ Start(r, b, "resetting") /\ Hold(r, guess)
        \/ guess # otp[b] /\ Start(r, None, "done") /\ UNCHANGED held
  /\ UNCHANGED <<row, job, code, issued, inbox, setup, history, cloud, crashes>>

\* The row with that address, if one has it still, gets the new password.
ResetWrites(r) ==
  /\ pc[r] = "resetting"
  /\ used' = IF email = Address(r) THEN used \cup {<<r, held[r]>>} ELSE used
  /\ Finish(r)
  /\ UNCHANGED <<box, row, mail, setup, shown, cloud, crashes>>
-----------------------------------------------------------------------------
(* setup2FA and verifySetup2FA, behind AuthGuard.                          *)

\* The secret replaces one that another device is setting up.
SetUp2FA(r) ==
  /\ email # None
  /\ Start(r, None, "done")
  /\ setup' = [setup EXCEPT ![email] = r]
  /\ UNCHANGED <<held, row, mail, history, cloud, crashes>>

Verify2FA(r) ==
  /\ email # None /\ ~twoFA
  /\ Start(r, <<email, "confirm">>, "verifying")
  /\ UNCHANGED <<held, row, mail, setup, history, cloud, crashes>>

\* The code typed belongs to the stored secret, or the request fails.
VerifyCode(r) ==
  /\ pc[r] = "verifying"
  /\ \/ /\ setup[Address(r)] # None
        /\ Goto(r, "enabling") /\ Hold(r, setup[Address(r)])
     \/ Finish(r)
  /\ UNCHANGED <<box, row, mail, setup, history, cloud, crashes>>

\* Mutant: the update does not look whether another device was first.
EnabledBlindly == TRUE
StillDisabled == ~twoFA

Enable2FA(r) ==
  /\ pc[r] = "enabling"
  /\ IF StillDisabled
     THEN /\ twoFA' = TRUE /\ secret' = held[r] /\ backup' = r
          /\ Goto(r, "clearing") /\ Hold(r, None)
     ELSE Finish(r) /\ UNCHANGED <<twoFA, secret, backup>>
  /\ UNCHANGED <<box, email, confirmed, photo, mail, setup, history,
                 cloud, crashes>>

\* The key is deleted and the backup codes are shown.
Show2FA(r) ==
  /\ pc[r] = "clearing"
  /\ setup' = [setup EXCEPT ![Address(r)] = None]
  /\ shown' = shown \cup {r}
  /\ Goto(r, "done")
  /\ UNCHANGED <<box, held, row, mail, used, cloud, crashes>>

SetUpExpires(a) ==
  /\ setup[a] # None /\ setup' = [setup EXCEPT ![a] = None]
  /\ UNCHANGED <<pc, box, held, row, mail, history, cloud, crashes>>
-----------------------------------------------------------------------------
(* uploadPhoto; the guard's copy of the row names the old photo.           *)

Upload(r) ==
  /\ email # None
  /\ Start(r, None, "uploading")
  /\ Hold(r, photo)
  /\ UNCHANGED <<row, mail, setup, history, cloud, crashes>>

UploadStored(r) ==
  /\ pc[r] = "uploading"
  /\ cloud' = cloud \cup {r}
  /\ Goto(r, IF held[r] = None THEN "linking" ELSE "replacing")
  /\ UNCHANGED <<box, held, row, mail, setup, history, crashes>>

\* Mutant: the photo just uploaded is deleted.
NewPhoto(r) == r
OldPhoto(r) == held[r]

DeleteOldPhoto(r) ==
  /\ pc[r] = "replacing"
  /\ cloud' = cloud \ {OldPhoto(r)}
  /\ Goto(r, "linking")
  /\ UNCHANGED <<box, held, row, mail, setup, history, crashes>>

LinkPhoto(r) ==
  /\ pc[r] = "linking"
  /\ photo' = r
  /\ Finish(r)
  /\ UNCHANGED <<box, email, confirmed, twoFA, secret, backup, mail, setup,
                 history, cloud, crashes>>
-----------------------------------------------------------------------------
\* An awaited call throws: the request is answered with an error and what it did
\* before stays done.
RequestFails(r) ==
  /\ pc[r] \in Running
  /\ Goto(r, "cut")
  /\ UNCHANGED <<box, held, row, mail, setup, history, cloud, crashes>>

\* Handlers die; the worker's job is taken up again from its start.
Crash ==
  /\ crashes < MaxCrashes /\ crashes' = crashes + 1
  /\ pc' = [r \in Requests |-> IF pc[r] \in Running THEN "cut" ELSE pc[r]]
  /\ job' = [r \in Requests |-> IF job[r] = "sending" THEN "queued" ELSE job[r]]
  /\ UNCHANGED <<box, held, row, code, issued, otp, inbox, setup, history, cloud>>

Step(r) ==
  \/ Create(r) \/ QueueEmail(r) \/ RenameWrites(r) \/ StoreCode(r) \/ Post(r)
  \/ Complete(r) \/ ConfirmChecks(r) \/ ConfirmForgets(r)
  \/ ConfirmWrites(r) \/ ResetWrites(r)
  \/ SetUp2FA(r) \/ Verify2FA(r) \/ VerifyCode(r) \/ Enable2FA(r) \/ Show2FA(r)
  \/ Upload(r) \/ UploadStored(r) \/ DeleteOldPhoto(r) \/ LinkPhoto(r)
  \/ RequestFails(r)

Next ==
  \/ \E r \in Requests : Step(r)
  \/ \E r \in Requests, a \in Addresses :
       SignUp(r, a) \/ Rename(r, a) \/ ConfirmEmail(r, a)
  \/ \E r \in Requests, b \in Boxes : AskForCode(r, b)
  \/ \E r \in Requests, a \in Addresses, guess \in Guesses :
       ResetPassword(r, a, guess)
  \/ \E b \in Boxes : CodeExpires(b)
  \/ \E a \in Addresses : SetUpExpires(a)
  \/ Crash

Spec == Init /\ [][Next]_vars

-----------------------------------------------------------------------------
\* The backup codes a user was told to keep are the stored ones, whichever
\* devices verify a set-up at once (verifySetup2FA).
ShownCodesStored == \A r \in shown : twoFA /\ backup = r

\* A mailed code changes the password once, however often it is presented.
CodeResetsOnce == \A u, v \in used : u[2] = v[2] => u = v

\* The photo the row names exists, with any uploads at once, but for one case: the
\* upload that deleted it has still to write the row, or an error or a crash
\* stopped it before it could (uploadPhoto deletes first and writes last).
PhotoExists ==
  photo \notin cloud \cup {None} =>
    \E r \in Requests : pc[r] \in {"linking", "cut"} /\ held[r] = photo
=============================================================================
