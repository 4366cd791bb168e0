--------------------------- MODULE Accounts_proofs ---------------------------
(***************************************************************************)
(* Proofs about Accounts, for any number of requests, addresses and        *)
(* crashes: backup codes, one-time codes and photos under concurrency.     *)
(***************************************************************************)
EXTENDS Accounts, TLAPS

\* A request at work on an address, or with an email job, names a box; one that
\* enables the second factor holds a secret, one that resets a password a code.
Boxed ==
  \A r \in Requests :
    /\ \/ pc[r] \in {"creating", "mailing", "renameMailing", "renaming",
                     "checking", "forgetting", "confirming", "resetting",
                     "verifying", "enabling", "clearing"}
       \/ job[r] # "none"
       => box[r] \in Boxes
    /\ job[r] # "none" => pc[r] # "idle"
    /\ pc[r] = "enabling" => held[r] \in Things
    /\ pc[r] = "resetting" => held[r] \in Nat
    /\ job[r] = "sending" => code[r] # 0

\* The first device to enable the second factor owns the stored codes.
Owned == \A r \in Requests :
  pc[r] = "clearing" \/ r \in shown => twoFA /\ backup = r

\* A code is in one place: stored for one address and purpose, in the hands of
\* one request that resets the password, or used.
Resetting(r) == pc[r] = "resetting"
CodesApart ==
  /\ \A b, d \in Boxes : otp[b] = otp[d] /\ otp[b] # 0 => b = d
  /\ \A b \in Boxes : otp[b] <= issued
  /\ \A r \in Requests : Resetting(r) =>
       /\ held[r] \in Nat \ {0} /\ held[r] <= issued
       /\ \A b \in Boxes : otp[b] # held[r]
       /\ \A q \in Requests : Resetting(q) /\ held[q] = held[r] => q = r
  /\ \A u \in used :
       /\ u[2] \in Nat \ {0} /\ u[2] <= issued
       /\ \A b \in Boxes : otp[b] # u[2]
       /\ \A r \in Requests : Resetting(r) => held[r] # u[2]

\* A photo in the row, or about to be deleted, was linked by a finished upload;
\* an upload on its way to the row has its photo at Cloudinary.
Linked(p) == p = None \/ (p \in Requests /\ pc[p] = "done")
PhotosLinked ==
  /\ Linked(photo)
  /\ \A r \in Requests :
       /\ pc[r] \in {"uploading", "replacing"} => Linked(held[r])
       /\ pc[r] \in {"replacing", "linking"} => r \in cloud

IInv == /\ TypeOK /\ Boxed /\ Owned /\ ShownCodesStored /\ CodesApart
        /\ CodeResetsOnce /\ PhotosLinked /\ PhotoExists

-----------------------------------------------------------------------------
\* The parts of a box.
LEMMA BoxParts ==
  /\ \A a \in Addresses, p \in Purposes : <<a, p>> \in Boxes
  /\ \A b \in Boxes : b[1] \in Addresses /\ b[2] \in Purposes
  /\ "confirm" \in Purposes /\ "reset" \in Purposes
BY DEF Boxes, Purposes

\* The labels of requests at work.
LEMMA Labels ==
  /\ "creating" \in Running /\ "mailing" \in Running
  /\ "renameMailing" \in Running /\ "renaming" \in Running
  /\ "checking" \in Running /\ "forgetting" \in Running
  /\ "confirming" \in Running /\ "resetting" \in Running
  /\ "verifying" \in Running /\ "enabling" \in Running
  /\ "clearing" \in Running /\ "uploading" \in Running
  /\ "replacing" \in Running /\ "linking" \in Running
  /\ "cut" \notin Running /\ "idle" \notin Running
BY DEF Running

\* The invariant holds initially.
LEMMA IInvInit == Init => IInv
<1> SUFFICES ASSUME Init PROVE IInv
    OBVIOUS
<1>1. TypeOK
      BY NoneAssumption, CrashAssumption DEF Init, TypeOK, Things
<1>2. Boxed /\ Owned /\ ShownCodesStored /\ CodesApart /\ CodeResetsOnce
      BY DEF Init, Boxed, Owned, ShownCodesStored, CodesApart, CodeResetsOnce,
             Resetting
<1>3. PhotosLinked /\ PhotoExists
      BY DEF Init, PhotosLinked, Linked, PhotoExists
<1> QED BY <1>1, <1>2, <1>3 DEF IInv

\* Every variable keeps its type.
LEMMA TypeNext ==
  TypeOK /\ Boxed /\ [Next]_vars => TypeOK'
<1> SUFFICES ASSUME TypeOK, Boxed, [Next]_vars
             PROVE  TypeOK'
    OBVIOUS
<1> USE NoneAssumption, CrashAssumption, BoxParts, Labels
    DEF TypeOK, Boxed, Things, Goto, Start, Hold, Finish, Address, row, mail,
        history
<1>1. ASSUME NEW r \in Requests, Create(r) PROVE TypeOK'
      BY <1>1 DEF Create
<1>2. ASSUME NEW r \in Requests, QueueEmail(r) PROVE TypeOK'
      BY <1>2 DEF QueueEmail
<1>3. ASSUME NEW r \in Requests, RenameWrites(r) PROVE TypeOK'
  <2>1. Address(r) \in Addresses
        BY <1>3 DEF RenameWrites
  <2> HIDE DEF Boxed
  <2> QED BY <1>3, <2>1 DEF RenameWrites
<1>4. ASSUME NEW r \in Requests, StoreCode(r) PROVE TypeOK'
      BY <1>4 DEF StoreCode
<1>5. ASSUME NEW r \in Requests, Post(r) PROVE TypeOK'
  <2>1. code[r] \in Nat \ {0}
        BY <1>5 DEF Post
  <2> HIDE DEF Boxed
  <2> QED BY <1>5, <2>1 DEF Post
<1>6. ASSUME NEW r \in Requests, Complete(r) PROVE TypeOK'
      BY <1>6 DEF Complete
<1>7. ASSUME NEW r \in Requests, ConfirmChecks(r) PROVE TypeOK'
      BY <1>7 DEF ConfirmChecks
<1>8. ASSUME NEW r \in Requests, ConfirmForgets(r) PROVE TypeOK'
      BY <1>8 DEF ConfirmForgets
<1>9. ASSUME NEW r \in Requests, ConfirmWrites(r) PROVE TypeOK'
      BY <1>9 DEF ConfirmWrites
<1>10. ASSUME NEW r \in Requests, ResetWrites(r) PROVE TypeOK'
      BY <1>10 DEF ResetWrites
<1>11. ASSUME NEW r \in Requests, SetUp2FA(r) PROVE TypeOK'
      BY <1>11 DEF SetUp2FA
<1>12. ASSUME NEW r \in Requests, Verify2FA(r) PROVE TypeOK'
      BY <1>12 DEF Verify2FA
<1>13. ASSUME NEW r \in Requests, VerifyCode(r) PROVE TypeOK'
      BY <1>13 DEF VerifyCode
<1>14. ASSUME NEW r \in Requests, Enable2FA(r) PROVE TypeOK'
  <2>1. held[r] \in Things
        BY <1>14 DEF Enable2FA
  <2> HIDE DEF Boxed
  <2>2. CASE twoFA
        BY <1>14, <2>2 DEF Enable2FA, StillDisabled
  <2>3. CASE ~twoFA
        BY <1>14, <2>1, <2>3 DEF Enable2FA, StillDisabled
  <2> QED BY <2>2, <2>3
<1>15. ASSUME NEW r \in Requests, Show2FA(r) PROVE TypeOK'
      BY <1>15 DEF Show2FA
<1>16. ASSUME NEW r \in Requests, Upload(r) PROVE TypeOK'
      BY <1>16 DEF Upload
<1>17. ASSUME NEW r \in Requests, UploadStored(r) PROVE TypeOK'
      BY <1>17 DEF UploadStored
<1>18. ASSUME NEW r \in Requests, DeleteOldPhoto(r) PROVE TypeOK'
      BY <1>18 DEF DeleteOldPhoto, OldPhoto
<1>19. ASSUME NEW r \in Requests, LinkPhoto(r) \/ RequestFails(r) PROVE TypeOK'
      BY <1>19 DEF LinkPhoto, RequestFails
<1>20. ASSUME NEW r \in Requests, NEW a \in Addresses, SignUp(r, a)
       PROVE  TypeOK'
      BY <1>20 DEF SignUp
<1>21. ASSUME NEW r \in Requests, NEW a \in Addresses, Rename(r, a)
       PROVE  TypeOK'
      BY <1>21 DEF Rename
<1>22. ASSUME NEW r \in Requests, NEW a \in Addresses, ConfirmEmail(r, a)
       PROVE  TypeOK'
      BY <1>22 DEF ConfirmEmail
<1>23. ASSUME NEW r \in Requests, NEW b \in Boxes, AskForCode(r, b)
       PROVE  TypeOK'
      BY <1>23 DEF AskForCode
<1>24. ASSUME NEW r \in Requests, NEW a \in Addresses, NEW guess \in Guesses,
             ResetPassword(r, a, guess)
       PROVE  TypeOK'
      BY <1>24 DEF ResetPassword, CodeTaken, Guesses
<1>25. ASSUME NEW b \in Boxes, CodeExpires(b) PROVE TypeOK'
      BY <1>25 DEF CodeExpires
<1>26. ASSUME NEW a \in Addresses, SetUpExpires(a) PROVE TypeOK'
      BY <1>26 DEF SetUpExpires
<1>27. CASE Crash
      BY <1>27 DEF Crash, Running
<1>28. CASE UNCHANGED vars
      BY <1>28 DEF vars
<1> QED BY <1>1, <1>2, <1>3, <1>4, <1>5, <1>6, <1>7, <1>8, <1>9, <1>10, <1>11,
           <1>12, <1>13, <1>14, <1>15, <1>16, <1>17, <1>18, <1>19, <1>20,
           <1>21, <1>22, <1>23, <1>24, <1>25, <1>26, <1>27, <1>28 DEF Next,
           Step

\* A request keeps the box it started with, and what it sets up is a secret.
LEMMA BoxedNext ==
  TypeOK /\ Boxed /\ [Next]_vars => Boxed'
<1> SUFFICES ASSUME TypeOK, Boxed, [Next]_vars
             PROVE  Boxed'
    OBVIOUS
<1> USE NoneAssumption, CrashAssumption, BoxParts
    DEF TypeOK, Boxed, Things, Goto, Start, Hold, Finish, Address, row, mail,
        history
<1>1. ASSUME NEW r \in Requests, Create(r) \/ QueueEmail(r) \/ RenameWrites(r)
      PROVE  Boxed'
      BY <1>1 DEF Create, QueueEmail, RenameWrites
<1>2. ASSUME NEW r \in Requests, StoreCode(r) PROVE Boxed'
      BY <1>2 DEF StoreCode
<1>3. ASSUME NEW r \in Requests, Post(r) \/ Complete(r) PROVE Boxed'
      BY <1>3 DEF Post, Complete
<1>4. ASSUME NEW r \in Requests,
             ConfirmChecks(r) \/ ConfirmForgets(r) \/ ConfirmWrites(r)
      PROVE  Boxed'
      BY <1>4 DEF ConfirmChecks, ConfirmForgets, ConfirmWrites
<1>5. ASSUME NEW r \in Requests, ResetWrites(r) PROVE Boxed'
      BY <1>5 DEF ResetWrites
<1>6. ASSUME NEW r \in Requests, SetUp2FA(r) \/ Verify2FA(r) \/ VerifyCode(r)
      PROVE  Boxed'
      BY <1>6 DEF SetUp2FA, Verify2FA, VerifyCode
<1>7. ASSUME NEW r \in Requests, Enable2FA(r) \/ Show2FA(r) PROVE Boxed'
      BY <1>7 DEF Enable2FA, StillDisabled, Show2FA
<1>8. ASSUME NEW r \in Requests, Upload(r) \/ UploadStored(r) PROVE Boxed'
      BY <1>8 DEF Upload, UploadStored
<1>9. ASSUME NEW r \in Requests,
             DeleteOldPhoto(r) \/ LinkPhoto(r) \/ RequestFails(r)
      PROVE  Boxed'
      BY <1>9, Labels DEF DeleteOldPhoto, OldPhoto, LinkPhoto, RequestFails,
         Running
<1>10. ASSUME NEW r \in Requests, NEW a \in Addresses,
             SignUp(r, a) \/ Rename(r, a) \/ ConfirmEmail(r, a)
       PROVE  Boxed'
      BY <1>10 DEF SignUp, Rename, ConfirmEmail
<1>11. ASSUME NEW r \in Requests, NEW b \in Boxes, AskForCode(r, b) PROVE Boxed'
      BY <1>11 DEF AskForCode
<1>12. ASSUME NEW r \in Requests, NEW a \in Addresses, NEW guess \in Guesses,
             ResetPassword(r, a, guess)
       PROVE  Boxed'
      BY <1>12 DEF ResetPassword, CodeTaken, Guesses
<1>13. ASSUME NEW b \in Boxes, CodeExpires(b) PROVE Boxed'
      BY <1>13 DEF CodeExpires
<1>14. ASSUME NEW a \in Addresses, SetUpExpires(a) PROVE Boxed'
      BY <1>14 DEF SetUpExpires
<1>15. CASE Crash
      BY <1>15 DEF Crash, Running
<1>16. CASE UNCHANGED vars
      BY <1>16 DEF vars
<1> QED BY <1>1, <1>2, <1>3, <1>4, <1>5, <1>6, <1>7, <1>8, <1>9, <1>10, <1>11,
           <1>12, <1>13, <1>14, <1>15, <1>16 DEF Next, Step

\* The second factor is enabled once, with the codes its request shows.
LEMMA OwnedNext ==
  TypeOK /\ Owned /\ [Next]_vars => Owned'
<1> SUFFICES ASSUME TypeOK, Owned, [Next]_vars
             PROVE  Owned'
    OBVIOUS
<1> USE NoneAssumption, CrashAssumption, BoxParts
    DEF TypeOK, Owned, Goto, Start, Hold, Finish, Address, row, mail, history
<1>1. ASSUME NEW r \in Requests, Create(r) \/ QueueEmail(r) \/ RenameWrites(r)
      PROVE  Owned'
      BY <1>1 DEF Create, QueueEmail, RenameWrites
<1>2. ASSUME NEW r \in Requests, StoreCode(r) PROVE Owned'
      BY <1>2 DEF StoreCode
<1>3. ASSUME NEW r \in Requests, Post(r) \/ Complete(r) PROVE Owned'
      BY <1>3 DEF Post, Complete
<1>4. ASSUME NEW r \in Requests,
             ConfirmChecks(r) \/ ConfirmForgets(r) \/ ConfirmWrites(r)
      PROVE  Owned'
      BY <1>4 DEF ConfirmChecks, ConfirmForgets, ConfirmWrites
<1>5. ASSUME NEW r \in Requests, ResetWrites(r) PROVE Owned'
      BY <1>5 DEF ResetWrites
<1>6. ASSUME NEW r \in Requests, SetUp2FA(r) \/ Verify2FA(r) \/ VerifyCode(r)
      PROVE  Owned'
      BY <1>6 DEF SetUp2FA, Verify2FA, VerifyCode
<1>7. ASSUME NEW r \in Requests, Enable2FA(r) \/ Show2FA(r) PROVE Owned'
      BY <1>7 DEF Enable2FA, StillDisabled, Show2FA
<1>8. ASSUME NEW r \in Requests, Upload(r) \/ UploadStored(r) PROVE Owned'
      BY <1>8 DEF Upload, UploadStored
<1>9. ASSUME NEW r \in Requests,
             DeleteOldPhoto(r) \/ LinkPhoto(r) \/ RequestFails(r)
      PROVE  Owned'
      BY <1>9, Labels DEF DeleteOldPhoto, OldPhoto, LinkPhoto, RequestFails,
         Running
<1>10. ASSUME NEW r \in Requests, NEW a \in Addresses,
             SignUp(r, a) \/ Rename(r, a) \/ ConfirmEmail(r, a)
       PROVE  Owned'
      BY <1>10 DEF SignUp, Rename, ConfirmEmail
<1>11. ASSUME NEW r \in Requests, NEW b \in Boxes, AskForCode(r, b) PROVE Owned'
      BY <1>11 DEF AskForCode
<1>12. ASSUME NEW r \in Requests, NEW a \in Addresses, NEW guess \in Guesses,
             ResetPassword(r, a, guess)
       PROVE  Owned'
      BY <1>12 DEF ResetPassword, CodeTaken, Guesses
<1>13. ASSUME NEW b \in Boxes, CodeExpires(b) PROVE Owned'
      BY <1>13 DEF CodeExpires
<1>14. ASSUME NEW a \in Addresses, SetUpExpires(a) PROVE Owned'
      BY <1>14 DEF SetUpExpires
<1>15. CASE Crash
      BY <1>15 DEF Crash, Running
<1>16. CASE UNCHANGED vars
      BY <1>16 DEF vars
<1> QED BY <1>1, <1>2, <1>3, <1>4, <1>5, <1>6, <1>7, <1>8, <1>9, <1>10, <1>11,
           <1>12, <1>13, <1>14, <1>15, <1>16 DEF Next, Step

\* A code never gets to a second place, and a new one is nowhere yet.
LEMMA CodesNext ==
  TypeOK /\ Boxed /\ CodesApart /\ CodeResetsOnce /\ [Next]_vars
    => CodesApart' /\ CodeResetsOnce'
<1> SUFFICES ASSUME TypeOK, Boxed, CodesApart, CodeResetsOnce, [Next]_vars
             PROVE  CodesApart' /\ CodeResetsOnce'
    OBVIOUS
<1> USE NoneAssumption, CrashAssumption, BoxParts
    DEF TypeOK, Boxed, CodesApart, CodeResetsOnce, Resetting, Goto, Start,
        Hold, Finish, Address, row, mail, history
<1>1. ASSUME NEW r \in Requests, Create(r) \/ QueueEmail(r) \/ RenameWrites(r)
      PROVE  CodesApart' /\ CodeResetsOnce'
      BY <1>1 DEF Create, QueueEmail, RenameWrites
<1>2. ASSUME NEW r \in Requests, StoreCode(r)
      PROVE  CodesApart' /\ CodeResetsOnce'
      BY <1>2 DEF StoreCode
<1>3. ASSUME NEW r \in Requests, Post(r) \/ Complete(r)
      PROVE  CodesApart' /\ CodeResetsOnce'
      BY <1>3 DEF Post, Complete
<1>4. ASSUME NEW r \in Requests,
             ConfirmChecks(r) \/ ConfirmForgets(r) \/ ConfirmWrites(r)
      PROVE  CodesApart' /\ CodeResetsOnce'
      BY <1>4 DEF ConfirmChecks, ConfirmForgets, ConfirmWrites
<1>5. ASSUME NEW r \in Requests, ResetWrites(r)
      PROVE  CodesApart' /\ CodeResetsOnce'
      BY <1>5 DEF ResetWrites
<1>6. ASSUME NEW r \in Requests, SetUp2FA(r) \/ Verify2FA(r) \/ VerifyCode(r)
      PROVE  CodesApart' /\ CodeResetsOnce'
      BY <1>6 DEF SetUp2FA, Verify2FA, VerifyCode
<1>7. ASSUME NEW r \in Requests, Enable2FA(r) \/ Show2FA(r)
      PROVE  CodesApart' /\ CodeResetsOnce'
      BY <1>7 DEF Enable2FA, StillDisabled, Show2FA
<1>8. ASSUME NEW r \in Requests, Upload(r) \/ UploadStored(r)
      PROVE  CodesApart' /\ CodeResetsOnce'
      BY <1>8 DEF Upload, UploadStored
<1>9. ASSUME NEW r \in Requests,
             DeleteOldPhoto(r) \/ LinkPhoto(r) \/ RequestFails(r)
      PROVE  CodesApart' /\ CodeResetsOnce'
      BY <1>9, Labels DEF DeleteOldPhoto, OldPhoto, LinkPhoto, RequestFails,
         Running
<1>10. ASSUME NEW r \in Requests, NEW a \in Addresses,
             SignUp(r, a) \/ Rename(r, a) \/ ConfirmEmail(r, a)
       PROVE  CodesApart' /\ CodeResetsOnce'
      BY <1>10 DEF SignUp, Rename, ConfirmEmail
<1>11. ASSUME NEW r \in Requests, NEW b \in Boxes, AskForCode(r, b)
       PROVE  CodesApart' /\ CodeResetsOnce'
      BY <1>11 DEF AskForCode
<1>12. ASSUME NEW r \in Requests, NEW a \in Addresses, NEW guess \in Guesses,
             ResetPassword(r, a, guess)
       PROVE  CodesApart' /\ CodeResetsOnce'
      BY <1>12 DEF ResetPassword, CodeTaken, Guesses
<1>13. ASSUME NEW b \in Boxes, CodeExpires(b)
       PROVE  CodesApart' /\ CodeResetsOnce'
      BY <1>13 DEF CodeExpires
<1>14. ASSUME NEW a \in Addresses, SetUpExpires(a)
       PROVE  CodesApart' /\ CodeResetsOnce'
      BY <1>14 DEF SetUpExpires
<1>15. CASE Crash
      BY <1>15 DEF Crash, Running
<1>16. CASE UNCHANGED vars
      BY <1>16 DEF vars
<1> QED BY <1>1, <1>2, <1>3, <1>4, <1>5, <1>6, <1>7, <1>8, <1>9, <1>10, <1>11,
           <1>12, <1>13, <1>14, <1>15, <1>16 DEF Next, Step

\* Only linked photos are deleted, and the request that deleted one is about to
\* link its own.
LEMMA PhotosNext ==
  TypeOK /\ PhotosLinked /\ PhotoExists /\ [Next]_vars
    => PhotosLinked' /\ PhotoExists'
<1> SUFFICES ASSUME TypeOK, PhotosLinked, PhotoExists, [Next]_vars
             PROVE  PhotosLinked' /\ PhotoExists'
    OBVIOUS
<1> USE NoneAssumption, CrashAssumption, BoxParts
    DEF TypeOK, PhotosLinked, Linked, PhotoExists, Things, Goto, Start, Hold,
        Finish, Address, row, mail, history
<1>1. ASSUME NEW r \in Requests, Create(r) \/ QueueEmail(r) \/ RenameWrites(r)
      PROVE  PhotosLinked' /\ PhotoExists'
      BY <1>1 DEF Create, QueueEmail, RenameWrites
<1>2. ASSUME NEW r \in Requests, StoreCode(r)
      PROVE  PhotosLinked' /\ PhotoExists'
      BY <1>2 DEF StoreCode
<1>3. ASSUME NEW r \in Requests, Post(r) \/ Complete(r)
      PROVE  PhotosLinked' /\ PhotoExists'
      BY <1>3 DEF Post, Complete
<1>4. ASSUME NEW r \in Requests,
             ConfirmChecks(r) \/ ConfirmForgets(r) \/ ConfirmWrites(r)
      PROVE  PhotosLinked' /\ PhotoExists'
      BY <1>4 DEF ConfirmChecks, ConfirmForgets, ConfirmWrites
<1>5. ASSUME NEW r \in Requests, ResetWrites(r)
      PROVE  PhotosLinked' /\ PhotoExists'
      BY <1>5 DEF ResetWrites
<1>6. ASSUME NEW r \in Requests, SetUp2FA(r) \/ Verify2FA(r) \/ VerifyCode(r)
      PROVE  PhotosLinked' /\ PhotoExists'
      BY <1>6 DEF SetUp2FA, Verify2FA, VerifyCode
<1>7. ASSUME NEW r \in Requests, Enable2FA(r) \/ Show2FA(r)
      PROVE  PhotosLinked' /\ PhotoExists'
      BY <1>7 DEF Enable2FA, StillDisabled, Show2FA
<1>8. ASSUME NEW r \in Requests, Upload(r) \/ UploadStored(r)
      PROVE  PhotosLinked' /\ PhotoExists'
      BY <1>8 DEF Upload, UploadStored
<1>9. ASSUME NEW r \in Requests,
             DeleteOldPhoto(r) \/ LinkPhoto(r) \/ RequestFails(r)
      PROVE  PhotosLinked' /\ PhotoExists'
      BY <1>9, Labels DEF DeleteOldPhoto, OldPhoto, LinkPhoto, RequestFails,
         Running
<1>10. ASSUME NEW r \in Requests, NEW a \in Addresses,
             SignUp(r, a) \/ Rename(r, a) \/ ConfirmEmail(r, a)
       PROVE  PhotosLinked' /\ PhotoExists'
      BY <1>10 DEF SignUp, Rename, ConfirmEmail
<1>11. ASSUME NEW r \in Requests, NEW b \in Boxes, AskForCode(r, b)
       PROVE  PhotosLinked' /\ PhotoExists'
      BY <1>11 DEF AskForCode
<1>12. ASSUME NEW r \in Requests, NEW a \in Addresses, NEW guess \in Guesses,
             ResetPassword(r, a, guess)
       PROVE  PhotosLinked' /\ PhotoExists'
      BY <1>12 DEF ResetPassword, CodeTaken, Guesses
<1>13. ASSUME NEW b \in Boxes, CodeExpires(b)
       PROVE  PhotosLinked' /\ PhotoExists'
      BY <1>13 DEF CodeExpires
<1>14. ASSUME NEW a \in Addresses, SetUpExpires(a)
       PROVE  PhotosLinked' /\ PhotoExists'
      BY <1>14 DEF SetUpExpires
<1>15. CASE Crash
      BY <1>15 DEF Crash, Running
<1>16. CASE UNCHANGED vars
      BY <1>16 DEF vars
<1> QED BY <1>1, <1>2, <1>3, <1>4, <1>5, <1>6, <1>7, <1>8, <1>9, <1>10, <1>11,
           <1>12, <1>13, <1>14, <1>15, <1>16 DEF Next, Step

\* The invariant holds throughout every behaviour.
THEOREM Invariance == Spec => []IInv
<1>1. IInv /\ [Next]_vars => IInv'
  <2> SUFFICES ASSUME IInv, [Next]_vars PROVE IInv'
      OBVIOUS
  <2>1. ShownCodesStored'
        BY OwnedNext, TypeNext DEF IInv, Owned, ShownCodesStored, TypeOK
  <2> QED BY <2>1, TypeNext, BoxedNext, OwnedNext, CodesNext, PhotosNext
         DEF IInv
<1> QED BY <1>1, IInvInit, PTL DEF Spec

\* The backup codes a user was shown are the stored ones.
THEOREM ShownAreStored == Spec => []ShownCodesStored
<1>1. IInv => ShownCodesStored
      BY DEF IInv
<1> QED BY <1>1, Invariance, PTL

\* A code resets the password once.
THEOREM OneResetPerCode == Spec => []CodeResetsOnce
<1>1. IInv => CodeResetsOnce
      BY DEF IInv
<1> QED BY <1>1, Invariance, PTL

\* The row's photo exists, but for one whose upload deleted it and has yet to write
\* the row, or was stopped before it could.
THEOREM PhotosExist == Spec => []PhotoExists
<1>1. IInv => PhotoExists
      BY DEF IInv
<1> QED BY <1>1, Invariance, PTL
=============================================================================
