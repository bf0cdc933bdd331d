------------------------ MODULE DeviceAccess_proofs ------------------------
(***************************************************************************)
(* Proofs about signing in to a device, for any users and any number of    *)
(* uploads, with dialogs of either kind.                                   *)
(***************************************************************************)
EXTENDS DeviceAccess, TLAPS

\* The initial state satisfies the inductive invariant.
LEMMA InitInv == Init => IInv
<1> SUFFICES ASSUME Init PROVE IInv
  OBVIOUS
<1> USE AccessAssumption DEF Init, Guests, Versions, Access
<1>1. TypeOK
  <2>1. DataTypeOK
    BY DEF DataTypeOK, Lost
  <2>2. StepTypeOK
    BY DEF StepTypeOK, ReadsToken
  <2>3. FlagTypeOK
    BY DEF FlagTypeOK
  <2>4. QED
    BY <2>1, <2>2, <2>3 DEF TypeOK
<1>2. ReadInv /\ GuestInv /\ SessionInv /\ PostInv /\ StampInv
  BY DEF ReadInv, GuestInv, SessionInv, PostInv, StampInv, Authorizing, ReadsToken
<1>3. GuestAdmission /\ ActiveWasApproved
  BY DEF GuestAdmission, ActiveWasApproved
<1>4. /\ TargetsAsRecent /\ LostIsFetchedAgain
      /\ LostToLogout /\ PostedAsOneself
  BY DEF TargetsAsRecent, LostIsFetchedAgain, Lost, LostToLogout, PostedAsOneself
<1>5. QED
  BY <1>1, <1>2, <1>3, <1>4 DEF IInv

\* Every step keeps the types of what the cloud and the device hold.
LEMMA DataKeeps ==
  IInv /\ [Next]_vars => DataTypeOK'
<1> SUFFICES ASSUME IInv, [Next]_vars PROVE DataTypeOK'
  OBVIOUS
<1> USE AccessAssumption DEF IInv, TypeOK, DataTypeOK, Access, Versions, Lost,
        Guests, ReadInv, Authorizing, StepTypeOK, cloud, local, logout, posts,
        outcome
<1>1. ASSUME NEW u \in Guests, NEW a \in Access, SetAccess(u, a) PROVE DataTypeOK'
  BY <1>1 DEF SetAccess
<1>2. CASE UploadConfig
  BY <1>2 DEF UploadConfig
<1>3. CASE StartLogin
  BY <1>3 DEF StartLogin
<1>4. ASSUME NEW u \in Users, SignIn(u) PROVE DataTypeOK'
  BY <1>4 DEF SignIn, Goto
<1>5. CASE UpdateProperties
  BY <1>5 DEF UpdateProperties, Goto
<1>6. CASE ReadJWT
  BY <1>6 DEF ReadJWT
<1>7. CASE ReadAgain
  BY <1>7 DEF ReadAgain, Goto
<1>8. CASE Panic
  BY <1>8 DEF Panic
<1>9. CASE Fails
  BY <1>9 DEF Fails, Finish, Reset
<1>10. CASE Query
  BY <1>10 DEF Query, Goto
<1>11. CASE ApplyAdmin
  BY <1>11 DEF ApplyAdmin, Goto, Forget
<1>12. CASE ApplyUnauthorized
  BY <1>12 DEF ApplyUnauthorized, Goto, Forget
<1>13. CASE ApplyUnknown
  BY <1>13 DEF ApplyUnknown, Finish, Reset, Forget, Known
<1>14. CASE ApplyGuest
  BY <1>14 DEF ApplyGuest, Finish, Reset, Forget, Known
<1>15. CASE Decline
  BY <1>15 DEF Decline, Finish, Reset
<1>16. CASE Request
  BY <1>16 DEF Request, Goto
<1>17. CASE AddUser
  BY <1>17 DEF AddUser, Reset, AccessRequested
<1>18. CASE AddUserLost
  BY <1>18 DEF AddUserLost, Finish, Reset, AccessRequested
<1>19. CASE OpenKey
  BY <1>19 DEF OpenKey, Finish, Reset, Goto
<1>20. CASE Sync
  BY <1>20 DEF Sync, Finish, Reset
<1>21. CASE SyncLoses
  BY <1>21 DEF SyncLoses, Finish, Reset
<1>22. CASE StartLogout
  BY <1>22 DEF StartLogout
<1>23. CASE LogoutReadsJWT
  BY <1>23 DEF LogoutReadsJWT
<1>24. CASE LogoutResets
  BY <1>24 DEF LogoutResets
<1>25. CASE LogoutClearsUser
  BY <1>25 DEF LogoutClearsUser
<1>26. CASE Validate
  BY <1>26 DEF Validate
<1>27. CASE StartPost
  BY <1>27 DEF StartPost
<1>28. CASE PostReadsToken
  BY <1>28 DEF PostReadsToken
<1>29. CASE Publish
  BY <1>29 DEF Publish
<1>30. CASE UNCHANGED vars
  BY <1>30 DEF vars
<1>31. QED
  BY <1>1, <1>2, <1>3, <1>4, <1>5, <1>6, <1>7, <1>8, <1>9, <1>10, <1>11,
     <1>12, <1>13, <1>14, <1>15, <1>16, <1>17, <1>18, <1>19, <1>20, <1>21,
     <1>22, <1>23, <1>24, <1>25, <1>26, <1>27, <1>28, <1>29, <1>30 DEF Next, Step

\* Every step keeps the types of where Login, Logout and a post are.
LEMMA StepKeeps ==
  IInv /\ [Next]_vars => StepTypeOK'
<1> SUFFICES ASSUME IInv, [Next]_vars PROVE StepTypeOK'
  OBVIOUS
<1> USE AccessAssumption DEF IInv, TypeOK, StepTypeOK, ReadsToken, cloud, local,
        logout, posts, outcome
<1>1. ASSUME NEW u \in Guests, NEW a \in Access, SetAccess(u, a) PROVE StepTypeOK'
  BY <1>1 DEF SetAccess
<1>2. CASE UploadConfig
  BY <1>2 DEF UploadConfig
<1>3. CASE StartLogin
  BY <1>3 DEF StartLogin
<1>4. ASSUME NEW u \in Users, SignIn(u) PROVE StepTypeOK'
  BY <1>4 DEF SignIn, Goto
<1>5. CASE UpdateProperties
  BY <1>5 DEF UpdateProperties, Goto
<1>6. CASE ReadJWT
  BY <1>6 DEF ReadJWT
<1>7. CASE ReadAgain
  BY <1>7 DEF ReadAgain, Goto
<1>8. CASE Panic
  BY <1>8 DEF Panic
<1>9. CASE Fails
  BY <1>9 DEF Fails, Finish, Reset
<1>10. CASE Query
  BY <1>10 DEF Query, Goto
<1>11. CASE ApplyAdmin
  BY <1>11 DEF ApplyAdmin, Goto, Forget
<1>12. CASE ApplyUnauthorized
  BY <1>12 DEF ApplyUnauthorized, Goto, Forget
<1>13. CASE ApplyUnknown
  BY <1>13 DEF ApplyUnknown, Finish, Reset, Forget, Known
<1>14. CASE ApplyGuest
  BY <1>14 DEF ApplyGuest, Finish, Reset, Forget, Known
<1>15. CASE Decline
  BY <1>15 DEF Decline, Finish, Reset
<1>16. CASE Request
  BY <1>16 DEF Request, Goto
<1>17. CASE AddUser
  BY <1>17 DEF AddUser, Reset, AccessRequested
<1>18. CASE AddUserLost
  BY <1>18 DEF AddUserLost, Finish, Reset, AccessRequested
<1>19. CASE OpenKey
  BY <1>19 DEF OpenKey, Finish, Reset, Goto
<1>20. CASE Sync
  BY <1>20 DEF Sync, Finish, Reset
<1>21. CASE SyncLoses
  BY <1>21 DEF SyncLoses, Finish, Reset
<1>22. CASE StartLogout
  BY <1>22 DEF StartLogout
<1>23. CASE LogoutReadsJWT
  BY <1>23 DEF LogoutReadsJWT
<1>24. CASE LogoutResets
  BY <1>24 DEF LogoutResets
<1>25. CASE LogoutClearsUser
  BY <1>25 DEF LogoutClearsUser
<1>26. CASE Validate
  BY <1>26 DEF Validate
<1>27. CASE StartPost
  BY <1>27 DEF StartPost
<1>28. CASE PostReadsToken
  BY <1>28 DEF PostReadsToken
<1>29. CASE Publish
  BY <1>29 DEF Publish
<1>30. CASE UNCHANGED vars
  BY <1>30 DEF vars
<1>31. QED
  BY <1>1, <1>2, <1>3, <1>4, <1>5, <1>6, <1>7, <1>8, <1>9, <1>10, <1>11,
     <1>12, <1>13, <1>14, <1>15, <1>16, <1>17, <1>18, <1>19, <1>20, <1>21,
     <1>22, <1>23, <1>24, <1>25, <1>26, <1>27, <1>28, <1>29, <1>30 DEF Next, Step

\* Every step keeps the flags Boolean.
LEMMA FlagKeeps ==
  IInv /\ [Next]_vars => FlagTypeOK'
<1> SUFFICES ASSUME IInv, [Next]_vars PROVE FlagTypeOK'
  OBVIOUS
<1> USE AccessAssumption DEF IInv, TypeOK, StepTypeOK, FlagTypeOK, cloud, local,
        logout, posts, outcome
<1>1. ASSUME NEW u \in Guests, NEW a \in Access, SetAccess(u, a) PROVE FlagTypeOK'
  BY <1>1 DEF SetAccess
<1>2. CASE UploadConfig
  BY <1>2 DEF UploadConfig
<1>3. CASE StartLogin
  BY <1>3 DEF StartLogin
<1>4. ASSUME NEW u \in Users, SignIn(u) PROVE FlagTypeOK'
  BY <1>4 DEF SignIn, Goto
<1>5. CASE UpdateProperties
  BY <1>5 DEF UpdateProperties, Goto
<1>6. CASE ReadJWT
  BY <1>6 DEF ReadJWT
<1>7. CASE ReadAgain
  BY <1>7 DEF ReadAgain, Goto
<1>8. CASE Panic
  BY <1>8 DEF Panic
<1>9. CASE Fails
  BY <1>9 DEF Fails, Finish, Reset
<1>10. CASE Query
  BY <1>10 DEF Query, Goto
<1>11. CASE ApplyAdmin
  BY <1>11 DEF ApplyAdmin, Goto, Forget
<1>12. CASE ApplyUnauthorized
  BY <1>12 DEF ApplyUnauthorized, Goto, Forget
<1>13. CASE ApplyUnknown
  BY <1>13 DEF ApplyUnknown, Finish, Reset, Forget, Known
<1>14. CASE ApplyGuest
  BY <1>14 DEF ApplyGuest, Finish, Reset, Forget, Known
<1>15. CASE Decline
  BY <1>15 DEF Decline, Finish, Reset
<1>16. CASE Request
  BY <1>16 DEF Request, Goto
<1>17. CASE AddUser
  BY <1>17 DEF AddUser, Reset, AccessRequested
<1>18. CASE AddUserLost
  BY <1>18 DEF AddUserLost, Finish, Reset, AccessRequested
<1>19. CASE OpenKey
  BY <1>19 DEF OpenKey, Finish, Reset, Goto
<1>20. CASE Sync
  BY <1>20 DEF Sync, Finish, Reset
<1>21. CASE SyncLoses
  BY <1>21 DEF SyncLoses, Finish, Reset
<1>22. CASE StartLogout
  BY <1>22 DEF StartLogout
<1>23. CASE LogoutReadsJWT
  BY <1>23 DEF LogoutReadsJWT
<1>24. CASE LogoutResets
  BY <1>24 DEF LogoutResets
<1>25. CASE LogoutClearsUser
  BY <1>25 DEF LogoutClearsUser
<1>26. CASE Validate
  BY <1>26 DEF Validate
<1>27. CASE StartPost
  BY <1>27 DEF StartPost
<1>28. CASE PostReadsToken
  BY <1>28 DEF PostReadsToken
<1>29. CASE Publish
  BY <1>29 DEF Publish
<1>30. CASE UNCHANGED vars
  BY <1>30 DEF vars
<1>31. QED
  BY <1>1, <1>2, <1>3, <1>4, <1>5, <1>6, <1>7, <1>8, <1>9, <1>10, <1>11,
     <1>12, <1>13, <1>14, <1>15, <1>16, <1>17, <1>18, <1>19, <1>20, <1>21,
     <1>22, <1>23, <1>24, <1>25, <1>26, <1>27, <1>28, <1>29, <1>30 DEF Next, Step

\* Every step keeps what Login has read in step with the session.
LEMMA ReadKeeps ==
  IInv /\ [Next]_vars => ReadInv'
<1> SUFFICES ASSUME IInv, [Next]_vars PROVE ReadInv'
  OBVIOUS
<1> USE AccessAssumption DEF IInv, TypeOK, DataTypeOK, StepTypeOK, FlagTypeOK,
        ReadInv, Authorizing, ReadsToken, cloud, local, logout, posts, outcome
<1>1. ASSUME NEW u \in Guests, NEW a \in Access, SetAccess(u, a) PROVE ReadInv'
  BY <1>1 DEF SetAccess
<1>2. CASE UploadConfig
  BY <1>2 DEF UploadConfig
<1>3. CASE StartLogin
  BY <1>3 DEF StartLogin
<1>4. ASSUME NEW u \in Users, SignIn(u) PROVE ReadInv'
  BY <1>4 DEF SignIn, Goto
<1>5. CASE UpdateProperties
  BY <1>5 DEF UpdateProperties, Goto
<1>6. CASE ReadJWT
  BY <1>6 DEF ReadJWT
<1>7. CASE ReadAgain
  BY <1>7 DEF ReadAgain, Goto
<1>8. CASE Panic
  BY <1>8 DEF Panic
<1>9. CASE Fails
  BY <1>9 DEF Fails, Finish, Reset
<1>10. CASE Query
  BY <1>10 DEF Query, Goto
<1>11. CASE ApplyAdmin
  BY <1>11 DEF ApplyAdmin, Goto, Forget
<1>12. CASE ApplyUnauthorized
  BY <1>12 DEF ApplyUnauthorized, Goto, Forget
<1>13. CASE ApplyUnknown
  BY <1>13 DEF ApplyUnknown, Finish, Reset, Forget, Known
<1>14. CASE ApplyGuest
  BY <1>14 DEF ApplyGuest, Finish, Reset, Forget, Known
<1>15. CASE Decline
  BY <1>15 DEF Decline, Finish, Reset
<1>16. CASE Request
  BY <1>16 DEF Request, Goto
<1>17. CASE AddUser
  BY <1>17 DEF AddUser, Reset, AccessRequested
<1>18. CASE AddUserLost
  BY <1>18 DEF AddUserLost, Finish, Reset, AccessRequested
<1>19. CASE OpenKey
  BY <1>19 DEF OpenKey, Finish, Reset, Goto
<1>20. CASE Sync
  BY <1>20 DEF Sync, Finish, Reset
<1>21. CASE SyncLoses
  BY <1>21 DEF SyncLoses, Finish, Reset
<1>22. CASE StartLogout
  BY <1>22 DEF StartLogout
<1>23. CASE LogoutReadsJWT
  BY <1>23 DEF LogoutReadsJWT
<1>24. CASE LogoutResets
  BY <1>24 DEF LogoutResets
<1>25. CASE LogoutClearsUser
  BY <1>25 DEF LogoutClearsUser
<1>26. CASE Validate
  BY <1>26 DEF Validate
<1>27. CASE StartPost
  BY <1>27 DEF StartPost
<1>28. CASE PostReadsToken
  BY <1>28 DEF PostReadsToken
<1>29. CASE Publish
  BY <1>29 DEF Publish
<1>30. CASE UNCHANGED vars
  BY <1>30 DEF vars
<1>31. QED
  BY <1>1, <1>2, <1>3, <1>4, <1>5, <1>6, <1>7, <1>8, <1>9, <1>10, <1>11,
     <1>12, <1>13, <1>14, <1>15, <1>16, <1>17, <1>18, <1>19, <1>20, <1>21,
     <1>22, <1>23, <1>24, <1>25, <1>26, <1>27, <1>28, <1>29, <1>30 DEF Next, Step

\* No step makes a guest active, here or in an answer, that was not let in.
LEMMA GuestKeeps ==
  IInv /\ [Next]_vars => GuestInv'
<1> SUFFICES ASSUME IInv, [Next]_vars PROVE GuestInv'
  OBVIOUS
<1> USE AccessAssumption DEF IInv, TypeOK, DataTypeOK, StepTypeOK, FlagTypeOK,
        GuestInv, Guests, Access, ReadInv, Authorizing, cloud, local, logout,
        posts, outcome
<1>1. ASSUME NEW u \in Guests, NEW a \in Access, SetAccess(u, a) PROVE GuestInv'
  BY <1>1 DEF SetAccess
<1>2. CASE UploadConfig
  BY <1>2 DEF UploadConfig
<1>3. CASE StartLogin
  BY <1>3 DEF StartLogin
<1>4. ASSUME NEW u \in Users, SignIn(u) PROVE GuestInv'
  BY <1>4 DEF SignIn, Goto
<1>5. CASE UpdateProperties
  BY <1>5 DEF UpdateProperties, Goto
<1>6. CASE ReadJWT
  BY <1>6 DEF ReadJWT
<1>7. CASE ReadAgain
  BY <1>7 DEF ReadAgain, Goto
<1>8. CASE Panic
  BY <1>8 DEF Panic
<1>9. CASE Fails
  BY <1>9 DEF Fails, Finish, Reset
<1>10. CASE Query
  BY <1>10 DEF Query, Goto
<1>11. CASE ApplyAdmin
  BY <1>11 DEF ApplyAdmin, Goto, Forget
<1>12. CASE ApplyUnauthorized
  BY <1>12 DEF ApplyUnauthorized, Goto, Forget
<1>13. CASE ApplyUnknown
  BY <1>13 DEF ApplyUnknown, Finish, Reset, Forget, Known
<1>14. CASE ApplyGuest
  BY <1>14 DEF ApplyGuest, Finish, Reset, Forget, Known
<1>15. CASE Decline
  BY <1>15 DEF Decline, Finish, Reset
<1>16. CASE Request
  BY <1>16 DEF Request, Goto
<1>17. CASE AddUser
  BY <1>17 DEF AddUser, Reset, AccessRequested
<1>18. CASE AddUserLost
  BY <1>18 DEF AddUserLost, Finish, Reset, AccessRequested
<1>19. CASE OpenKey
  BY <1>19 DEF OpenKey, Finish, Reset, Goto
<1>20. CASE Sync
  BY <1>20 DEF Sync, Finish, Reset
<1>21. CASE SyncLoses
  BY <1>21 DEF SyncLoses, Finish, Reset
<1>22. CASE StartLogout
  BY <1>22 DEF StartLogout
<1>23. CASE LogoutReadsJWT
  BY <1>23 DEF LogoutReadsJWT
<1>24. CASE LogoutResets
  BY <1>24 DEF LogoutResets
<1>25. CASE LogoutClearsUser
  BY <1>25 DEF LogoutClearsUser
<1>26. CASE Validate
  BY <1>26 DEF Validate
<1>27. CASE StartPost
  BY <1>27 DEF StartPost
<1>28. CASE PostReadsToken
  BY <1>28 DEF PostReadsToken
<1>29. CASE Publish
  BY <1>29 DEF Publish
<1>30. CASE UNCHANGED vars
  BY <1>30 DEF vars
<1>31. QED
  BY <1>1, <1>2, <1>3, <1>4, <1>5, <1>6, <1>7, <1>8, <1>9, <1>10, <1>11,
     <1>12, <1>13, <1>14, <1>15, <1>16, <1>17, <1>18, <1>19, <1>20, <1>21,
     <1>22, <1>23, <1>24, <1>25, <1>26, <1>27, <1>28, <1>29, <1>30 DEF Next, Step

\* No step makes a guest active on the device that did not ask and was not
\* let in.
LEMMA ActiveKeeps ==
  IInv /\ [Next]_vars => ActiveWasApproved'
<1> SUFFICES ASSUME IInv, [Next]_vars PROVE ActiveWasApproved'
  OBVIOUS
<1> USE AccessAssumption DEF IInv, TypeOK, DataTypeOK, StepTypeOK, FlagTypeOK,
        ActiveWasApproved, GuestInv, Guests, Access, ReadInv, Authorizing, cloud,
        local, logout, posts, outcome
<1>1. ASSUME NEW u \in Guests, NEW a \in Access, SetAccess(u, a) PROVE ActiveWasApproved'
  BY <1>1 DEF SetAccess
<1>2. CASE UploadConfig
  BY <1>2 DEF UploadConfig
<1>3. CASE StartLogin
  BY <1>3 DEF StartLogin
<1>4. ASSUME NEW u \in Users, SignIn(u) PROVE ActiveWasApproved'
  BY <1>4 DEF SignIn, Goto
<1>5. CASE UpdateProperties
  BY <1>5 DEF UpdateProperties, Goto
<1>6. CASE ReadJWT
  BY <1>6 DEF ReadJWT
<1>7. CASE ReadAgain
  BY <1>7 DEF ReadAgain, Goto
<1>8. CASE Panic
  BY <1>8 DEF Panic
<1>9. CASE Fails
  BY <1>9 DEF Fails, Finish, Reset
<1>10. CASE Query
  BY <1>10 DEF Query, Goto
<1>11. CASE ApplyAdmin
  BY <1>11 DEF ApplyAdmin, Goto, Forget
<1>12. CASE ApplyUnauthorized
  BY <1>12 DEF ApplyUnauthorized, Goto, Forget
<1>13. CASE ApplyUnknown
  BY <1>13 DEF ApplyUnknown, Finish, Reset, Forget, Known
<1>14. CASE ApplyGuest
  BY <1>14 DEF ApplyGuest, Finish, Reset, Forget, Known
<1>15. CASE Decline
  BY <1>15 DEF Decline, Finish, Reset
<1>16. CASE Request
  BY <1>16 DEF Request, Goto
<1>17. CASE AddUser
  BY <1>17 DEF AddUser, Reset, AccessRequested
<1>18. CASE AddUserLost
  BY <1>18 DEF AddUserLost, Finish, Reset, AccessRequested
<1>19. CASE OpenKey
  BY <1>19 DEF OpenKey, Finish, Reset, Goto
<1>20. CASE Sync
  BY <1>20 DEF Sync, Finish, Reset
<1>21. CASE SyncLoses
  BY <1>21 DEF SyncLoses, Finish, Reset
<1>22. CASE StartLogout
  BY <1>22 DEF StartLogout
<1>23. CASE LogoutReadsJWT
  BY <1>23 DEF LogoutReadsJWT
<1>24. CASE LogoutResets
  BY <1>24 DEF LogoutResets
<1>25. CASE LogoutClearsUser
  BY <1>25 DEF LogoutClearsUser
<1>26. CASE Validate
  BY <1>26 DEF Validate
<1>27. CASE StartPost
  BY <1>27 DEF StartPost
<1>28. CASE PostReadsToken
  BY <1>28 DEF PostReadsToken
<1>29. CASE Publish
  BY <1>29 DEF Publish
<1>30. CASE UNCHANGED vars
  BY <1>30 DEF vars
<1>31. QED
  BY <1>1, <1>2, <1>3, <1>4, <1>5, <1>6, <1>7, <1>8, <1>9, <1>10, <1>11,
     <1>12, <1>13, <1>14, <1>15, <1>16, <1>17, <1>18, <1>19, <1>20, <1>21,
     <1>22, <1>23, <1>24, <1>25, <1>26, <1>27, <1>28, <1>29, <1>30 DEF Next, Step

\* No Login of a guest ends with the guest signed in, but as an active one.
LEMMA AdmissionKeeps ==
  IInv /\ [Next]_vars => GuestAdmission'
<1> SUFFICES ASSUME IInv, [Next]_vars PROVE GuestAdmission'
  OBVIOUS
<1> USE AccessAssumption DEF IInv, TypeOK, DataTypeOK, StepTypeOK, FlagTypeOK,
        GuestAdmission, ActiveWasApproved, GuestInv, Guests, ReadInv,
        Authorizing, cloud, local, logout, posts, outcome
<1>1. ASSUME NEW u \in Guests, NEW a \in Access, SetAccess(u, a) PROVE GuestAdmission'
  BY <1>1 DEF SetAccess
<1>2. CASE UploadConfig
  BY <1>2 DEF UploadConfig
<1>3. CASE StartLogin
  BY <1>3 DEF StartLogin
<1>4. ASSUME NEW u \in Users, SignIn(u) PROVE GuestAdmission'
  BY <1>4 DEF SignIn, Goto
<1>5. CASE UpdateProperties
  BY <1>5 DEF UpdateProperties, Goto
<1>6. CASE ReadJWT
  BY <1>6 DEF ReadJWT
<1>7. CASE ReadAgain
  BY <1>7 DEF ReadAgain, Goto
<1>8. CASE Panic
  BY <1>8 DEF Panic
<1>9. CASE Fails
  BY <1>9 DEF Fails, Finish, Reset
<1>10. CASE Query
  BY <1>10 DEF Query, Goto
<1>11. CASE ApplyAdmin
  BY <1>11 DEF ApplyAdmin, Goto, Forget
<1>12. CASE ApplyUnauthorized
  BY <1>12 DEF ApplyUnauthorized, Goto, Forget
<1>13. CASE ApplyUnknown
  BY <1>13 DEF ApplyUnknown, Finish, Reset, Forget, Known
<1>14. CASE ApplyGuest
  BY <1>14 DEF ApplyGuest, Finish, Reset, Forget, Known
<1>15. CASE Decline
  BY <1>15 DEF Decline, Finish, Reset
<1>16. CASE Request
  BY <1>16 DEF Request, Goto
<1>17. CASE AddUser
  BY <1>17 DEF AddUser, Reset, AccessRequested
<1>18. CASE AddUserLost
  BY <1>18 DEF AddUserLost, Finish, Reset, AccessRequested
<1>19. CASE OpenKey
  BY <1>19 DEF OpenKey, Finish, Reset, Goto
<1>20. CASE Sync
  BY <1>20 DEF Sync, Finish, Reset
<1>21. CASE SyncLoses
  BY <1>21 DEF SyncLoses, Finish, Reset
<1>22. CASE StartLogout
  BY <1>22 DEF StartLogout
<1>23. CASE LogoutReadsJWT
  BY <1>23 DEF LogoutReadsJWT
<1>24. CASE LogoutResets
  BY <1>24 DEF LogoutResets
<1>25. CASE LogoutClearsUser
  BY <1>25 DEF LogoutClearsUser
<1>26. CASE Validate
  BY <1>26 DEF Validate
<1>27. CASE StartPost
  BY <1>27 DEF StartPost
<1>28. CASE PostReadsToken
  BY <1>28 DEF PostReadsToken
<1>29. CASE Publish
  BY <1>29 DEF Publish
<1>30. CASE UNCHANGED vars
  BY <1>30 DEF vars
<1>31. QED
  BY <1>1, <1>2, <1>3, <1>4, <1>5, <1>6, <1>7, <1>8, <1>9, <1>10, <1>11,
     <1>12, <1>13, <1>14, <1>15, <1>16, <1>17, <1>18, <1>19, <1>20, <1>21,
     <1>22, <1>23, <1>24, <1>25, <1>26, <1>27, <1>28, <1>29, <1>30 DEF Next, Step

\* A session is disturbed only where a Logout overlaps a Login.
LEMMA SessionKeeps ==
  IInv /\ [Next]_vars => SessionInv'
<1> SUFFICES ASSUME IInv, [Next]_vars PROVE SessionInv'
  OBVIOUS
<1> USE AccessAssumption DEF IInv, TypeOK, DataTypeOK, StepTypeOK, FlagTypeOK,
        SessionInv, ReadInv, Authorizing, ReadsToken, LostToLogout, cloud, local,
        logout, posts, outcome
<1>1. ASSUME NEW u \in Guests, NEW a \in Access, SetAccess(u, a) PROVE SessionInv'
  BY <1>1 DEF SetAccess
<1>2. CASE UploadConfig
  BY <1>2 DEF UploadConfig
<1>3. CASE StartLogin
  BY <1>3 DEF StartLogin
<1>4. ASSUME NEW u \in Users, SignIn(u) PROVE SessionInv'
  BY <1>4 DEF SignIn, Goto
<1>5. CASE UpdateProperties
  BY <1>5 DEF UpdateProperties, Goto
<1>6. CASE ReadJWT
  BY <1>6 DEF ReadJWT
<1>7. CASE ReadAgain
  BY <1>7 DEF ReadAgain, Goto
<1>8. CASE Panic
  BY <1>8 DEF Panic
<1>9. CASE Fails
  BY <1>9 DEF Fails, Finish, Reset
<1>10. CASE Query
  BY <1>10 DEF Query, Goto
<1>11. CASE ApplyAdmin
  BY <1>11 DEF ApplyAdmin, Goto, Forget
<1>12. CASE ApplyUnauthorized
  BY <1>12 DEF ApplyUnauthorized, Goto, Forget
<1>13. CASE ApplyUnknown
  BY <1>13 DEF ApplyUnknown, Finish, Reset, Forget, Known
<1>14. CASE ApplyGuest
  BY <1>14 DEF ApplyGuest, Finish, Reset, Forget, Known
<1>15. CASE Decline
  BY <1>15 DEF Decline, Finish, Reset
<1>16. CASE Request
  BY <1>16 DEF Request, Goto
<1>17. CASE AddUser
  BY <1>17 DEF AddUser, Reset, AccessRequested
<1>18. CASE AddUserLost
  BY <1>18 DEF AddUserLost, Finish, Reset, AccessRequested
<1>19. CASE OpenKey
  BY <1>19 DEF OpenKey, Finish, Reset, Goto
<1>20. CASE Sync
  BY <1>20 DEF Sync, Finish, Reset
<1>21. CASE SyncLoses
  BY <1>21 DEF SyncLoses, Finish, Reset
<1>22. CASE StartLogout
  BY <1>22 DEF StartLogout
<1>23. CASE LogoutReadsJWT
  BY <1>23 DEF LogoutReadsJWT
<1>24. CASE LogoutResets
  BY <1>24 DEF LogoutResets
<1>25. CASE LogoutClearsUser
  BY <1>25 DEF LogoutClearsUser
<1>26. CASE Validate
  BY <1>26 DEF Validate
<1>27. CASE StartPost
  BY <1>27 DEF StartPost
<1>28. CASE PostReadsToken
  BY <1>28 DEF PostReadsToken
<1>29. CASE Publish
  BY <1>29 DEF Publish
<1>30. CASE UNCHANGED vars
  BY <1>30 DEF vars
<1>31. QED
  BY <1>1, <1>2, <1>3, <1>4, <1>5, <1>6, <1>7, <1>8, <1>9, <1>10, <1>11,
     <1>12, <1>13, <1>14, <1>15, <1>16, <1>17, <1>18, <1>19, <1>20, <1>21,
     <1>22, <1>23, <1>24, <1>25, <1>26, <1>27, <1>28, <1>29, <1>30 DEF Next, Step

\* A post is disturbed only by what overlaps it.
LEMMA PostKeeps ==
  IInv /\ [Next]_vars => PostInv' /\ PostedAsOneself' /\ LostToLogout'
<1> SUFFICES ASSUME IInv, [Next]_vars PROVE PostInv' /\ PostedAsOneself' /\ LostToLogout'
  OBVIOUS
<1> USE AccessAssumption DEF IInv, TypeOK, DataTypeOK, StepTypeOK, FlagTypeOK,
        PostInv, PostedAsOneself, LostToLogout, SessionInv, Authorizing,
        ReadsToken, cloud, local, logout, posts, outcome
<1>1. ASSUME NEW u \in Guests, NEW a \in Access, SetAccess(u, a) PROVE PostInv' /\ PostedAsOneself' /\ LostToLogout'
  BY <1>1 DEF SetAccess
<1>2. CASE UploadConfig
  BY <1>2 DEF UploadConfig
<1>3. CASE StartLogin
  BY <1>3 DEF StartLogin
<1>4. ASSUME NEW u \in Users, SignIn(u) PROVE PostInv' /\ PostedAsOneself' /\ LostToLogout'
  BY <1>4 DEF SignIn, Goto
<1>5. CASE UpdateProperties
  BY <1>5 DEF UpdateProperties, Goto
<1>6. CASE ReadJWT
  BY <1>6 DEF ReadJWT
<1>7. CASE ReadAgain
  BY <1>7 DEF ReadAgain, Goto
<1>8. CASE Panic
  BY <1>8 DEF Panic
<1>9. CASE Fails
  BY <1>9 DEF Fails, Finish, Reset
<1>10. CASE Query
  BY <1>10 DEF Query, Goto
<1>11. CASE ApplyAdmin
  BY <1>11 DEF ApplyAdmin, Goto, Forget
<1>12. CASE ApplyUnauthorized
  BY <1>12 DEF ApplyUnauthorized, Goto, Forget
<1>13. CASE ApplyUnknown
  BY <1>13 DEF ApplyUnknown, Finish, Reset, Forget, Known
<1>14. CASE ApplyGuest
  BY <1>14 DEF ApplyGuest, Finish, Reset, Forget, Known
<1>15. CASE Decline
  BY <1>15 DEF Decline, Finish, Reset
<1>16. CASE Request
  BY <1>16 DEF Request, Goto
<1>17. CASE AddUser
  BY <1>17 DEF AddUser, Reset, AccessRequested
<1>18. CASE AddUserLost
  BY <1>18 DEF AddUserLost, Finish, Reset, AccessRequested
<1>19. CASE OpenKey
  BY <1>19 DEF OpenKey, Finish, Reset, Goto
<1>20. CASE Sync
  BY <1>20 DEF Sync, Finish, Reset
<1>21. CASE SyncLoses
  BY <1>21 DEF SyncLoses, Finish, Reset
<1>22. CASE StartLogout
  BY <1>22 DEF StartLogout
<1>23. CASE LogoutReadsJWT
  BY <1>23 DEF LogoutReadsJWT
<1>24. CASE LogoutResets
  BY <1>24 DEF LogoutResets
<1>25. CASE LogoutClearsUser
  BY <1>25 DEF LogoutClearsUser
<1>26. CASE Validate
  BY <1>26 DEF Validate
<1>27. CASE StartPost
  BY <1>27 DEF StartPost
<1>28. CASE PostReadsToken
  BY <1>28 DEF PostReadsToken
<1>29. CASE Publish
  BY <1>29 DEF Publish
<1>30. CASE UNCHANGED vars
  BY <1>30 DEF vars
<1>31. QED
  BY <1>1, <1>2, <1>3, <1>4, <1>5, <1>6, <1>7, <1>8, <1>9, <1>10, <1>11,
     <1>12, <1>13, <1>14, <1>15, <1>16, <1>17, <1>18, <1>19, <1>20, <1>21,
     <1>22, <1>23, <1>24, <1>25, <1>26, <1>27, <1>28, <1>29, <1>30 DEF Next, Step

\* Every step keeps the timestamps behind the uploads and the targets ahead of
\* theirs.
LEMMA StampKeeps ==
  IInv /\ [Next]_vars => StampInv' /\ TargetsAsRecent' /\ LostIsFetchedAgain'
<1> SUFFICES ASSUME IInv, [Next]_vars PROVE StampInv' /\ TargetsAsRecent' /\ LostIsFetchedAgain'
  OBVIOUS
<1> USE AccessAssumption DEF IInv, TypeOK, DataTypeOK, StepTypeOK, FlagTypeOK,
        StampInv, TargetsAsRecent, LostIsFetchedAgain, Lost, Versions, cloud,
        local, logout, posts, outcome
<1>1. ASSUME NEW u \in Guests, NEW a \in Access, SetAccess(u, a) PROVE StampInv' /\ TargetsAsRecent' /\ LostIsFetchedAgain'
  BY <1>1 DEF SetAccess
<1>2. CASE UploadConfig
  BY <1>2 DEF UploadConfig
<1>3. CASE StartLogin
  BY <1>3 DEF StartLogin
<1>4. ASSUME NEW u \in Users, SignIn(u) PROVE StampInv' /\ TargetsAsRecent' /\ LostIsFetchedAgain'
  BY <1>4 DEF SignIn, Goto
<1>5. CASE UpdateProperties
  BY <1>5 DEF UpdateProperties, Goto
<1>6. CASE ReadJWT
  BY <1>6 DEF ReadJWT
<1>7. CASE ReadAgain
  BY <1>7 DEF ReadAgain, Goto
<1>8. CASE Panic
  BY <1>8 DEF Panic
<1>9. CASE Fails
  BY <1>9 DEF Fails, Finish, Reset
<1>10. CASE Query
  BY <1>10 DEF Query, Goto
<1>11. CASE ApplyAdmin
  BY <1>11 DEF ApplyAdmin, Goto, Forget
<1>12. CASE ApplyUnauthorized
  BY <1>12 DEF ApplyUnauthorized, Goto, Forget
<1>13. CASE ApplyUnknown
  BY <1>13 DEF ApplyUnknown, Finish, Reset, Forget, Known
<1>14. CASE ApplyGuest
  BY <1>14 DEF ApplyGuest, Finish, Reset, Forget, Known
<1>15. CASE Decline
  BY <1>15 DEF Decline, Finish, Reset
<1>16. CASE Request
  BY <1>16 DEF Request, Goto
<1>17. CASE AddUser
  BY <1>17 DEF AddUser, Reset, AccessRequested
<1>18. CASE AddUserLost
  BY <1>18 DEF AddUserLost, Finish, Reset, AccessRequested
<1>19. CASE OpenKey
  BY <1>19 DEF OpenKey, Finish, Reset, Goto
<1>20. CASE Sync
  BY <1>20 DEF Sync, Finish, Reset
<1>21. CASE SyncLoses
  BY <1>21 DEF SyncLoses, Finish, Reset
<1>22. CASE StartLogout
  BY <1>22 DEF StartLogout
<1>23. CASE LogoutReadsJWT
  BY <1>23 DEF LogoutReadsJWT
<1>24. CASE LogoutResets
  BY <1>24 DEF LogoutResets
<1>25. CASE LogoutClearsUser
  BY <1>25 DEF LogoutClearsUser
<1>26. CASE Validate
  BY <1>26 DEF Validate
<1>27. CASE StartPost
  BY <1>27 DEF StartPost
<1>28. CASE PostReadsToken
  BY <1>28 DEF PostReadsToken
<1>29. CASE Publish
  BY <1>29 DEF Publish
<1>30. CASE UNCHANGED vars
  BY <1>30 DEF vars
<1>31. QED
  BY <1>1, <1>2, <1>3, <1>4, <1>5, <1>6, <1>7, <1>8, <1>9, <1>10, <1>11,
     <1>12, <1>13, <1>14, <1>15, <1>16, <1>17, <1>18, <1>19, <1>20, <1>21,
     <1>22, <1>23, <1>24, <1>25, <1>26, <1>27, <1>28, <1>29, <1>30 DEF Next, Step

\* Every reachable state satisfies the inductive invariant.
LEMMA Inductive == Spec => []IInv
<1>1. Init => IInv
  BY InitInv
<1>2. IInv /\ [Next]_vars => IInv'
  BY DataKeeps, StepKeeps, FlagKeeps, ReadKeeps, GuestKeeps, ActiveKeeps, AdmissionKeeps, 
     SessionKeeps, PostKeeps, StampKeeps DEF IInv, TypeOK
<1>3. QED
  BY <1>1, <1>2, PTL DEF Spec

\* The sign-in keeps its types through cancelled dialogs, failures and Logouts
\* between any two of its steps.
THEOREM TypeCorrect == Spec => []TypeOK
<1>1. IInv => TypeOK
  BY DEF IInv
<1>2. QED
  BY <1>1, Inductive, PTL

\* For any users: a guest that is signed in asked for access on this device and
\* was let in, whatever the owner changed while an answer was under way.
THEOREM GuestsAdmitted == Spec => []GuestAdmission
<1>1. IInv => GuestAdmission
  BY DEF IInv
<1>2. QED
  BY <1>1, Inductive, PTL

\* For any users: no guest is active on the device that never asked or was never
\* let in.
THEOREM ActiveApproved == Spec => []ActiveWasApproved
<1>1. IInv => ActiveWasApproved
  BY DEF IInv
<1>2. QED
  BY <1>1, Inductive, PTL

\* For any users: the token and the device context name the same user, also
\* after a Logout that failed, unless a Logout overlapped the Login or a Login
\* that failed could not reset.
THEOREM SessionIsOne == Spec => []SessionAgrees
<1>1. IInv => SessionAgrees
  BY DEF IInv, SessionInv, SessionAgrees
<1>2. QED
  BY <1>1, Inductive, PTL

\* For any users: measurements name the user whose token they are posted with,
\* unless a Login or a Logout is in the way, or a token that should be gone.
THEOREM PostsAreOnes == Spec => []PostedAsOneself
<1>1. IInv => PostedAsOneself
  BY DEF IInv
<1>2. QED
  BY <1>1, Inductive, PTL

\* For any users: a token is missed only where a Logout, or a failing Login,
\* overlaps its use.
THEOREM TokenLostToLogout == Spec => []LostToLogout
<1>1. IInv => LostToLogout
  BY DEF IInv
<1>2. QED
  BY <1>1, Inductive, PTL

\* For any number of uploads: the targets are as recent as their timestamp.
THEOREM TargetsRecent == Spec => []TargetsAsRecent
<1>1. IInv => TargetsAsRecent
  BY DEF IInv
<1>2. QED
  BY <1>1, Inductive, PTL

\* For any number of uploads: targets lost to a failed load are fetched again.
THEOREM LostRefetched == Spec => []LostIsFetchedAgain
<1>1. IInv => LostIsFetchedAgain
  BY DEF IInv
<1>2. QED
  BY <1>1, Inductive, PTL
=============================================================================
