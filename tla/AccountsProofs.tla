--------------------------- MODULE AccountsProofs ---------------------------
(***************************************************************************)
(* The safety of an account, for any number of requests, restarts and      *)
(* faults and any life of a reset token.  One lemma per inductive          *)
(* invariant, with one step per action.                                    *)
(***************************************************************************)
EXTENDS AccountCredentials, TLAPS

(* A step keeps every variable to its type.                                *)
LEMMA AccountTypeStep ==
    AccountTypeOK /\ [Next]_vars
        => AccountTypeOK'
<1> SUFFICES ASSUME AccountTypeOK,
                    [Next]_vars
             PROVE  AccountTypeOK'
  OBVIOUS
<1> USE RequestAssumption, AccountBounds DEF AllOps, Roles, Steps, MailSteps, Busy,
        rowVars, reqVars, mailVars, envVars, histVars
<1>1. ASSUME NEW q \in Request, Register(q) PROVE AccountTypeOK'
  BY <1>1 DEF Register, Start, AccountTypeOK
<1>2. ASSUME NEW q \in Request, Social(q) PROVE AccountTypeOK'
  BY <1>2 DEF Social, Start, AccountTypeOK
<1>3. ASSUME NEW q \in Request, Login(q) PROVE AccountTypeOK'
  BY <1>3 DEF Login, Start, AccountTypeOK
<1>4. ASSUME NEW q \in Request, Forgot(q) PROVE AccountTypeOK'
  BY <1>4 DEF Forgot, Start, AccountTypeOK
<1>5. ASSUME NEW q \in Request, NEW t \in Request, Reset(q, t)
      PROVE AccountTypeOK'
  BY <1>5 DEF Reset, Start, AccountTypeOK
<1>6. ASSUME NEW q \in Request, NEW o \in AllOps, ChangeRole(q, o)
      PROVE AccountTypeOK'
  BY <1>6 DEF ChangeRole, Start, FindById, AccountTypeOK
<1>7. ASSUME NEW q \in Request, FindAgain(q) PROVE AccountTypeOK'
  BY <1>7 DEF FindAgain, Goto, AccountTypeOK
<1>8. ASSUME NEW q \in Request, Insert(q) PROVE AccountTypeOK'
  BY <1>8 DEF Insert, NotTaken, Goto, AccountTypeOK
<1>9. ASSUME NEW q \in Request, InsertRefused(q) PROVE AccountTypeOK'
  BY <1>9 DEF InsertRefused, NotTaken, Goto, AccountTypeOK
<1>10. ASSUME NEW q \in Request, Load(q) PROVE AccountTypeOK'
  BY <1>10 DEF Load, FindById, Goto, AccountTypeOK
<1>11. ASSUME NEW q \in Request, Save(q) PROVE AccountTypeOK'
  BY <1>11 DEF Save, Goto, Retire, Written, Assigned, Grants, GrantedRole,
      AccountTypeOK
<1>12. ASSUME NEW q \in Request, Publish(q) PROVE AccountTypeOK'
  BY <1>12 DEF Publish, Goto, AccountTypeOK
<1>13. ASSUME NEW q \in Request, Deliver(q) PROVE AccountTypeOK'
  BY <1>13 DEF Deliver, MailGoto, AccountTypeOK
<1>14. ASSUME NEW q \in Request, SendMail(q) PROVE AccountTypeOK'
  BY <1>14 DEF SendMail, MailGoto, AccountTypeOK
<1>15. ASSUME NEW q \in Request, Ack(q) PROVE AccountTypeOK'
  BY <1>15 DEF Ack, MailGoto, AccountTypeOK
<1>16. ASSUME NEW q \in Request, RequestFault(q) PROVE AccountTypeOK'
  BY <1>16 DEF RequestFault, Goto, Fault, AccountTypeOK
<1>17. ASSUME NEW q \in Request, MailFault(q) PROVE AccountTypeOK'
  BY <1>17 DEF MailFault, MailGoto, Fault, AccountTypeOK
<1>18. ASSUME Crash PROVE AccountTypeOK'
  BY <1>18 DEF Crash, AfterRestart, Unsent, AccountTypeOK
<1>19. ASSUME Tick PROVE AccountTypeOK'
  <2>1. life' \in [Request -> 0..TokenTtl]
    <3>1. \A n \in 0..TokenTtl : Sooner(n) \in 0..TokenTtl
      BY DEF Sooner
    <3>2. life' = [q \in Request |-> Sooner(life[q])]
      BY <1>19 DEF Tick
    <3> QED
      BY <3>1, <3>2 DEF AccountTypeOK
  <2> QED
    BY <1>19, <2>1 DEF Tick, AccountTypeOK
<1>20. ASSUME NEW q \in Request, Enqueue(q) PROVE AccountTypeOK'
  BY <1>20 DEF Enqueue, MailGoto, AccountTypeOK
<1>21. ASSUME NEW q \in Request, PublishThrows(q)
      PROVE  AccountTypeOK'
  BY <1>21 DEF PublishThrows, Goto, AccountTypeOK
<1>22. ASSUME BrokerCloses PROVE AccountTypeOK'
  BY <1>22 DEF BrokerCloses, Unsent, Fault, AccountTypeOK
<1>23. CASE UNCHANGED vars
  BY <1>23 DEF vars, AccountTypeOK
<1> QED
  BY <1>1, <1>2, <1>3, <1>4, <1>5, <1>6, <1>7, <1>8, <1>9, <1>10, <1>11, <1>12,
      <1>13, <1>14, <1>15, <1>16, <1>17, <1>18, <1>19, <1>20,
      <1>21, <1>22, <1>23
  DEF Next, Client, RequestStep, MailStep

(* A step keeps operations, progress and the row together.                 *)
LEMMA StepsMatchStep ==
    AccountTypeOK /\ StepsMatch /\ CredentialsFresh /\ [Next]_vars
        => StepsMatch'
<1> SUFFICES ASSUME AccountTypeOK, StepsMatch, CredentialsFresh,
                    [Next]_vars
             PROVE  StepsMatch'
  OBVIOUS
<1> USE RequestAssumption, AccountBounds DEF AllOps, Roles, Steps, MailSteps, Busy,
        rowVars, reqVars, mailVars, envVars, histVars
<1>1. ASSUME NEW q \in Request, Register(q) PROVE StepsMatch'
  BY <1>1 DEF Register, Start, StepsMatch, AccountTypeOK
<1>2. ASSUME NEW q \in Request, Social(q) PROVE StepsMatch'
  BY <1>2 DEF Social, Start, StepsMatch, AccountTypeOK
<1>3. ASSUME NEW q \in Request, Login(q) PROVE StepsMatch'
  BY <1>3 DEF Login, Start, StepsMatch, AccountTypeOK
<1>4. ASSUME NEW q \in Request, Forgot(q) PROVE StepsMatch'
  BY <1>4 DEF Forgot, Start, StepsMatch, AccountTypeOK
<1>5. ASSUME NEW q \in Request, NEW t \in Request, Reset(q, t) PROVE StepsMatch'
  BY <1>5 DEF Reset, Start, StepsMatch, AccountTypeOK
<1>6. ASSUME NEW q \in Request, NEW o \in AllOps, ChangeRole(q, o)
      PROVE StepsMatch'
  BY <1>6 DEF ChangeRole, Start, FindById, StepsMatch, AccountTypeOK
<1>7. ASSUME NEW q \in Request, FindAgain(q) PROVE StepsMatch'
  BY <1>7 DEF FindAgain, Goto, StepsMatch
<1>8. ASSUME NEW q \in Request, Insert(q) PROVE StepsMatch'
  BY <1>8 DEF Insert, NotTaken, Goto, StepsMatch
<1>9. ASSUME NEW q \in Request, InsertRefused(q) PROVE StepsMatch'
  BY <1>9 DEF InsertRefused, NotTaken, Goto, StepsMatch
<1>10. ASSUME NEW q \in Request, Load(q) PROVE StepsMatch'
  BY <1>10 DEF Load, FindById, Goto, StepsMatch
<1>11. ASSUME NEW q \in Request, Save(q) PROVE StepsMatch'
  BY <1>11 DEF Save, Goto, Retire, Written, Assigned, Grants, GrantedRole,
      StepsMatch
<1>12. ASSUME NEW q \in Request, Publish(q) PROVE StepsMatch'
  BY <1>12 DEF Publish, Goto, StepsMatch
<1>13. ASSUME NEW q \in Request, Deliver(q) PROVE StepsMatch'
  BY <1>13 DEF Deliver, MailGoto, StepsMatch
<1>14. ASSUME NEW q \in Request, SendMail(q) PROVE StepsMatch'
  BY <1>14 DEF SendMail, MailGoto, StepsMatch
<1>15. ASSUME NEW q \in Request, Ack(q) PROVE StepsMatch'
  BY <1>15 DEF Ack, MailGoto, StepsMatch
<1>16. ASSUME NEW q \in Request, RequestFault(q) PROVE StepsMatch'
  BY <1>16 DEF RequestFault, Goto, Fault, StepsMatch
<1>17. ASSUME NEW q \in Request, MailFault(q) PROVE StepsMatch'
  BY <1>17 DEF MailFault, MailGoto, Fault, StepsMatch
<1>18. ASSUME Crash PROVE StepsMatch'
  BY <1>18 DEF Crash, AfterRestart, Unsent, StepsMatch
<1>19. ASSUME Tick PROVE StepsMatch'
  BY <1>19 DEF Tick, Sooner, StepsMatch
<1>20. ASSUME NEW q \in Request, Enqueue(q) PROVE StepsMatch'
  BY <1>20 DEF Enqueue, MailGoto, StepsMatch
<1>21. ASSUME NEW q \in Request, PublishThrows(q)
      PROVE  StepsMatch'
  BY <1>21 DEF PublishThrows, Goto, StepsMatch
<1>22. ASSUME BrokerCloses PROVE StepsMatch'
  BY <1>22 DEF BrokerCloses, Unsent, Fault, StepsMatch
<1>23. CASE UNCHANGED vars
  BY <1>23 DEF vars, StepsMatch
<1> QED
  BY <1>1, <1>2, <1>3, <1>4, <1>5, <1>6, <1>7, <1>8, <1>9, <1>10, <1>11, <1>12,
      <1>13, <1>14, <1>15, <1>16, <1>17, <1>18, <1>19, <1>20,
      <1>21, <1>22, <1>23
  DEF Next, Client, RequestStep, MailStep

(* A step stores no credential but its own, and only once.                 *)
LEMMA CredentialsFreshStep ==
    AccountTypeOK /\ StepsMatch /\ CredentialsFresh /\ [Next]_vars
        => CredentialsFresh'
<1> SUFFICES ASSUME AccountTypeOK, StepsMatch, CredentialsFresh,
                    [Next]_vars
             PROVE  CredentialsFresh'
  OBVIOUS
<1> USE RequestAssumption, AccountBounds DEF AllOps, Roles, Steps, MailSteps, Busy,
        rowVars, reqVars, mailVars, envVars, histVars
<1>1. ASSUME NEW q \in Request, Register(q) PROVE CredentialsFresh'
  BY <1>1 DEF Register, Start, CredentialsFresh
<1>2. ASSUME NEW q \in Request, Social(q) PROVE CredentialsFresh'
  BY <1>2 DEF Social, Start, CredentialsFresh
<1>3. ASSUME NEW q \in Request, Login(q) PROVE CredentialsFresh'
  BY <1>3 DEF Login, Start, CredentialsFresh
<1>4. ASSUME NEW q \in Request, Forgot(q) PROVE CredentialsFresh'
  BY <1>4 DEF Forgot, Start, CredentialsFresh
<1>5. ASSUME NEW q \in Request, NEW t \in Request, Reset(q, t)
      PROVE CredentialsFresh'
  BY <1>5 DEF Reset, Start, CredentialsFresh
<1>6. ASSUME NEW q \in Request, NEW o \in AllOps, ChangeRole(q, o)
      PROVE CredentialsFresh'
  BY <1>6 DEF ChangeRole, Start, FindById, CredentialsFresh, AccountTypeOK
<1>7. ASSUME NEW q \in Request, FindAgain(q) PROVE CredentialsFresh'
  BY <1>7 DEF FindAgain, Goto, CredentialsFresh
<1>8. ASSUME NEW q \in Request, Insert(q) PROVE CredentialsFresh'
  BY <1>8 DEF Insert, NotTaken, Goto, CredentialsFresh, AccountTypeOK
<1>9. ASSUME NEW q \in Request, InsertRefused(q) PROVE CredentialsFresh'
  BY <1>9 DEF InsertRefused, NotTaken, Goto, CredentialsFresh
<1>10. ASSUME NEW q \in Request, Load(q) PROVE CredentialsFresh'
  BY <1>10 DEF Load, FindById, Goto, CredentialsFresh, AccountTypeOK
<1>11. ASSUME NEW q \in Request, Save(q) PROVE CredentialsFresh'
  BY <1>11 DEF Save, Goto, Retire, Written, Assigned, Grants, GrantedRole,
      CredentialsFresh, AccountTypeOK
<1>12. ASSUME NEW q \in Request, Publish(q) PROVE CredentialsFresh'
  BY <1>12 DEF Publish, Goto, CredentialsFresh
<1>13. ASSUME NEW q \in Request, Deliver(q) PROVE CredentialsFresh'
  BY <1>13 DEF Deliver, MailGoto, CredentialsFresh
<1>14. ASSUME NEW q \in Request, SendMail(q) PROVE CredentialsFresh'
  BY <1>14 DEF SendMail, MailGoto, CredentialsFresh
<1>15. ASSUME NEW q \in Request, Ack(q) PROVE CredentialsFresh'
  BY <1>15 DEF Ack, MailGoto, CredentialsFresh
<1>16. ASSUME NEW q \in Request, RequestFault(q) PROVE CredentialsFresh'
  BY <1>16 DEF RequestFault, Goto, Fault, CredentialsFresh
<1>17. ASSUME NEW q \in Request, MailFault(q) PROVE CredentialsFresh'
  BY <1>17 DEF MailFault, MailGoto, Fault, CredentialsFresh
<1>18. ASSUME Crash PROVE CredentialsFresh'
  BY <1>18 DEF Crash, AfterRestart, Unsent, CredentialsFresh
<1>19. ASSUME Tick PROVE CredentialsFresh'
  BY <1>19 DEF Tick, Sooner, CredentialsFresh
<1>20. ASSUME NEW q \in Request, Enqueue(q) PROVE CredentialsFresh'
  BY <1>20 DEF Enqueue, MailGoto, CredentialsFresh
<1>21. ASSUME NEW q \in Request, PublishThrows(q)
      PROVE  CredentialsFresh'
  BY <1>21 DEF PublishThrows, Goto, CredentialsFresh
<1>22. ASSUME BrokerCloses PROVE CredentialsFresh'
  BY <1>22 DEF BrokerCloses, Unsent, Fault, CredentialsFresh
<1>23. CASE UNCHANGED vars
  BY <1>23 DEF vars, CredentialsFresh
<1> QED
  BY <1>1, <1>2, <1>3, <1>4, <1>5, <1>6, <1>7, <1>8, <1>9, <1>10, <1>11, <1>12,
      <1>13, <1>14, <1>15, <1>16, <1>17, <1>18, <1>19, <1>20,
      <1>21, <1>22, <1>23
  DEF Next, Client, RequestStep, MailStep

(* A step brings no credential back.                                       *)
LEMMA CredentialsStep ==
    AccountTypeOK /\ StepsMatch /\ CredentialsFresh /\ CredentialsNeverReturn
        /\ [Next]_vars
        => CredentialsNeverReturn'
<1> SUFFICES ASSUME AccountTypeOK, StepsMatch, CredentialsFresh,
                    CredentialsNeverReturn,
                    [Next]_vars
             PROVE  CredentialsNeverReturn'
  OBVIOUS
<1> USE RequestAssumption, AccountBounds DEF AllOps, Roles, Steps, MailSteps, Busy,
        rowVars, reqVars, mailVars, envVars, histVars
<1>1. ASSUME NEW q \in Request, Register(q) PROVE CredentialsNeverReturn'
  BY <1>1 DEF Register, Start, CredentialsNeverReturn
<1>2. ASSUME NEW q \in Request, Social(q) PROVE CredentialsNeverReturn'
  BY <1>2 DEF Social, Start, CredentialsNeverReturn
<1>3. ASSUME NEW q \in Request, Login(q) PROVE CredentialsNeverReturn'
  BY <1>3 DEF Login, Start, CredentialsNeverReturn
<1>4. ASSUME NEW q \in Request, Forgot(q) PROVE CredentialsNeverReturn'
  BY <1>4 DEF Forgot, Start, CredentialsNeverReturn
<1>5. ASSUME NEW q \in Request, NEW t \in Request, Reset(q, t)
      PROVE CredentialsNeverReturn'
  BY <1>5 DEF Reset, Start, CredentialsNeverReturn
<1>6. ASSUME NEW q \in Request, NEW o \in AllOps, ChangeRole(q, o)
      PROVE CredentialsNeverReturn'
  BY <1>6 DEF ChangeRole, Start, FindById, CredentialsNeverReturn
<1>7. ASSUME NEW q \in Request, FindAgain(q) PROVE CredentialsNeverReturn'
  BY <1>7 DEF FindAgain, Goto, CredentialsNeverReturn
<1>8. ASSUME NEW q \in Request, Insert(q) PROVE CredentialsNeverReturn'
  BY <1>8 DEF Insert, NotTaken, Goto, CredentialsNeverReturn, CredentialsFresh,
      StepsMatch
<1>9. ASSUME NEW q \in Request, InsertRefused(q) PROVE CredentialsNeverReturn'
  BY <1>9 DEF InsertRefused, NotTaken, Goto, CredentialsNeverReturn
<1>10. ASSUME NEW q \in Request, Load(q) PROVE CredentialsNeverReturn'
  BY <1>10 DEF Load, FindById, Goto, CredentialsNeverReturn
<1>11. ASSUME NEW q \in Request, Save(q) PROVE CredentialsNeverReturn'
  BY <1>11 DEF Save, Goto, Retire, Written, Assigned, Grants, GrantedRole,
      CredentialsNeverReturn, CredentialsFresh, AccountTypeOK
<1>12. ASSUME NEW q \in Request, Publish(q) PROVE CredentialsNeverReturn'
  BY <1>12 DEF Publish, Goto, CredentialsNeverReturn
<1>13. ASSUME NEW q \in Request, Deliver(q) PROVE CredentialsNeverReturn'
  BY <1>13 DEF Deliver, MailGoto, CredentialsNeverReturn
<1>14. ASSUME NEW q \in Request, SendMail(q) PROVE CredentialsNeverReturn'
  BY <1>14 DEF SendMail, MailGoto, CredentialsNeverReturn
<1>15. ASSUME NEW q \in Request, Ack(q) PROVE CredentialsNeverReturn'
  BY <1>15 DEF Ack, MailGoto, CredentialsNeverReturn
<1>16. ASSUME NEW q \in Request, RequestFault(q) PROVE CredentialsNeverReturn'
  BY <1>16 DEF RequestFault, Goto, Fault, CredentialsNeverReturn
<1>17. ASSUME NEW q \in Request, MailFault(q) PROVE CredentialsNeverReturn'
  BY <1>17 DEF MailFault, MailGoto, Fault, CredentialsNeverReturn
<1>18. ASSUME Crash PROVE CredentialsNeverReturn'
  BY <1>18 DEF Crash, AfterRestart, Unsent, CredentialsNeverReturn
<1>19. ASSUME Tick PROVE CredentialsNeverReturn'
  BY <1>19 DEF Tick, Sooner, CredentialsNeverReturn
<1>20. ASSUME NEW q \in Request, Enqueue(q) PROVE CredentialsNeverReturn'
  BY <1>20 DEF Enqueue, MailGoto, CredentialsNeverReturn
<1>21. ASSUME NEW q \in Request, PublishThrows(q)
      PROVE  CredentialsNeverReturn'
  BY <1>21 DEF PublishThrows, Goto, CredentialsNeverReturn
<1>22. ASSUME BrokerCloses PROVE CredentialsNeverReturn'
  BY <1>22 DEF BrokerCloses, Unsent, Fault, CredentialsNeverReturn
<1>23. CASE UNCHANGED vars
  BY <1>23 DEF vars, CredentialsNeverReturn
<1> QED
  BY <1>1, <1>2, <1>3, <1>4, <1>5, <1>6, <1>7, <1>8, <1>9, <1>10, <1>11, <1>12,
      <1>13, <1>14, <1>15, <1>16, <1>17, <1>18, <1>19, <1>20,
      <1>21, <1>22, <1>23
  DEF Next, Client, RequestStep, MailStep

(* A step keeps the account of an answered registration.                   *)
LEMMA RegistrationStep ==
    AccountTypeOK /\ StepsMatch /\ RegistrationStands /\ [Next]_vars
        => RegistrationStands'
<1> SUFFICES ASSUME AccountTypeOK, StepsMatch, RegistrationStands,
                    [Next]_vars
             PROVE  RegistrationStands'
  OBVIOUS
<1> USE RequestAssumption, AccountBounds DEF AllOps, Roles, Steps, MailSteps, Busy,
        rowVars, reqVars, mailVars, envVars, histVars
<1>1. ASSUME NEW q \in Request, Register(q) PROVE RegistrationStands'
  BY <1>1 DEF Register, Start, RegistrationStands
<1>2. ASSUME NEW q \in Request, Social(q) PROVE RegistrationStands'
  BY <1>2 DEF Social, Start, RegistrationStands
<1>3. ASSUME NEW q \in Request, Login(q) PROVE RegistrationStands'
  BY <1>3 DEF Login, Start, RegistrationStands
<1>4. ASSUME NEW q \in Request, Forgot(q) PROVE RegistrationStands'
  BY <1>4 DEF Forgot, Start, RegistrationStands
<1>5. ASSUME NEW q \in Request, NEW t \in Request, Reset(q, t)
      PROVE RegistrationStands'
  BY <1>5 DEF Reset, Start, RegistrationStands
<1>6. ASSUME NEW q \in Request, NEW o \in AllOps, ChangeRole(q, o)
      PROVE RegistrationStands'
  BY <1>6 DEF ChangeRole, Start, FindById, RegistrationStands
<1>7. ASSUME NEW q \in Request, FindAgain(q) PROVE RegistrationStands'
  BY <1>7 DEF FindAgain, Goto, RegistrationStands
<1>8. ASSUME NEW q \in Request, Insert(q) PROVE RegistrationStands'
  BY <1>8 DEF Insert, NotTaken, Goto, RegistrationStands
<1>9. ASSUME NEW q \in Request, InsertRefused(q) PROVE RegistrationStands'
  BY <1>9 DEF InsertRefused, NotTaken, Goto, RegistrationStands
<1>10. ASSUME NEW q \in Request, Load(q) PROVE RegistrationStands'
  BY <1>10 DEF Load, FindById, Goto, RegistrationStands
<1>11. ASSUME NEW q \in Request, Save(q) PROVE RegistrationStands'
  BY <1>11 DEF Save, Goto, Retire, Written, Assigned, Grants, GrantedRole,
      RegistrationStands, StepsMatch
<1>12. ASSUME NEW q \in Request, Publish(q) PROVE RegistrationStands'
  BY <1>12 DEF Publish, Goto, RegistrationStands, StepsMatch
<1>13. ASSUME NEW q \in Request, Deliver(q) PROVE RegistrationStands'
  BY <1>13 DEF Deliver, MailGoto, RegistrationStands
<1>14. ASSUME NEW q \in Request, SendMail(q) PROVE RegistrationStands'
  BY <1>14 DEF SendMail, MailGoto, RegistrationStands
<1>15. ASSUME NEW q \in Request, Ack(q) PROVE RegistrationStands'
  BY <1>15 DEF Ack, MailGoto, RegistrationStands
<1>16. ASSUME NEW q \in Request, RequestFault(q) PROVE RegistrationStands'
  BY <1>16 DEF RequestFault, Goto, Fault, RegistrationStands
<1>17. ASSUME NEW q \in Request, MailFault(q) PROVE RegistrationStands'
  BY <1>17 DEF MailFault, MailGoto, Fault, RegistrationStands
<1>18. ASSUME Crash PROVE RegistrationStands'
  BY <1>18 DEF Crash, AfterRestart, Unsent, RegistrationStands
<1>19. ASSUME Tick PROVE RegistrationStands'
  BY <1>19 DEF Tick, Sooner, RegistrationStands
<1>20. ASSUME NEW q \in Request, Enqueue(q) PROVE RegistrationStands'
  BY <1>20 DEF Enqueue, MailGoto, RegistrationStands
<1>21. ASSUME NEW q \in Request, PublishThrows(q)
      PROVE  RegistrationStands'
  BY <1>21 DEF PublishThrows, Goto, RegistrationStands
<1>22. ASSUME BrokerCloses PROVE RegistrationStands'
  BY <1>22 DEF BrokerCloses, Unsent, Fault, RegistrationStands
<1>23. CASE UNCHANGED vars
  BY <1>23 DEF vars, RegistrationStands
<1> QED
  BY <1>1, <1>2, <1>3, <1>4, <1>5, <1>6, <1>7, <1>8, <1>9, <1>10, <1>11, <1>12,
      <1>13, <1>14, <1>15, <1>16, <1>17, <1>18, <1>19, <1>20,
      <1>21, <1>22, <1>23
  DEF Next, Client, RequestStep, MailStep

(* A step publishes no link that is not stored.                            *)
LEMMA LinksStep ==
    AccountTypeOK /\ StepsMatch /\ CredentialsFresh /\ LinksAreStored
        /\ [Next]_vars
        => LinksAreStored'
<1> SUFFICES ASSUME AccountTypeOK, StepsMatch, CredentialsFresh, LinksAreStored,
                    [Next]_vars
             PROVE  LinksAreStored'
  OBVIOUS
<1> USE RequestAssumption, AccountBounds DEF AllOps, Roles, Steps, MailSteps, Busy,
        rowVars, reqVars, mailVars, envVars, histVars
<1>1. ASSUME NEW q \in Request, Register(q) PROVE LinksAreStored'
  BY <1>1 DEF Register, Start, LinksAreStored
<1>2. ASSUME NEW q \in Request, Social(q) PROVE LinksAreStored'
  BY <1>2 DEF Social, Start, LinksAreStored, StepsMatch
<1>3. ASSUME NEW q \in Request, Login(q) PROVE LinksAreStored'
  BY <1>3 DEF Login, Start, LinksAreStored, StepsMatch
<1>4. ASSUME NEW q \in Request, Forgot(q) PROVE LinksAreStored'
  BY <1>4 DEF Forgot, Start, LinksAreStored
<1>5. ASSUME NEW q \in Request, NEW t \in Request, Reset(q, t)
      PROVE LinksAreStored'
  BY <1>5 DEF Reset, Start, LinksAreStored
<1>6. ASSUME NEW q \in Request, NEW o \in AllOps, ChangeRole(q, o)
      PROVE LinksAreStored'
  BY <1>6 DEF ChangeRole, Start, FindById, LinksAreStored
<1>7. ASSUME NEW q \in Request, FindAgain(q) PROVE LinksAreStored'
  BY <1>7 DEF FindAgain, Goto, LinksAreStored
<1>8. ASSUME NEW q \in Request, Insert(q) PROVE LinksAreStored'
  BY <1>8 DEF Insert, NotTaken, Goto, LinksAreStored, StepsMatch
<1>9. ASSUME NEW q \in Request, InsertRefused(q) PROVE LinksAreStored'
  BY <1>9 DEF InsertRefused, NotTaken, Goto, LinksAreStored
<1>10. ASSUME NEW q \in Request, Load(q) PROVE LinksAreStored'
  BY <1>10 DEF Load, FindById, Goto, LinksAreStored
<1>11. ASSUME NEW q \in Request, Save(q) PROVE LinksAreStored'
  BY <1>11 DEF Save, Goto, Retire, Written, Assigned, Grants, GrantedRole,
      LinksAreStored, CredentialsFresh
<1>12. ASSUME NEW q \in Request, Publish(q) PROVE LinksAreStored'
  BY <1>12 DEF Publish, Goto, LinksAreStored, AccountTypeOK
<1>13. ASSUME NEW q \in Request, Deliver(q) PROVE LinksAreStored'
  BY <1>13 DEF Deliver, MailGoto, LinksAreStored
<1>14. ASSUME NEW q \in Request, SendMail(q) PROVE LinksAreStored'
  BY <1>14 DEF SendMail, MailGoto, LinksAreStored
<1>15. ASSUME NEW q \in Request, Ack(q) PROVE LinksAreStored'
  BY <1>15 DEF Ack, MailGoto, LinksAreStored
<1>16. ASSUME NEW q \in Request, RequestFault(q) PROVE LinksAreStored'
  BY <1>16 DEF RequestFault, Goto, Fault, LinksAreStored, AccountTypeOK
<1>17. ASSUME NEW q \in Request, MailFault(q) PROVE LinksAreStored'
  BY <1>17 DEF MailFault, MailGoto, Fault, LinksAreStored, AccountTypeOK
<1>18. ASSUME Crash PROVE LinksAreStored'
  BY <1>18 DEF Crash, AfterRestart, Unsent, LinksAreStored, AccountTypeOK
<1>19. ASSUME Tick PROVE LinksAreStored'
  BY <1>19 DEF Tick, Sooner, LinksAreStored
<1>20. ASSUME NEW q \in Request, Enqueue(q) PROVE LinksAreStored'
  BY <1>20 DEF Enqueue, MailGoto, LinksAreStored
<1>21. ASSUME NEW q \in Request, PublishThrows(q)
      PROVE  LinksAreStored'
  BY <1>21 DEF PublishThrows, Goto, LinksAreStored
<1>22. ASSUME BrokerCloses PROVE LinksAreStored'
  BY <1>22 DEF BrokerCloses, Unsent, Fault, LinksAreStored, AccountTypeOK
<1>23. CASE UNCHANGED vars
  BY <1>23 DEF vars, LinksAreStored
<1> QED
  BY <1>1, <1>2, <1>3, <1>4, <1>5, <1>6, <1>7, <1>8, <1>9, <1>10, <1>11, <1>12,
      <1>13, <1>14, <1>15, <1>16, <1>17, <1>18, <1>19, <1>20,
      <1>21, <1>22, <1>23
  DEF Next, Client, RequestStep, MailStep

(* A step spends the link of the reset it ends.                            *)
LEMMA ResetsStep ==
    AccountTypeOK /\ StepsMatch /\ CredentialsFresh /\ LinksAreStored
        /\ ResetsSpendLinks /\ [Next]_vars
        => ResetsSpendLinks'
<1> SUFFICES ASSUME AccountTypeOK, StepsMatch, CredentialsFresh,
                    LinksAreStored, ResetsSpendLinks,
                    [Next]_vars
             PROVE  ResetsSpendLinks'
  OBVIOUS
<1> USE RequestAssumption, AccountBounds DEF AllOps, Roles, Steps, MailSteps, Busy,
        rowVars, reqVars, mailVars, envVars, histVars
<1>1. ASSUME NEW q \in Request, Register(q) PROVE ResetsSpendLinks'
  BY <1>1 DEF Register, Start, ResetsSpendLinks, CredentialsFresh
<1>2. ASSUME NEW q \in Request, Social(q) PROVE ResetsSpendLinks'
  BY <1>2 DEF Social, Start, ResetsSpendLinks, CredentialsFresh
<1>3. ASSUME NEW q \in Request, Login(q) PROVE ResetsSpendLinks'
  BY <1>3 DEF Login, Start, ResetsSpendLinks, CredentialsFresh
<1>4. ASSUME NEW q \in Request, Forgot(q) PROVE ResetsSpendLinks'
  BY <1>4 DEF Forgot, Start, ResetsSpendLinks
<1>5. ASSUME NEW q \in Request, NEW t \in Request, Reset(q, t)
      PROVE ResetsSpendLinks'
  BY <1>5 DEF Reset, Start, ResetsSpendLinks, CredentialsFresh, AccountTypeOK
<1>6. ASSUME NEW q \in Request, NEW o \in AllOps, ChangeRole(q, o)
      PROVE ResetsSpendLinks'
  BY <1>6 DEF ChangeRole, Start, FindById, ResetsSpendLinks, CredentialsFresh
<1>7. ASSUME NEW q \in Request, FindAgain(q) PROVE ResetsSpendLinks'
  BY <1>7 DEF FindAgain, Goto, ResetsSpendLinks
<1>8. ASSUME NEW q \in Request, Insert(q) PROVE ResetsSpendLinks'
  BY <1>8 DEF Insert, NotTaken, Goto, ResetsSpendLinks
<1>9. ASSUME NEW q \in Request, InsertRefused(q) PROVE ResetsSpendLinks'
  BY <1>9 DEF InsertRefused, NotTaken, Goto, ResetsSpendLinks
<1>10. ASSUME NEW q \in Request, Load(q) PROVE ResetsSpendLinks'
  BY <1>10 DEF Load, FindById, Goto, ResetsSpendLinks
<1>11. ASSUME NEW q \in Request, Save(q) PROVE ResetsSpendLinks'
  BY <1>11 DEF Save, Goto, Retire, Written, Assigned, Grants, GrantedRole,
      ResetsSpendLinks, CredentialsFresh
<1>12. ASSUME NEW q \in Request, Publish(q) PROVE ResetsSpendLinks'
  BY <1>12 DEF Publish, Goto, ResetsSpendLinks, StepsMatch
<1>13. ASSUME NEW q \in Request, Deliver(q) PROVE ResetsSpendLinks'
  BY <1>13 DEF Deliver, MailGoto, ResetsSpendLinks
<1>14. ASSUME NEW q \in Request, SendMail(q) PROVE ResetsSpendLinks'
  BY <1>14 DEF SendMail, MailGoto, ResetsSpendLinks
<1>15. ASSUME NEW q \in Request, Ack(q) PROVE ResetsSpendLinks'
  BY <1>15 DEF Ack, MailGoto, ResetsSpendLinks
<1>16. ASSUME NEW q \in Request, RequestFault(q) PROVE ResetsSpendLinks'
  BY <1>16 DEF RequestFault, Goto, Fault, ResetsSpendLinks
<1>17. ASSUME NEW q \in Request, MailFault(q) PROVE ResetsSpendLinks'
  BY <1>17 DEF MailFault, MailGoto, Fault, ResetsSpendLinks
<1>18. ASSUME Crash PROVE ResetsSpendLinks'
  BY <1>18 DEF Crash, AfterRestart, Unsent, ResetsSpendLinks
<1>19. ASSUME Tick PROVE ResetsSpendLinks'
  BY <1>19 DEF Tick, Sooner, ResetsSpendLinks
<1>20. ASSUME NEW q \in Request, Enqueue(q) PROVE ResetsSpendLinks'
  BY <1>20 DEF Enqueue, MailGoto, ResetsSpendLinks
<1>21. ASSUME NEW q \in Request, PublishThrows(q)
      PROVE  ResetsSpendLinks'
  BY <1>21 DEF PublishThrows, Goto, ResetsSpendLinks
<1>22. ASSUME BrokerCloses PROVE ResetsSpendLinks'
  BY <1>22 DEF BrokerCloses, Unsent, Fault, ResetsSpendLinks
<1>23. CASE UNCHANGED vars
  BY <1>23 DEF vars, ResetsSpendLinks
<1> QED
  BY <1>1, <1>2, <1>3, <1>4, <1>5, <1>6, <1>7, <1>8, <1>9, <1>10, <1>11, <1>12,
      <1>13, <1>14, <1>15, <1>16, <1>17, <1>18, <1>19, <1>20,
      <1>21, <1>22, <1>23
  DEF Next, Client, RequestStep, MailStep

(* A step begins no reset by a link that was used.                         *)
LEMMA OneResetStep ==
    AccountTypeOK /\ StepsMatch /\ CredentialsNeverReturn /\ LinksAreStored
        /\ ResetsSpendLinks /\ OneResetPerLink /\ [Next]_vars
        => OneResetPerLink'
<1> SUFFICES ASSUME AccountTypeOK, StepsMatch, CredentialsNeverReturn,
                    LinksAreStored, ResetsSpendLinks, OneResetPerLink,
                    [Next]_vars
             PROVE  OneResetPerLink'
  OBVIOUS
<1> USE RequestAssumption, AccountBounds DEF AllOps, Roles, Steps, MailSteps, Busy,
        rowVars, reqVars, mailVars, envVars, histVars
<1>1. ASSUME NEW q \in Request, Register(q) PROVE OneResetPerLink'
  BY <1>1 DEF Register, Start, OneResetPerLink
<1>2. ASSUME NEW q \in Request, Social(q) PROVE OneResetPerLink'
  BY <1>2 DEF Social, Start, OneResetPerLink
<1>3. ASSUME NEW q \in Request, Login(q) PROVE OneResetPerLink'
  BY <1>3 DEF Login, Start, OneResetPerLink
<1>4. ASSUME NEW q \in Request, Forgot(q) PROVE OneResetPerLink'
  BY <1>4 DEF Forgot, Start, OneResetPerLink
<1>5. ASSUME NEW q \in Request, NEW t \in Request, Reset(q, t)
      PROVE OneResetPerLink'
  BY <1>5 DEF Reset, Start, OneResetPerLink, ResetsSpendLinks,
      CredentialsNeverReturn, AccountTypeOK
<1>6. ASSUME NEW q \in Request, NEW o \in AllOps, ChangeRole(q, o)
      PROVE OneResetPerLink'
  BY <1>6 DEF ChangeRole, Start, FindById, OneResetPerLink
<1>7. ASSUME NEW q \in Request, FindAgain(q) PROVE OneResetPerLink'
  BY <1>7 DEF FindAgain, Goto, OneResetPerLink
<1>8. ASSUME NEW q \in Request, Insert(q) PROVE OneResetPerLink'
  BY <1>8 DEF Insert, NotTaken, Goto, OneResetPerLink
<1>9. ASSUME NEW q \in Request, InsertRefused(q) PROVE OneResetPerLink'
  BY <1>9 DEF InsertRefused, NotTaken, Goto, OneResetPerLink
<1>10. ASSUME NEW q \in Request, Load(q) PROVE OneResetPerLink'
  BY <1>10 DEF Load, FindById, Goto, OneResetPerLink
<1>11. ASSUME NEW q \in Request, Save(q) PROVE OneResetPerLink'
  BY <1>11 DEF Save, Goto, Retire, Written, Assigned, Grants, GrantedRole,
      OneResetPerLink
<1>12. ASSUME NEW q \in Request, Publish(q) PROVE OneResetPerLink'
  BY <1>12 DEF Publish, Goto, OneResetPerLink
<1>13. ASSUME NEW q \in Request, Deliver(q) PROVE OneResetPerLink'
  BY <1>13 DEF Deliver, MailGoto, OneResetPerLink
<1>14. ASSUME NEW q \in Request, SendMail(q) PROVE OneResetPerLink'
  BY <1>14 DEF SendMail, MailGoto, OneResetPerLink
<1>15. ASSUME NEW q \in Request, Ack(q) PROVE OneResetPerLink'
  BY <1>15 DEF Ack, MailGoto, OneResetPerLink
<1>16. ASSUME NEW q \in Request, RequestFault(q) PROVE OneResetPerLink'
  BY <1>16 DEF RequestFault, Goto, Fault, OneResetPerLink
<1>17. ASSUME NEW q \in Request, MailFault(q) PROVE OneResetPerLink'
  BY <1>17 DEF MailFault, MailGoto, Fault, OneResetPerLink
<1>18. ASSUME Crash PROVE OneResetPerLink'
  BY <1>18 DEF Crash, AfterRestart, Unsent, OneResetPerLink
<1>19. ASSUME Tick PROVE OneResetPerLink'
  BY <1>19 DEF Tick, Sooner, OneResetPerLink
<1>20. ASSUME NEW q \in Request, Enqueue(q) PROVE OneResetPerLink'
  BY <1>20 DEF Enqueue, MailGoto, OneResetPerLink
<1>21. ASSUME NEW q \in Request, PublishThrows(q)
      PROVE  OneResetPerLink'
  BY <1>21 DEF PublishThrows, Goto, OneResetPerLink
<1>22. ASSUME BrokerCloses PROVE OneResetPerLink'
  BY <1>22 DEF BrokerCloses, Unsent, Fault, OneResetPerLink
<1>23. CASE UNCHANGED vars
  BY <1>23 DEF vars, OneResetPerLink
<1> QED
  BY <1>1, <1>2, <1>3, <1>4, <1>5, <1>6, <1>7, <1>8, <1>9, <1>10, <1>11, <1>12,
      <1>13, <1>14, <1>15, <1>16, <1>17, <1>18, <1>19, <1>20,
      <1>21, <1>22, <1>23
  DEF Next, Client, RequestStep, MailStep

(* A step keeps the granted role in the row and in the rows in memory.     *)
LEMMA RolesStep ==
    AccountTypeOK /\ StepsMatch /\ CredentialsFresh /\ LoadedRoles
        /\ RoleAsGranted /\ [Next]_vars
        => (LoadedRoles /\ RoleAsGranted)'
<1> SUFFICES ASSUME AccountTypeOK, StepsMatch, CredentialsFresh, LoadedRoles,
                    RoleAsGranted,
                    [Next]_vars
             PROVE  (LoadedRoles /\ RoleAsGranted)'
  OBVIOUS
<1> USE RequestAssumption, AccountBounds DEF AllOps, Roles, Steps, MailSteps, Busy,
        rowVars, reqVars, mailVars, envVars, histVars
<1>1. ASSUME NEW q \in Request, Register(q)
      PROVE (LoadedRoles /\ RoleAsGranted)'
  BY <1>1 DEF Register, Start, LoadedRoles, RoleAsGranted
<1>2. ASSUME NEW q \in Request, Social(q) PROVE (LoadedRoles /\ RoleAsGranted)'
  BY <1>2 DEF Social, Start, LoadedRoles, RoleAsGranted
<1>3. ASSUME NEW q \in Request, Login(q) PROVE (LoadedRoles /\ RoleAsGranted)'
  BY <1>3 DEF Login, Start, LoadedRoles, RoleAsGranted
<1>4. ASSUME NEW q \in Request, Forgot(q) PROVE (LoadedRoles /\ RoleAsGranted)'
  BY <1>4 DEF Forgot, Start, LoadedRoles, RoleAsGranted
<1>5. ASSUME NEW q \in Request, NEW t \in Request, Reset(q, t)
      PROVE (LoadedRoles /\ RoleAsGranted)'
  BY <1>5 DEF Reset, Start, LoadedRoles, RoleAsGranted
<1>6. ASSUME NEW q \in Request, NEW o \in AllOps, ChangeRole(q, o)
      PROVE (LoadedRoles /\ RoleAsGranted)'
  BY <1>6 DEF ChangeRole, Start, FindById, LoadedRoles, RoleAsGranted, AccountTypeOK
<1>7. ASSUME NEW q \in Request, FindAgain(q)
      PROVE (LoadedRoles /\ RoleAsGranted)'
  BY <1>7 DEF FindAgain, Goto, LoadedRoles, RoleAsGranted
<1>8. ASSUME NEW q \in Request, Insert(q) PROVE (LoadedRoles /\ RoleAsGranted)'
  BY <1>8 DEF Insert, NotTaken, Goto, LoadedRoles, RoleAsGranted, StepsMatch
<1>9. ASSUME NEW q \in Request, InsertRefused(q)
      PROVE (LoadedRoles /\ RoleAsGranted)'
  BY <1>9 DEF InsertRefused, NotTaken, Goto, LoadedRoles, RoleAsGranted
<1>10. ASSUME NEW q \in Request, Load(q) PROVE (LoadedRoles /\ RoleAsGranted)'
  BY <1>10 DEF Load, FindById, Goto, LoadedRoles, RoleAsGranted, AccountTypeOK
<1>11. ASSUME NEW q \in Request, Save(q) PROVE (LoadedRoles /\ RoleAsGranted)'
  <2>1. RoleAsGranted'
    <3>1. CASE Grants(q)
      BY <1>11, <3>1 DEF Save, RoleAsGranted
    <3>2. CASE ~Grants(q)
      <4>1. Assigned(q).role = loaded[q].role
        BY <3>2 DEF Assigned
      <4> QED
        BY <1>11, <3>2, <4>1 DEF Save, Written, RoleAsGranted, LoadedRoles
    <3> QED
      BY <3>1, <3>2
  <2>2. LoadedRoles'
    BY <1>11 DEF Save, Goto, LoadedRoles, AccountTypeOK
  <2> QED
    BY <2>1, <2>2
<1>12. ASSUME NEW q \in Request, Publish(q)
      PROVE (LoadedRoles /\ RoleAsGranted)'
  BY <1>12 DEF Publish, Goto, LoadedRoles, RoleAsGranted
<1>13. ASSUME NEW q \in Request, Deliver(q)
      PROVE (LoadedRoles /\ RoleAsGranted)'
  BY <1>13 DEF Deliver, MailGoto, LoadedRoles, RoleAsGranted
<1>14. ASSUME NEW q \in Request, SendMail(q)
      PROVE (LoadedRoles /\ RoleAsGranted)'
  BY <1>14 DEF SendMail, MailGoto, LoadedRoles, RoleAsGranted
<1>15. ASSUME NEW q \in Request, Ack(q) PROVE (LoadedRoles /\ RoleAsGranted)'
  BY <1>15 DEF Ack, MailGoto, LoadedRoles, RoleAsGranted
<1>16. ASSUME NEW q \in Request, RequestFault(q)
      PROVE (LoadedRoles /\ RoleAsGranted)'
  BY <1>16 DEF RequestFault, Goto, Fault, LoadedRoles, RoleAsGranted
<1>17. ASSUME NEW q \in Request, MailFault(q)
      PROVE (LoadedRoles /\ RoleAsGranted)'
  BY <1>17 DEF MailFault, MailGoto, Fault, LoadedRoles, RoleAsGranted
<1>18. ASSUME Crash PROVE (LoadedRoles /\ RoleAsGranted)'
  BY <1>18 DEF Crash, AfterRestart, Unsent, LoadedRoles, RoleAsGranted
<1>19. ASSUME Tick PROVE (LoadedRoles /\ RoleAsGranted)'
  BY <1>19 DEF Tick, Sooner, LoadedRoles, RoleAsGranted
<1>20. ASSUME NEW q \in Request, Enqueue(q) PROVE (LoadedRoles /\ RoleAsGranted)'
  BY <1>20 DEF Enqueue, MailGoto, LoadedRoles, RoleAsGranted
<1>21. ASSUME NEW q \in Request, PublishThrows(q)
      PROVE  (LoadedRoles /\ RoleAsGranted)'
  BY <1>21 DEF PublishThrows, Goto, LoadedRoles, RoleAsGranted
<1>22. ASSUME BrokerCloses PROVE (LoadedRoles /\ RoleAsGranted)'
  BY <1>22 DEF BrokerCloses, Unsent, Fault, LoadedRoles, RoleAsGranted
<1>23. CASE UNCHANGED vars
  BY <1>23 DEF vars, LoadedRoles, RoleAsGranted
<1> QED
  BY <1>1, <1>2, <1>3, <1>4, <1>5, <1>6, <1>7, <1>8, <1>9, <1>10, <1>11, <1>12,
      <1>13, <1>14, <1>15, <1>16, <1>17, <1>18, <1>19, <1>20,
      <1>21, <1>22, <1>23
  DEF Next, Client, RequestStep, MailStep

----------------------------------------------------------------------------
(* The inductive invariant: the properties and what their steps need.      *)
AccountInv ==
    /\ AccountTypeOK /\ StepsMatch
    /\ CredentialsFresh /\ CredentialsNeverReturn
    /\ RegistrationStands
    /\ LinksAreStored /\ ResetsSpendLinks /\ OneResetPerLink
    /\ LoadedRoles /\ RoleAsGranted

(* It holds of a newly seeded database.                                    *)
LEMMA AccountInit == Init => AccountInv
<1> SUFFICES ASSUME Init PROVE AccountInv
  OBVIOUS
<1> USE RequestAssumption, AccountBounds DEF Init
<1>1. AccountTypeOK
  <2>1. role \in Roles /\ granted \in Roles
    BY DEF Roles
  <2>2. /\ life \in [Request -> 0..TokenTtl]
        /\ crashes \in 0..MaxCrashes /\ faults \in 0..MaxFaults
    OBVIOUS
  <2>3. loaded \in [Request -> [role : Roles \cup {Undefined},
                                password : Request \cup {Seed, None, Undefined},
                                token : Request \cup {None, Undefined}]]
    BY DEF NoRow
  <2>4. /\ op \in [Request -> AllOps \cup {"none"}]
        /\ step \in [Request -> Steps]
        /\ mail \in [Request -> MailSteps]
    BY DEF Steps, MailSteps
  <2>5. before \in [Request -> SUBSET Request]
    OBVIOUS
  <2> QED
    BY <2>1, <2>2, <2>3, <2>4, <2>5 DEF AccountTypeOK
<1>2. StepsMatch
  BY DEF StepsMatch
<1>3. CredentialsFresh
  BY DEF CredentialsFresh
<1>4. CredentialsNeverReturn
  BY DEF CredentialsNeverReturn
<1>5. RegistrationStands
  BY DEF RegistrationStands
<1>6. LinksAreStored
  BY DEF LinksAreStored
<1>7. ResetsSpendLinks
  BY DEF ResetsSpendLinks
<1>8. OneResetPerLink
  BY DEF OneResetPerLink
<1>9. LoadedRoles /\ RoleAsGranted
  BY DEF LoadedRoles, RoleAsGranted
<1> QED
  BY <1>1, <1>2, <1>3, <1>4, <1>5, <1>6, <1>7, <1>8, <1>9 DEF AccountInv

(* Every reachable state satisfies the inductive invariant.                *)
LEMMA AccountInvariant == Spec => []AccountInv
<1>1. AccountInv /\ [Next]_vars => AccountInv'
  BY AccountTypeStep, StepsMatchStep, CredentialsFreshStep, CredentialsStep,
     RegistrationStep, LinksStep, ResetsStep, OneResetStep, RolesStep
  DEF AccountInv
<1> QED
  BY AccountInit, <1>1, PTL DEF Spec

----------------------------------------------------------------------------
(* Every variable stays within the values the code gives it.               *)
THEOREM AccountTypeCorrect == Spec => []AccountTypeOK
<1>1. AccountInv => AccountTypeOK
  BY DEF AccountInv
<1> QED
  BY AccountInvariant, <1>1, PTL

(* Whatever registrations and first social logins overlap, one that was    *)
(* answered with success owns the account (AuthService.register).          *)
THEOREM RegistrationsStand == Spec => []RegistrationStands
<1>1. AccountInv => RegistrationStands
  BY DEF AccountInv
<1> QED
  BY AccountInvariant, <1>1, PTL

(* No save of a row that was loaded before brings a replaced password or   *)
(* reset token back (UsersService.update after findById).                  *)
THEOREM ReplacedCredentialsNeverReturn == Spec => []CredentialsNeverReturn
<1>1. AccountInv => CredentialsNeverReturn
  BY DEF AccountInv
<1> QED
  BY AccountInvariant, <1>1, PTL

(* A mailed link is, or was until it was replaced, the account's token     *)
(* (AuthService.forgotPassword saves it before it publishes it).           *)
THEOREM MailedLinksWereStored == Spec => []MailedLinkWasStored
<1>1. AccountInv => MailedLinkWasStored
  BY DEF AccountInv, AccountTypeOK, LinksAreStored, MailedLinkWasStored
<1> QED
  BY AccountInvariant, <1>1, PTL

(* No reset begins by a link after another reset by that link is done      *)
(* (AuthService.resetPassword clears the token with the same save).        *)
THEOREM ResetsByOneLinkOverlap == Spec => []OneResetPerLink
<1>1. AccountInv => OneResetPerLink
  BY DEF AccountInv
<1> QED
  BY AccountInvariant, <1>1, PTL

(* Only the save of a row loaded before the last change of role can undo   *)
(* that change (UsersService.update saves the role it has loaded).         *)
THEOREM RolesAreAsGranted == Spec => []RoleAsGranted
<1>1. AccountInv => RoleAsGranted
  BY DEF AccountInv
<1> QED
  BY AccountInvariant, <1>1, PTL

(* No restart or redelivery loses the link of an answered request, unless  *)
(* it was in transit to the broker (RabbitMQService.publish waits for no    *)
(* confirmation): the mail consumer acknowledges a message after it has    *)
(* sent it.                                                                *)
THEOREM LinksAreNotLost == Spec => []LinkNotLost
<1>1. AccountInv => LinkNotLost
  BY DEF AccountInv, AccountTypeOK, MailSteps, LinksAreStored, LinkNotLost
<1> QED
  BY AccountInvariant, <1>1, PTL

----------------------------------------------------------------------------
(* The refinement.  A step that changes none of this is none of the        *)
(* abstract account's business.                                            *)
Untouched == UNCHANGED <<account, password, token, spent, Valid, MailedLinks, Claims>>

(* A save stores a link or carries out a reset; a change of role touches   *)
(* neither, for its row was loaded without them.                           *)
LEMMA SaveStores ==
    ASSUME AccountInv, NEW q \in Request, Save(q)
    PROVE  Owner!Store(q) \/ Owner!Redeem(q) \/ Untouched
<1> USE RequestAssumption DEF AccountInv, AccountTypeOK
<1>1. /\ step[q] = "save" /\ account # None
      /\ op[q] \in {"forgot", "reset", "promote", "demote"}
      /\ q \notin spent /\ q # password /\ q # token
      /\ loaded[q].password = Undefined /\ loaded[q].token = Undefined
  BY DEF Save, StepsMatch, CredentialsFresh
<1>2. password = token => token = None
  BY DEF CredentialsFresh
<1>3. /\ UNCHANGED <<account, op, life, mailed, loaded>>
      /\ step' = [step EXCEPT ![q] = IF op[q] = "forgot" THEN "publish" ELSE "done"]
      /\ password' = Written(Assigned(q).password, password)
      /\ token' = Written(Assigned(q).token, token)
      /\ Retire({password, token}, {password', token'})
  BY DEF Save, Goto, mailVars
<1>4. UNCHANGED <<Valid, MailedLinks>>
  BY <1>3 DEF Valid, MailedLinks
<1>5. Claims' = Claims \ {q}
  BY <1>1, <1>3 DEF Claims
<1>6. CASE op[q] = "forgot"
  <2>1. password' = password /\ token' = q
    BY <1>1, <1>3, <1>6 DEF Assigned, Written
  <2>2. spent' = spent \cup ({token} \ {None})
    BY <1>1, <1>2, <1>3, <2>1 DEF Retire
  <2>3. q \notin Claims
    BY <1>6 DEF Claims
  <2> QED
    BY <1>1, <1>3, <1>4, <1>5, <2>1, <2>2, <2>3 DEF Owner!Store, Owner!Stored, Owner!Replace
<1>7. CASE op[q] = "reset"
  <2>1. password' = q /\ token' = None
    BY <1>1, <1>3, <1>7 DEF Assigned, Written
  <2>2. spent' = spent \cup ({password, token} \ {None})
    BY <1>1, <1>3, <2>1 DEF Retire
  <2>3. q \in Claims
    BY <1>1, <1>7 DEF Claims
  <2> QED
    BY <1>3, <1>4, <1>5, <2>1, <2>2, <2>3 DEF Owner!Redeem, Owner!Replace
<1>8. CASE op[q] \in {"promote", "demote"}
  <2>1. UNCHANGED <<password, token>>
    BY <1>1, <1>3, <1>8 DEF Assigned, Written
  <2>2. UNCHANGED spent
    BY <1>3, <2>1 DEF Retire
  <2>3. q \notin Claims
    BY <1>8 DEF Claims
  <2> QED
    BY <1>3, <1>4, <1>5, <2>1, <2>2, <2>3 DEF Untouched
<1> QED
  BY <1>1, <1>6, <1>7, <1>8

(* A step of the code is a step of the abstract account, or none.          *)
LEMMA OwnerStep ==
    ASSUME AccountInv, [Next]_vars
    PROVE  Owner!Next \/ Untouched
<1> USE RequestAssumption
    DEF AccountInv, AccountTypeOK, rowVars, reqVars, mailVars, envVars, histVars
<1> DEFINE Rows == UNCHANGED <<account, password, token, spent>>
<1>1. ASSUME NEW q \in Request, step[q] = "idle"
      PROVE  q \notin Owner!Stored /\ q \notin mailed /\ q \notin Claims
  BY <1>1 DEF CredentialsFresh, LinksAreStored, Owner!Stored, Claims
<1>2. ASSUME NEW q \in Request,
             NEW o \in AllOps, NEW s \in {"create", "load", "save", "publish"},
             Start(q, o, s), o # "reset", UNCHANGED <<life, spent>>
      PROVE  Untouched
  <2>1. /\ step[q] = "idle" /\ Rows /\ UNCHANGED mailed
        /\ op' = [op EXCEPT ![q] = o] /\ step' = [step EXCEPT ![q] = s]
    BY <1>2 DEF Start
  <2>2. UNCHANGED <<MailedLinks, Claims>>
    BY <1>1, <1>2, <2>1 DEF MailedLinks, Claims
  <2> QED
    BY <1>2, <2>1, <2>2 DEF Untouched, Valid
<1>3. ASSUME NEW q \in Request,
             \/ Register(q) \/ Social(q) \/ Login(q)
             \/ \E o \in AllOps : ChangeRole(q, o)
      PROVE  Untouched
  <2>1. UNCHANGED <<life, spent>>
    BY <1>3 DEF Register, Social, Login, ChangeRole
  <2>2. \E o \in AllOps, s \in {"create", "load", "save", "publish"} :
            o # "reset" /\ Start(q, o, s)
    BY <1>3 DEF Register, Social, Login, ChangeRole, AllOps
  <2> QED
    BY <1>2, <2>1, <2>2
<1>4. ASSUME NEW q \in Request, Forgot(q)
      PROVE  Owner!Draw(q)
  <2>1. /\ step[q] = "idle" /\ account # None /\ Rows /\ UNCHANGED mailed
        /\ op' = [op EXCEPT ![q] = "forgot"] /\ step' = [step EXCEPT ![q] = "load"]
        /\ life' = [life EXCEPT ![q] = TokenTtl]
    BY <1>4 DEF Forgot, Start
  <2>2. Valid' = Valid \cup {q}
    BY <2>1, AccountBounds DEF Valid
  <2>3. UNCHANGED <<MailedLinks, Claims>>
    BY <1>1, <2>1 DEF MailedLinks, Claims
  <2> QED
    BY <1>1, <2>1, <2>2, <2>3 DEF Owner!Draw
<1>5. ASSUME NEW q \in Request, NEW t \in Request, Reset(q, t)
      PROVE  Owner!Claim(q)
  <2>1. /\ step[q] = "idle" /\ Rows /\ UNCHANGED <<mailed, life>>
        /\ op' = [op EXCEPT ![q] = "reset"] /\ step' = [step EXCEPT ![q] = "load"]
        /\ t \in mailed /\ op[t] = "forgot" /\ token = t /\ life[t] > 0
    BY <1>5 DEF Reset, Start
  <2>2. token \in MailedLinks \cap Valid
    BY <2>1 DEF MailedLinks, Valid
  <2>3. Claims' = Claims \cup {q}
    BY <2>1 DEF Claims
  <2>4. UNCHANGED <<MailedLinks, Valid>>
    BY <1>1, <2>1 DEF MailedLinks, Valid
  <2> QED
    BY <1>1, <2>1, <2>2, <2>3, <2>4 DEF Owner!Claim
<1>6. ASSUME NEW q \in Request, Insert(q)
      PROVE  Owner!Open(q)
  <2>1. /\ step[q] = "insert" /\ account = None /\ account' = q
        /\ password' \in {None, q} /\ UNCHANGED <<token, spent, mailed, life, op>>
        /\ step' \in [Request -> Steps] /\ \A p \in Request : p # q => step'[p] = step[p]
        /\ step'[q] \in {"done", "publish"}
    BY <1>6 DEF Insert, NotTaken, Goto, Steps
  <2>2. q \notin Owner!Stored
    BY <2>1 DEF CredentialsFresh, Owner!Stored
  <2>3. UNCHANGED <<Valid, MailedLinks, Claims>>
    BY <2>1 DEF Valid, MailedLinks, Claims
  <2> QED
    BY <2>1, <2>2, <2>3 DEF Owner!Open
<1>7. ASSUME NEW q \in Request,
             \/ FindAgain(q) \/ InsertRefused(q) \/ Load(q)
             \/ Publish(q) \/ PublishThrows(q)
             \/ Enqueue(q) \/ Deliver(q) \/ Ack(q) \/ MailFault(q)
      PROVE  Untouched
  <2>1. Rows /\ UNCHANGED <<life, mailed, op>>
    BY <1>7
    DEF FindAgain, InsertRefused, Load, Publish, PublishThrows, Enqueue, Deliver, Ack,
        MailFault, Goto, MailGoto
  <2>2. UNCHANGED Claims
    BY <1>7
    DEF FindAgain, InsertRefused, Load, Publish, PublishThrows, Enqueue, Deliver, Ack,
        MailFault, Goto, MailGoto, Claims
  <2> QED
    BY <2>1, <2>2 DEF Untouched, Valid, MailedLinks
<1>8. ASSUME NEW q \in Request, SendMail(q)
      PROVE  Owner!Mail(q) \/ Untouched
  <2>1. /\ mail[q] = "sending" /\ mailed' = mailed \cup {q}
        /\ Rows /\ UNCHANGED <<op, step, life>>
    BY <1>8 DEF SendMail, MailGoto
  <2>2. UNCHANGED <<Valid, Claims>>
    BY <2>1 DEF Valid, Claims
  <2>3. CASE op[q] = "forgot"
    <3>1. q = token \/ q \in spent
      BY <2>1, <2>3 DEF LinksAreStored
    <3>2. MailedLinks' = MailedLinks \cup {q}
      BY <2>1, <2>3 DEF MailedLinks
    <3> QED
      BY <2>1, <2>2, <3>1, <3>2 DEF Owner!Mail
  <2>4. CASE op[q] # "forgot"
    BY <2>1, <2>2, <2>4 DEF Untouched, MailedLinks
  <2> QED
    BY <2>3, <2>4
<1>9. ASSUME Rows, UNCHANGED <<op, life, mailed>>, Claims' \subseteq Claims
      PROVE  Owner!GiveUp(Claims \ Claims')
  BY <1>9 DEF Owner!GiveUp, Valid, MailedLinks
<1>10. ASSUME NEW q \in Request, RequestFault(q)
       PROVE  Owner!GiveUp(Claims \ Claims')
  BY <1>9, <1>10 DEF RequestFault, Goto, Fault, Claims
<1>11. ASSUME Crash
       PROVE  Owner!GiveUp(Claims \ Claims')
  BY <1>9, <1>11 DEF Crash, Claims
<1>12. ASSUME Tick
       PROVE  Owner!Lapse(Valid \ Valid')
  <2>1. Rows /\ UNCHANGED <<op, step, mailed>>
    BY <1>12 DEF Tick
  <2>2. \A q \in Request : life'[q] > 0 => life[q] > 0
    BY <1>12 DEF Tick, Sooner
  <2>3. Valid' = Valid \ (Valid \ Valid')
    BY <2>2 DEF Valid
  <2> QED
    BY <2>1, <2>3 DEF Owner!Lapse, MailedLinks, Claims
<1>13. BrokerCloses \/ UNCHANGED vars => Untouched
  BY DEF BrokerCloses, vars, Untouched, Valid, MailedLinks, Claims
<1>14. Claims \ Claims' \in SUBSET Request /\ Valid \ Valid' \in SUBSET Request
  BY DEF Claims, Valid
<1>15. ASSUME NEW q \in Request, Client(q)
       PROVE  Owner!Next \/ Untouched
  BY <1>3, <1>4, <1>5, <1>15 DEF Client, Owner!Next
<1>16. ASSUME NEW q \in Request, RequestStep(q) \/ MailStep(q) \/ MailFault(q)
       PROVE  Owner!Next \/ Untouched
  BY <1>6, <1>7, <1>8, <1>16, SaveStores DEF RequestStep, MailStep, Owner!Next
<1> QED
  BY <1>10, <1>11, <1>12, <1>13, <1>14, <1>15, <1>16 DEF Next, Owner!Next

(* The code's account is the abstract one: its password changes only by a  *)
(* reset accepted for a link that was then the account's, mailed and in    *)
(* its time, through every overlap of requests, every save of a row that   *)
(* was loaded before (UsersService.update), failure and restart.           *)
THEOREM AccountsImplementCredentials == Spec => ImplementsCredentials
<1>1. Init => Owner!Init
  BY RequestAssumption DEF Init, Owner!Init, Valid, MailedLinks, Claims
<1>2. AccountInv /\ [Next]_vars => [Owner!Next]_(Owner!credentialVars)
  BY OwnerStep DEF Untouched, Owner!credentialVars
<1> QED
  BY <1>1, <1>2, AccountInvariant, PTL DEF Spec, ImplementsCredentials, Owner!Spec
=============================================================================
