------------------------------ MODULE Accounts ------------------------------
(***************************************************************************)
(* The account of one e-mail address: registration, first and later social *)
(* logins, password logins, reset links, the administrator's changes of    *)
(* role, and the mails these requests send through the broker.  Addresses  *)
(* share no row, so one stands for all.                                    *)
(*                                                                         *)
(* A request also names what it brings along: its row, its password, its   *)
(* reset token.  As in Booking, an action is one step between two awaits,  *)
(* and a deadline is the time that remains to it.                          *)
(***************************************************************************)
EXTENDS Integers, FiniteSets

CONSTANTS
    Request,       \* the HTTP requests about this address
    Seed,          \* the administrator's row and password the seeder inserts
    None,          \* no row, no password, no token
    Undefined,     \* a column that was not selected
    TokenTtl,      \* life of a reset token
    Ops,           \* the operations that are exercised
    BrokerStates,  \* what connecting to RabbitMQ at start-up may give
    MaxCrashes,    \* bound: restarts of the application
    MaxFaults      \* bound: other faults

AllOps == {"register", "social", "login", "forgot", "reset", "promote", "demote"}

ASSUME RequestAssumption ==
    /\ {Seed, None, Undefined} \cap Request = {}
    /\ Seed \notin {None, Undefined} /\ None # Undefined
ASSUME AccountBounds ==
    /\ TokenTtl \in Nat \ {0} /\ MaxCrashes \in Nat /\ MaxFaults \in Nat
    /\ Ops \subseteq AllOps
    /\ BrokerStates \subseteq {"ready", "absent"}

VARIABLES
    account,            \* the request that inserted the row of this address
    password, role,     \* columns of the row; a password is its request
    token,              \* resetPasswordToken: the request that drew it
    life,               \* time to the resetPasswordExpires each request computed
    op, step,           \* each request: what it does, and how far it is
    loaded,             \* the row as the request has it in memory
    link,               \* the token a reset brings
    mail, mailed,       \* each request's message; the messages mailed
    channel,            \* RabbitMQService.channel
    crashes, faults,    \* counters of the bounds
    spent, before, stale, granted, overtaken  \* history, read by no guard (see "History")

rowVars  == <<account, password, role, token>>
reqVars  == <<op, step, loaded, link, life>>
mailVars == <<mail, mailed, channel>>
envVars  == <<crashes, faults>>
histVars == <<spent, before, stale, granted, overtaken>>
vars == <<rowVars, reqVars, mailVars, envVars, histVars>>

Roles == {"USER", "ADMIN"}
Steps == {"idle", "create", "insert", "load", "save", "publish", "done", "failed"}
MailSteps == {"none", "unsent", "buffered", "queued", "sending", "sent", "acked", "dropped",
              "lost"}
Busy == {"create", "insert", "load", "save", "publish"}

NoRow == [role |-> Undefined, password |-> Undefined, token |-> Undefined]

----------------------------------------------------------------------------
(* History.  Five variables only the properties read:                      *)
(*   spent      the passwords and tokens that were stored, and replaced;   *)
(*   before[q]  the resets that were done when the reset q began;          *)
(*   stale      the requests that hold a row loaded before the role was    *)
(*              last granted;                                              *)
(*   granted    the role last granted: at the creation or by promoteUser;  *)
(*   overtaken  a stale row has been saved.                                *)

Retire(old, new) == spent' = spent \cup (old \ (new \cup {None}))

----------------------------------------------------------------------------
(* The seeder has run before the application listens: the address is its   *)
(* administrator's, or has no account yet.                                 *)
Init ==
    /\ account \in {None, Seed}
    /\ password = account
    /\ role = IF account = Seed THEN "ADMIN" ELSE "USER"
    /\ token = None
    /\ life = [q \in Request |-> 0]
    /\ op = [q \in Request |-> "none"]
    /\ step = [q \in Request |-> "idle"]
    /\ loaded = [q \in Request |-> NoRow]
    /\ link = [q \in Request |-> None]
    /\ mail = [q \in Request |-> "none"]
    /\ mailed = {}
    /\ channel \in BrokerStates
    /\ crashes = 0
    /\ faults = 0
    /\ spent = {}
    /\ before = [q \in Request |-> {}]
    /\ stale = {}
    /\ granted = role
    /\ overtaken = FALSE

Goto(q, s) ==
    /\ step' = [step EXCEPT ![q] = s]
    /\ UNCHANGED <<op, link, life>>

Start(q, o, s) ==
    /\ o \in Ops
    /\ step[q] = "idle"
    /\ op' = [op EXCEPT ![q] = o]
    /\ step' = [step EXCEPT ![q] = s]
    /\ UNCHANGED <<rowVars, mailVars, envVars>>

----------------------------------------------------------------------------
(* Creation.  A request that is refused by its first look-up leaves no     *)
(* trace.                                                                  *)

Register(q) ==
    /\ account = None
    /\ Start(q, "register", "create")
    /\ UNCHANGED <<loaded, link, life, histVars>>

(* The first social login creates the account, a later one finds it.       *)
Social(q) ==
    /\ Start(q, "social", IF account = None THEN "create" ELSE "publish")
    /\ UNCHANGED <<loaded, link, life, histVars>>

(* UsersService.create looks the address up once more ...                  *)
FindAgain(q) ==
    /\ step[q] = "create"
    /\ Goto(q, IF account = None THEN "insert" ELSE "failed")
    /\ UNCHANGED <<rowVars, loaded, mailVars, envVars, histVars>>

(* Mutation: no unique index on the e-mail.                                *)
NotIndexed == TRUE

(* ... and inserts the row, which the unique index refuses if there is one. *)
NotTaken == account = None

Insert(q) ==
    /\ step[q] = "insert"
    /\ NotTaken
    /\ account' = q
    /\ password' = IF op[q] = "register" THEN q ELSE None
    /\ role' = "USER"
    /\ granted' = "USER"
    /\ Goto(q, IF op[q] = "register" THEN "done" ELSE "publish")
    /\ UNCHANGED <<token, loaded, mailVars, envVars, spent, before, stale, overtaken>>

InsertRefused(q) ==
    /\ step[q] = "insert"
    /\ ~NotTaken
    /\ Goto(q, "failed")
    /\ UNCHANGED <<rowVars, loaded, mailVars, envVars, histVars>>

----------------------------------------------------------------------------
(* Logins and changes of the row                                           *)

(* The password is compared with the one that was read; a wrong one, or an *)
(* account without a password, leaves no trace.                            *)
Login(q) ==
    /\ account # None /\ password # None
    /\ Start(q, "login", "publish")
    /\ UNCHANGED <<loaded, link, life, histVars>>

(* forgotPassword: the expiry is computed before the row is loaded.        *)
Forgot(q) ==
    /\ account # None
    /\ Start(q, "forgot", "load")
    /\ life' = [life EXCEPT ![q] = TokenTtl]
    /\ UNCHANGED <<loaded, link, histVars>>

(* Mutation: the expiry of the link is not looked at.                      *)
ResetAnyTime(q, t) ==
    /\ t \in mailed /\ op[t] = "forgot"
    /\ token = t
    /\ Start(q, "reset", "load")
    /\ link' = [link EXCEPT ![q] = t]
    /\ before' = [before EXCEPT ![q] = {p \in Request : op[p] = "reset" /\ step[p] = "done"}]
    /\ UNCHANGED <<loaded, life, spent, stale, granted, overtaken>>

(* resetPassword: the link's token is the stored one and has not expired;  *)
(* then the new password is hashed.                                        *)
Reset(q, t) ==
    /\ t \in mailed /\ op[t] = "forgot"
    /\ token = t /\ life[t] > 0
    /\ Start(q, "reset", "load")
    /\ link' = [link EXCEPT ![q] = t]
    /\ before' = [before EXCEPT ![q] = {p \in Request : op[p] = "reset" /\ step[p] = "done"}]
    /\ UNCHANGED <<loaded, life, spent, stale, granted, overtaken>>

(* Mutation: password and token are selected with the other columns.       *)
SelectAll == [role |-> role, password |-> password, token |-> token]

(* findById leaves out the columns declared with select: false.            *)
FindById == [role |-> role, password |-> Undefined, token |-> Undefined]

Load(q) ==
    /\ step[q] = "load"
    /\ loaded' = [loaded EXCEPT ![q] = FindById]
    /\ Goto(q, "save")
    /\ UNCHANGED <<rowVars, mailVars, envVars, histVars>>

ChangeRole(q, o) ==
    /\ o \in {"promote", "demote"}
    /\ account # None
    /\ Start(q, o, "save")
    /\ loaded' = [loaded EXCEPT ![q] = FindById]
    /\ UNCHANGED <<link, life, histVars>>

Grants(q) == op[q] \in {"promote", "demote"}

GrantedRole(q) == IF op[q] = "promote" THEN "ADMIN" ELSE "USER"

(* Mutation: a reset changes the password and leaves the token.            *)
AssignedKeepsToken(q) ==
    [role     |-> IF Grants(q) THEN GrantedRole(q) ELSE loaded[q].role,
     password |-> IF op[q] = "reset" THEN q ELSE loaded[q].password,
     token    |-> IF op[q] = "forgot" THEN q ELSE loaded[q].token]

(* Mutation: the update is assigned to a new entity with default values.   *)
AssignedToDefaults(q) ==
    [role     |-> IF Grants(q) THEN GrantedRole(q) ELSE "USER",
     password |-> IF op[q] = "reset" THEN q ELSE Undefined,
     token    |-> IF op[q] = "forgot" THEN q ELSE IF op[q] = "reset" THEN None ELSE Undefined]

(* The row in memory with the request's changes.                           *)
Assigned(q) ==
    [role     |-> IF Grants(q) THEN GrantedRole(q) ELSE loaded[q].role,
     password |-> IF op[q] = "reset" THEN q ELSE loaded[q].password,
     token    |-> IF op[q] = "forgot" THEN q
                  ELSE IF op[q] = "reset" THEN None ELSE loaded[q].token]

(* Mutation: a column that was not selected is written, as it is in memory. *)
WrittenWhole(value, column) == value

Written(value, column) == IF value = Undefined THEN column ELSE value

(* save writes the columns that are defined, whatever the row has become   *)
(* since it was loaded.                                                    *)
Save(q) ==
    /\ step[q] = "save"
    /\ role' = Written(Assigned(q).role, role)
    /\ password' = Written(Assigned(q).password, password)
    /\ token' = Written(Assigned(q).token, token)
    /\ Goto(q, IF op[q] = "forgot" THEN "publish" ELSE "done")
    /\ Retire({password, token}, {password', token'})
    /\ granted' = IF Grants(q) THEN role' ELSE granted
    /\ stale' = IF Grants(q) THEN {p \in Request : step[p] = "save"} ELSE stale
    /\ overtaken' = (overtaken \/ (~Grants(q) /\ q \in stale))
    /\ UNCHANGED <<account, loaded, mailVars, envVars, before>>

----------------------------------------------------------------------------
(* Mail                                                                    *)

(* The login alert or the link is published, if there is a channel: it is  *)
(* in the buffer of the socket when the client has its answer.             *)
Publish(q) ==
    /\ step[q] = "publish"
    /\ channel # "closed"
    /\ mail' = [mail EXCEPT ![q] = IF channel = "ready" THEN "buffered" ELSE "unsent"]
    /\ Goto(q, "done")
    /\ UNCHANGED <<rowVars, loaded, mailed, channel, envVars, histVars>>

(* A closed channel throws; the request is answered with 500.              *)
PublishThrows(q) ==
    /\ step[q] = "publish"
    /\ channel = "closed"
    /\ Goto(q, "failed")
    /\ UNCHANGED <<rowVars, loaded, mailVars, envVars, histVars>>

MailGoto(q, s) ==
    /\ mail' = [mail EXCEPT ![q] = s]
    /\ UNCHANGED channel

(* The message reaches the broker.                                         *)
Enqueue(q) ==
    /\ mail[q] = "buffered"
    /\ MailGoto(q, "queued")
    /\ UNCHANGED <<rowVars, reqVars, mailed, envVars, histVars>>

Deliver(q) ==
    /\ mail[q] = "queued"
    /\ channel = "ready"
    /\ MailGoto(q, "sending")
    /\ UNCHANGED <<rowVars, reqVars, mailed, envVars, histVars>>

SendMail(q) ==
    /\ mail[q] = "sending"
    /\ mailed' = mailed \cup {q}
    /\ MailGoto(q, "sent")
    /\ UNCHANGED <<rowVars, reqVars, envVars, histVars>>

(* The acknowledgement reaches the broker.  On a closed channel it throws,  *)
(* and so does the rejection in the catch block: nothing is acknowledged.  *)
Ack(q) ==
    /\ mail[q] = "sent"
    /\ channel = "ready"
    /\ MailGoto(q, "acked")
    /\ UNCHANGED <<rowVars, reqVars, mailed, envVars, histVars>>

----------------------------------------------------------------------------
(* Faults, restarts and time                                               *)

Fault ==
    /\ faults < MaxFaults
    /\ faults' = faults + 1
    /\ UNCHANGED crashes

(* A query or the publication throws; the request is answered with 500.    *)
RequestFault(q) ==
    /\ step[q] \in Busy
    /\ Goto(q, "failed")
    /\ Fault
    /\ UNCHANGED <<rowVars, loaded, mailVars, histVars>>

(* Sending throws: the message is rejected and not queued again.           *)
MailFault(q) ==
    /\ mail[q] = "sending"
    /\ channel = "ready"
    /\ MailGoto(q, "dropped")
    /\ Fault
    /\ UNCHANGED <<rowVars, reqVars, mailed, histVars>>

(* What the broker has not received goes with the connection.              *)
Unsent(m) == IF m = "buffered" THEN "lost" ELSE m

(* The application sees its channel closed, the connection may have been    *)
(* dead for long; nothing reopens it before a restart.                     *)
BrokerCloses ==
    /\ channel = "ready"
    /\ channel' = "closed"
    /\ mail' = [q \in Request |-> Unsent(mail[q])]
    /\ Fault
    /\ UNCHANGED <<rowVars, reqVars, mailed, histVars>>

(* Mutation: messages are acknowledged as they are delivered.              *)
AfterRestartAutoAck(m) == IF m \in {"sending", "sent"} THEN "acked" ELSE Unsent(m)

(* A message that was not acknowledged is delivered again.                 *)
AfterRestart(m) == IF m \in {"sending", "sent"} THEN "queued" ELSE Unsent(m)

Crash ==
    /\ crashes < MaxCrashes
    /\ crashes' = crashes + 1
    /\ step' = [q \in Request |-> IF step[q] \in Busy THEN "failed" ELSE step[q]]
    /\ mail' = [q \in Request |-> AfterRestart(mail[q])]
    /\ channel' \in BrokerStates
    /\ UNCHANGED <<rowVars, op, loaded, link, life, mailed, faults, histVars>>

Sooner(n) == IF n = 0 THEN 0 ELSE n - 1

Tick ==
    /\ \E q \in Request : life[q] > 0
    /\ life' = [q \in Request |-> Sooner(life[q])]
    /\ UNCHANGED <<rowVars, op, step, loaded, link, mailVars, envVars, histVars>>

----------------------------------------------------------------------------
Client(q) ==
    \/ Register(q) \/ Social(q) \/ Login(q) \/ Forgot(q)
    \/ \E t \in Request : Reset(q, t)
    \/ \E o \in AllOps : ChangeRole(q, o)

RequestStep(q) ==
    \/ FindAgain(q) \/ Insert(q) \/ InsertRefused(q)
    \/ Load(q) \/ Save(q) \/ Publish(q) \/ PublishThrows(q)

MailStep(q) == Enqueue(q) \/ Deliver(q) \/ SendMail(q) \/ Ack(q)

Next ==
    \/ \E q \in Request :
        Client(q) \/ RequestStep(q) \/ MailStep(q) \/ RequestFault(q) \/ MailFault(q)
    \/ BrokerCloses
    \/ Crash
    \/ Tick

Spec == Init /\ [][Next]_vars

----------------------------------------------------------------------------
(* Every variable stays within the values the code gives it.               *)
AccountTypeOK ==
    /\ account \in Request \cup {Seed, None}
    /\ password \in Request \cup {Seed, None}
    /\ role \in Roles /\ granted \in Roles
    /\ token \in Request \cup {None}
    /\ life \in [Request -> 0..TokenTtl]
    /\ op \in [Request -> AllOps \cup {"none"}]
    /\ step \in [Request -> Steps]
    /\ loaded \in [Request -> [role : Roles \cup {Undefined},
                               password : Request \cup {Seed, None, Undefined},
                               token : Request \cup {None, Undefined}]]
    /\ link \in [Request -> Request \cup {None}]
    /\ mail \in [Request -> MailSteps]
    /\ mailed \subseteq Request
    /\ channel \in {"ready", "absent", "closed"}
    /\ crashes \in 0..MaxCrashes /\ faults \in 0..MaxFaults
    /\ spent \subseteq Request \cup {Seed}
    /\ before \in [Request -> SUBSET Request]
    /\ stale \subseteq Request
    /\ overtaken \in BOOLEAN

(* A registration that was answered with success owns the account: of      *)
(* several that overlap, with each other or with first social logins, one  *)
(* is answered and the others are refused.                                 *)
RegistrationStands ==
    \A q \in Request : op[q] = "register" /\ step[q] = "done" => account = q

(* A password or reset token that was replaced never comes back: no save   *)
(* of a row that was loaded before undoes a reset.                         *)
CredentialsNeverReturn == password \notin spent /\ token \notin spent

(* A link that was mailed is the account's token, or was until a newer     *)
(* link or a reset replaced it: no mail is sent ahead of the save.         *)
MailedLinkWasStored ==
    \A q \in mailed : op[q] = "forgot" => token = q \/ q \in spent

(* A link resets the password once, but for resets that were in progress   *)
(* at the same time: none begins after another by the same link is done.   *)
OneResetPerLink ==
    \A p, q \in Request :
        op[p] = "reset" /\ op[q] = "reset" /\ link[p] = link[q] => p \notin before[q]

(* The role is the one last granted, unless a reset or a new link saved    *)
(* the row it had loaded before the role was granted.                      *)
RoleAsGranted == ~overtaken => role = granted

(* The link of an answered request is mailed, on its way to be, or it was  *)
(* reported in the log: no restart or redelivery loses it, but for a       *)
(* message in transit to the broker when the connection broke or the       *)
(* application stopped.                                                    *)
LinkNotLost ==
    \A q \in Request :
        op[q] = "forgot" /\ step[q] = "done" =>
            \/ q \in mailed
            \/ mail[q] \in {"buffered", "queued", "sending", "dropped", "unsent"}
            \/ mail[q] = "lost" /\ crashes + faults > 0
----------------------------------------------------------------------------
(* Inductive invariants.                                                   *)

(* What a request does goes with how far it is, and a row is loaded or     *)
(* saved only when there is one.                                           *)
StepsMatch ==
    /\ \A q \in Request :
        /\ step[q] = "idle" <=> op[q] = "none"
        /\ step[q] \in {"create", "insert"} => op[q] \in {"register", "social"}
        /\ step[q] = "load" => op[q] \in {"forgot", "reset"}
        /\ step[q] = "save" => op[q] \in {"forgot", "reset", "promote", "demote"}
        /\ step[q] = "publish" => op[q] \in {"social", "login", "forgot"}
        /\ step[q] \in {"load", "save"} => account # None
    /\ account = None => password = None /\ token = None

(* Passwords and tokens come from requests of their kind, which have saved *)
(* them; a row in memory holds neither.                                    *)
CredentialsFresh ==
    /\ password \in Request => op[password] \in {"register", "reset"}
    /\ token \in Request => op[token] = "forgot"
    /\ \A q \in Request :
        /\ step[q] \in {"idle", "create", "insert", "load", "save"}
              => q \notin spent /\ q # password /\ q # token
        /\ step[q] = "save" => loaded[q].password = Undefined /\ loaded[q].token = Undefined

(* A link is published after its token was stored; the mail follows the    *)
(* end of its request.                                                     *)
LinksAreStored ==
    \A q \in Request :
        /\ op[q] = "forgot" /\ step[q] \in {"publish", "done"} => token = q \/ q \in spent
        /\ mail[q] # "none" \/ q \in mailed => step[q] = "done"
        /\ mail[q] \in {"sent", "acked"} => q \in mailed
        /\ op[q] = "forgot" /\ step[q] = "done" => mail[q] # "none"
        /\ mail[q] = "lost" => crashes + faults > 0

(* The link of a reset was stored; once the reset is done it is spent.     *)
ResetsSpendLinks ==
    \A q \in Request :
        /\ op[q] = "reset" =>
              /\ link[q] \in Request /\ op[link[q]] = "forgot"
              /\ link[q] = token \/ link[q] \in spent
              /\ step[q] = "done" => link[q] \in spent
        /\ before[q] \subseteq {p \in Request : op[p] = "reset" /\ step[p] = "done"}

(* A row in memory has the role last granted, unless it is stale.          *)
LoadedRoles ==
    \A q \in Request :
        /\ step[q] = "save" /\ q \notin stale /\ ~overtaken => loaded[q].role = granted
        /\ step[q] \in {"idle", "create", "insert", "load"} => q \notin stale
=============================================================================
