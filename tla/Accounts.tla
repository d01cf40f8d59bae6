------------------------------ MODULE Accounts ------------------------------
(***************************************************************************)
(* The account that softarr-init creates, the cookies it is used through,  *)
(* and TOTP enrolment.  It is the only account there ever is: POST /users  *)
(* and the password reset raise TypeError before they touch the database,  *)
(* because they construct PasswordPolicyService with one argument.         *)
(*                                                                         *)
(* A handler loads the row into its session and computes from it what it   *)
(* will write and reply; a later step commits.  SQLAlchemy writes only the *)
(* columns whose value differs from what was loaded.                       *)
(***************************************************************************)
EXTENDS FiniteSets

CONSTANTS
    Tasks,          \* handlers under way at the same time
    Browsers,
    Secrets,        \* the TOTP secrets that may be generated
    NoSecret,       \* totp_secret IS NULL
    Unreadable,     \* a secret signed with another SECRET_KEY
    NoCookie,
    Keep            \* a column or a cookie that a handler leaves alone

Roles == {"admin", "viewer"}

Flags == {"active", "enabled", "accepted"}

ASSUME AccountAssumption ==
    /\ Browsers # {}
    /\ Keep \notin Roles
    /\ Keep \notin Secrets \cup {NoSecret, Unreadable, NoCookie}
    /\ {NoSecret, Unreadable} \cap Secrets = {}
    /\ NoSecret # Unreadable
    /\ NoCookie \notin Roles

VARIABLES
    user,       \* the row of users
    session,    \* softarr_session of each browser
    pending,    \* softarr_pending_2fa of each browser: the role it carries
    shown,      \* the secrets a page has shown
    confirmed,  \* the secrets that a code has confirmed
    task,       \* what each handler will write and reply
    overtaken,  \* TOTP handlers whose columns have changed since they loaded them
    relied      \* such a handler has committed a change

vars == <<user, session, pending, shown, confirmed, task, overtaken, relied>>

Stored == Secrets \cup {NoSecret, Unreadable}

\* The columns: role, totp_secret, and those of is_active, totp_enabled and
\* disclaimer_accepted that are true.
User == [role : Roles, secret : Stored, flags : SUBSET Flags]

Update == [role : Roles \cup {Keep}, secret : Secrets \cup {NoSecret, Keep},
           set : SUBSET Flags, clear : SUBSET Flags]

\* A session carries the role and the acceptance of its time (da).
Session == [role : Roles, flags : SUBSET {"accepted"}]

TotpOps == {"generate", "confirm", "disable"}
Ops == TotpOps \cup {"update", "delete", "login", "verify", "accept"}

Task == [op : Ops \cup {"idle"}, browser : Browsers, update : Update,
         session : Session \cup {Keep}, pending : Roles \cup {NoCookie, Keep}]

NoUpdate == [role |-> Keep, secret |-> Keep, set |-> {}, clear |-> {}]

Idle == [op |-> "idle", browser |-> CHOOSE b \in Browsers : TRUE,
         update |-> NoUpdate, session |-> Keep, pending |-> Keep]

AccountTypeOK ==
    /\ user \in User
    /\ session \in [Browsers -> Session \cup {NoCookie}]
    /\ pending \in [Browsers -> Roles \cup {NoCookie}]
    /\ shown \subseteq Secrets
    /\ confirmed \subseteq Secrets
    /\ task \in [Tasks -> Task]
    /\ overtaken \subseteq Tasks
    /\ relied \in BOOLEAN

\* bootstrap_admin has run once, before the workers start.
Init ==
    /\ user = [role |-> "admin", secret |-> NoSecret, flags |-> {"active"}]
    /\ session = [b \in Browsers |-> NoCookie]
    /\ pending = [b \in Browsers |-> NoCookie]
    /\ shown = {}
    /\ confirmed = {}
    /\ task = [t \in Tasks |-> Idle]
    /\ overtaken = {}
    /\ relied = FALSE

\* require_admin goes by the cookie alone.
IsAdmin(b) == session[b] # NoCookie /\ session[b].role = "admin"

Has(f) == f \in user.flags

\* An attribute that gets the value it has is not written.
Change(new, old) == IF new = old THEN Keep ELSE new
Turn(on, off) ==
    [NoUpdate EXCEPT !.set = on \ user.flags, !.clear = off \cap user.flags]

\* The work of a handler that has loaded the row and will write update.
Writes(op, b, update) ==
    [Idle EXCEPT !.op = op, !.browser = b, !.update = update]

Begin(t, work) ==
    /\ task[t].op = "idle"
    /\ task' = [task EXCEPT ![t] = work]
    /\ UNCHANGED <<user, session, pending, shown, overtaken, relied>>

-----------------------------------------------------------------------------
(* Logging in.                                                             *)

\* Variant with a bug: the session does not say what the row says.
LoginReplyAccepted(b) ==
    [Writes("login", b, NoUpdate) EXCEPT
        !.session = [role |-> user.role, flags |-> {"accepted"}]]

\* What a login with the right password replies: an account that has not
\* accepted the disclaimer gets a session for the disclaimer page, one with
\* TOTP a cookie for the second step.
LoginReply(b) ==
    LET work == Writes("login", b, NoUpdate) IN
    IF Has("accepted") /\ Has("enabled")
    THEN [work EXCEPT !.pending = user.role]
    ELSE [work EXCEPT !.session =
             [role |-> user.role, flags |-> user.flags \cap {"accepted"}]]

\* authenticate; that the password is right goes without saying, a wrong one
\* changes nothing.
MayLogIn == Has("active")

Login(t, b) ==
    /\ MayLogIn
    /\ Begin(t, LoginReply(b))
    /\ UNCHANGED confirmed

\* Variant with a bug: a code for an earlier secret is good enough.
CodeMatchesAny == shown # {}

\* The user has codes for the secrets that a page has shown.
CodeMatches == user.secret \in shown

TotpVerified == Has("enabled") /\ CodeMatches

\* The second step.
Verify(t, b) ==
    /\ pending[b] # NoCookie
    /\ TotpVerified
    /\ Begin(t, [Writes("verify", b, NoUpdate) EXCEPT
                    !.session = [role |-> pending[b], flags |-> {"accepted"}],
                    !.pending = NoCookie])
    /\ UNCHANGED confirmed

AcceptUpdate == Turn({"accepted"}, {})

Accept(t, b) ==
    /\ IsAdmin(b)
    /\ Begin(t, [Writes("accept", b, AcceptUpdate) EXCEPT
                    !.session = [role |-> session[b].role, flags |-> {"accepted"}]])
    /\ UNCHANGED confirmed

\* Logout, or the cookies expire.
LoseCookies(b) ==
    /\ session' = [session EXCEPT ![b] = NoCookie]
    /\ pending' = [pending EXCEPT ![b] = NoCookie]
    /\ UNCHANGED <<user, shown, confirmed, task, overtaken, relied>>

-----------------------------------------------------------------------------
(* Enrolment.                                                              *)

InUse == shown \cup {user.secret} \cup {task[t].update.secret : t \in Tasks}

\* Variant with a bug: every visit generates a secret.
MayGenerateAgain == TRUE

\* GET /auth/2fa/setup: an enrolled account is left alone, a readable secret
\* is shown again, otherwise a new one is generated.
MayGenerate == ~Has("enabled") /\ user.secret \in {NoSecret, Unreadable}

GenerateUpdate(s) == [Turn({}, {"enabled"}) EXCEPT !.secret = s]

Generate(t, b) ==
    /\ IsAdmin(b)
    /\ MayGenerate
    /\ \E s \in Secrets \ InUse : Begin(t, Writes("generate", b, GenerateUpdate(s)))
    /\ UNCHANGED confirmed

\* The secret of a pending enrolment, or that of any account after a wrong code.
Show(b) ==
    /\ IsAdmin(b)
    /\ user.secret \in Secrets
    /\ shown' = shown \cup {user.secret}
    /\ UNCHANGED <<user, session, pending, confirmed, task, overtaken, relied>>

ConfirmUpdate == Turn({"enabled"}, {})

\* POST /auth/2fa/setup with a code for the stored secret.
Confirm(t, b) ==
    /\ IsAdmin(b)
    /\ CodeMatches
    /\ Begin(t, Writes("confirm", b, ConfirmUpdate))
    /\ confirmed' = confirmed \cup {user.secret}

\* Variant with a bug: only the secret is cleared.
DisableSecretOnly == [NoUpdate EXCEPT !.secret = Change(NoSecret, user.secret)]

DisableUpdate ==
    [Turn({}, {"enabled"}) EXCEPT !.secret = Change(NoSecret, user.secret)]

\* By the account itself, or by an admin call with the API key.
Disable(t, b) ==
    /\ Begin(t, Writes("disable", b, DisableUpdate))
    /\ UNCHANGED confirmed

-----------------------------------------------------------------------------
(* PATCH and DELETE, with a session or the API key.                        *)

\* Neither a role nor a status need be given.
PatchUpdate(role, on, off) ==
    [Turn(on, off) EXCEPT !.role = Change(role, user.role)]

UpdateUser(t, b) ==
    /\ \E role \in Roles \cup {Keep}, on, off \in SUBSET {"active"} :
          Begin(t, Writes("update", b, PatchUpdate(role, on, off \ on)))
    /\ UNCHANGED confirmed

\* No other row is an active admin, so the guard refuses whenever it applies.
MayDeactivate == Has("active") /\ user.role # "admin"

Deactivate(t, b) ==
    /\ MayDeactivate
    /\ Begin(t, Writes("delete", b, Turn({}, {"active"})))
    /\ UNCHANGED confirmed

-----------------------------------------------------------------------------
(* Commits, kills, restarts.                                               *)

Merge(new, old) == IF new = Keep THEN old ELSE new

Applied(update) ==
    [role   |-> Merge(update.role, user.role),
     secret |-> Merge(update.secret, user.secret),
     flags  |-> (user.flags \ update.clear) \cup update.set]

\* Whoever loaded the columns of TOTP before this commit has been overtaken.
OvertakenBy(t) ==
    {x \in Tasks \ {t} : /\ task[t].update # NoUpdate
                         /\ {task[t].op, task[x].op} \subseteq TotpOps}

\* The cookies and the page of the reply.
Deliver(t) ==
    LET b == task[t].browser IN
    /\ session' = [session EXCEPT ![b] = Merge(task[t].session, @)]
    /\ pending' = [pending EXCEPT ![b] = Merge(task[t].pending, @)]
    /\ shown' = shown \cup ({task[t].update.secret} \cap Secrets)

\* The commit; the reply reaches the browser unless the worker dies first.
Commit(t) ==
    /\ task[t].op # "idle"
    /\ user' = Applied(task[t].update)
    /\ relied' = IF /\ task[t].op \in TotpOps
                    /\ t \in overtaken
                    /\ task[t].update # NoUpdate
                 THEN TRUE ELSE relied
    /\ task' = [task EXCEPT ![t] = Idle]
    /\ overtaken' = (overtaken \cup OvertakenBy(t)) \ {t}
    /\ \/ Deliver(t)
       \/ UNCHANGED <<session, pending, shown>>
    /\ UNCHANGED confirmed

Kill(t) ==
    /\ task[t].op # "idle"
    /\ task' = [task EXCEPT ![t] = Idle]
    /\ overtaken' = overtaken \ {t}
    /\ UNCHANGED <<user, session, pending, shown, confirmed, relied>>

\* A restart with another SECRET_KEY: no signature of the old key is valid.
RotateKey ==
    /\ user' = [user EXCEPT !.secret = IF @ = NoSecret THEN NoSecret ELSE Unreadable]
    /\ session' = [b \in Browsers |-> NoCookie]
    /\ pending' = [b \in Browsers |-> NoCookie]
    /\ task' = [t \in Tasks |-> Idle]
    /\ overtaken' = {}
    /\ UNCHANGED <<shown, confirmed, relied>>

Next ==
    \/ \E t \in Tasks, b \in Browsers :
          \/ Login(t, b) \/ Verify(t, b) \/ Accept(t, b)
          \/ Generate(t, b) \/ Confirm(t, b) \/ Disable(t, b)
          \/ UpdateUser(t, b) \/ Deactivate(t, b)
    \/ \E b \in Browsers : LoseCookies(b) \/ Show(b)
    \/ \E t \in Tasks : Commit(t) \/ Kill(t)
    \/ RotateKey

AccountSpec == Init /\ [][Next]_vars

-----------------------------------------------------------------------------
(***************************************************************************)
(* What users rely on: an account that asks for a code asks for one that   *)
(* the user has proved to have, as long as no enrolment handler committed  *)
(* on columns that had changed since it loaded them.  Logins, the          *)
(* disclaimer, PATCH, kills and lost replies do not disturb it, and a new  *)
(* SECRET_KEY only makes the secret unreadable.                            *)
(***************************************************************************)
EnabledIsConfirmed ==
    ~relied /\ Has("enabled") => user.secret \in confirmed \cup {Unreadable}

(***************************************************************************)
(* Test "visiting /auth/2fa/setup when already enrolled must not reset the *)
(* confirmed secret", for every handler and every step: an enrolled        *)
(* account keeps its secret until 2FA is disabled.  The one exception is a *)
(* visit of the page that found no secret and stores the one it generated  *)
(* only after another handler has enrolled the account.                    *)
(***************************************************************************)
Commits(t, op) == task[t].op = op /\ task'[t].op = "idle"

EnrolledUntilDisabled ==
    [][Has("enabled") =>
          \/ Has("enabled")' /\ user'.secret \in {user.secret, Unreadable}
          \/ \E t \in Tasks : Commits(t, "disable")
          \/ \E t \in overtaken : Commits(t, "generate")]_vars

(***************************************************************************)
(* The disclaimer gate of main.py believes the cookies: whatever handlers, *)
(* killed and racing, did in between, one that says the disclaimer was     *)
(* accepted, or that a code is all that is missing, is about an account    *)
(* that did accept it.                                                     *)
(***************************************************************************)
AcceptanceIsRecorded ==
    \A b \in Browsers :
        /\ session[b] # NoCookie => session[b].flags \subseteq user.flags
        /\ pending[b] # NoCookie => Has("accepted")

-----------------------------------------------------------------------------
(***************************************************************************)
(* The inductive invariant.  A handler that nobody overtook has loaded     *)
(* what the columns still hold, so its update fits them.                   *)
(***************************************************************************)
EnrolmentFits(t) ==
    /\ task[t].op = "generate" => ~Has("enabled")
    /\ task[t].op = "confirm" => user.secret \in confirmed
    /\ task[t].op = "disable" =>
          ("enabled" \in task[t].update.clear <=> Has("enabled"))

\* What a handler writes is laid down by its operation.
WritesFit(t) ==
    /\ task[t].update.clear \cap {"accepted"} = {}
    /\ "enabled" \in task[t].update.set => task[t].op = "confirm"
    /\ "enabled" \in task[t].update.clear => task[t].op = "disable"
    /\ task[t].update.secret # Keep => task[t].op \in {"generate", "disable"}
    /\ task[t].op = "disable" => task[t].update.secret \in {Keep, NoSecret}
    /\ task[t].update.role # Keep => task[t].op = "update"

RepliesFit(t) ==
    /\ task[t].session # Keep =>
          task[t].session.flags \subseteq user.flags \cup task[t].update.set
    /\ task[t].pending \in Roles => Has("accepted")

AccountInv ==
    /\ AccountTypeOK
    /\ confirmed \subseteq shown
    /\ EnabledIsConfirmed
    /\ AcceptanceIsRecorded
    /\ \A t \in Tasks :
          /\ WritesFit(t)
          /\ RepliesFit(t)
          /\ t \notin overtaken => EnrolmentFits(t)

=============================================================================
