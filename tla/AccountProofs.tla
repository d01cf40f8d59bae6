---------------------------- MODULE AccountProofs ----------------------------
(* Theorems about Accounts, for any number of handlers and browsers. *)
EXTENDS Accounts, TLAPS

(***************************************************************************)
(* What the handlers are made of.                                          *)
(***************************************************************************)
LEMMA IdleIsTask ==
    /\ Idle \in Task
    /\ Idle.op = "idle"
    /\ Idle.update = NoUpdate
    /\ Idle.session = Keep
    /\ Idle.pending = Keep
<1>1. NoUpdate \in Update
  BY DEF NoUpdate, Update
<1>2. (CHOOSE b \in Browsers : TRUE) \in Browsers
  BY AccountAssumption
<1> QED BY <1>1, <1>2 DEF Idle, Task

LEMMA WritesIsTask ==
    ASSUME NEW op \in Ops, NEW b \in Browsers, NEW update \in Update
    PROVE  /\ Writes(op, b, update) \in Task
           /\ Writes(op, b, update).op = op
           /\ Writes(op, b, update).update = update
           /\ Writes(op, b, update).session = Keep
           /\ Writes(op, b, update).pending = Keep
BY IdleIsTask DEF Writes, Idle, Task

LEMMA TurnIsUpdate ==
    ASSUME NEW on \in SUBSET Flags, NEW off \in SUBSET Flags
    PROVE  /\ Turn(on, off) \in Update
           /\ Turn(on, off).set = on \ user.flags
           /\ Turn(on, off).clear = off \cap user.flags
           /\ Turn(on, off).secret = Keep
           /\ Turn(on, off).role = Keep
BY DEF Turn, NoUpdate, Update

(***************************************************************************)
(* Loading: what a handler has just computed fits the row it loaded.       *)
(***************************************************************************)
LEMMA BeginKeepsInv ==
    ASSUME AccountInv, NEW t \in Tasks, NEW work \in Task, Begin(t, work),
           confirmed \subseteq confirmed', confirmed' \subseteq shown,
           WritesFit(t)', RepliesFit(t)', EnrolmentFits(t)'
    PROVE  AccountInv'
<1> USE DEF Begin
<1>1. AccountTypeOK'
  BY DEF AccountInv, AccountTypeOK
<1>2. confirmed' \subseteq shown'
  OBVIOUS
<1>3. EnabledIsConfirmed'
  BY DEF AccountInv, EnabledIsConfirmed, Has
<1>4. AcceptanceIsRecorded'
  BY DEF AccountInv, AcceptanceIsRecorded, Has
<1>5. ASSUME NEW x \in Tasks
      PROVE  /\ WritesFit(x)'
             /\ RepliesFit(x)'
             /\ (x \notin overtaken)' => EnrolmentFits(x)'
  <2>1. CASE x = t
    BY <2>1
  <2>2. CASE x # t
    <3>1. task'[x] = task[x]
      BY <2>2 DEF AccountInv, AccountTypeOK
    <3>2. WritesFit(x)'
      BY <3>1 DEF AccountInv, WritesFit
    <3>3. RepliesFit(x)'
      BY <3>1 DEF AccountInv, RepliesFit, Has
    <3>4. x \notin overtaken => EnrolmentFits(x)'
      BY <3>1 DEF AccountInv, EnrolmentFits, Has
    <3> QED BY <3>2, <3>3, <3>4
  <2> QED BY <2>1, <2>2
<1> QED BY <1>1, <1>2, <1>3, <1>4, <1>5 DEF AccountInv

\* A handler that writes nothing only has to reply what fits.
LEMMA ReadingKeepsInv ==
    ASSUME AccountInv, NEW t \in Tasks, NEW work \in Task, Begin(t, work),
           UNCHANGED confirmed,
           work.op \in {"login", "verify"}, work.update = NoUpdate, RepliesFit(t)'
    PROVE  AccountInv'
<1>1. task'[t] = work
  BY DEF Begin, AccountInv, AccountTypeOK
<1>2. WritesFit(t)' /\ EnrolmentFits(t)'
  BY <1>1 DEF WritesFit, EnrolmentFits, NoUpdate
<1> QED BY <1>2, BeginKeepsInv DEF AccountInv

LEMMA LoginKeepsInv ==
    ASSUME AccountInv, NEW t \in Tasks, NEW b \in Browsers, Login(t, b)
    PROVE  AccountInv'
<1> DEFINE work == Writes("login", b, NoUpdate)
           asked == [work EXCEPT !.pending = user.role]
           let == [work EXCEPT !.session =
                      [role |-> user.role, flags |-> user.flags \cap {"accepted"}]]
<1>1. work \in Task /\ work.op = "login" /\ work.update = NoUpdate
      /\ work.session = Keep /\ work.pending = Keep
  BY WritesIsTask DEF Ops, NoUpdate, Update
<1>2. user.role \in Roles /\ user.flags \in SUBSET Flags /\ task \in [Tasks -> Task]
  BY DEF AccountInv, AccountTypeOK, User
<1>3. Keep \notin Roles
  BY AccountAssumption
<1>4. LoginReply(b) = IF Has("accepted") /\ Has("enabled") THEN asked ELSE let
  BY DEF LoginReply
<1> HIDE DEF work
<1>5. CASE Has("accepted") /\ Has("enabled")
  <2>1. asked \in Task /\ asked.op = "login" /\ asked.update = NoUpdate
        /\ asked.session = Keep
    BY <1>1, <1>2 DEF Task
  <2>2. Begin(t, asked) /\ UNCHANGED confirmed
    BY <1>4, <1>5 DEF Login
  <2>3. task'[t] = asked
    BY <1>2, <2>2 DEF Begin
  <2>4. RepliesFit(t)'
    BY <1>5, <2>1, <2>2, <2>3 DEF RepliesFit, Begin, Has
  <2> QED BY <2>1, <2>2, <2>4, ReadingKeepsInv
<1>6. CASE ~(Has("accepted") /\ Has("enabled"))
  <2>1. let \in Task /\ let.op = "login" /\ let.update = NoUpdate
        /\ let.pending = Keep /\ let.session.flags \subseteq user.flags
    BY <1>1, <1>2 DEF Task, Session
  <2>2. Begin(t, let) /\ UNCHANGED confirmed
    BY <1>4, <1>6 DEF Login
  <2>3. task'[t] = let
    BY <1>2, <2>2 DEF Begin
  <2>4. RepliesFit(t)'
    BY <1>3, <2>1, <2>2, <2>3 DEF RepliesFit, Begin, Has
  <2> QED BY <2>1, <2>2, <2>4, ReadingKeepsInv
<1> QED BY <1>5, <1>6

LEMMA VerifyKeepsInv ==
    ASSUME AccountInv, NEW t \in Tasks, NEW b \in Browsers, Verify(t, b)
    PROVE  AccountInv'
<1> DEFINE base == Writes("verify", b, NoUpdate)
           open == [role |-> pending[b], flags |-> {"accepted"}]
           work == [base EXCEPT !.session = open, !.pending = NoCookie]
<1>1. base \in Task /\ base.op = "verify" /\ base.update = NoUpdate
  BY WritesIsTask DEF Ops, NoUpdate, Update
<1>2. pending[b] \in Roles /\ task \in [Tasks -> Task]
  BY DEF AccountInv, AccountTypeOK, Verify
<1>3. open \in Session
  BY <1>2 DEF Session
<1>4. Begin(t, work) /\ UNCHANGED confirmed
  BY DEF Verify
<1>5. "accepted" \in user.flags
  BY DEF AccountInv, AcceptanceIsRecorded, Verify, Has
<1>6. open.flags \subseteq user.flags
  BY <1>5
<1> HIDE DEF base, open
<1>7. work \in Task /\ work.op = "verify" /\ work.update = NoUpdate
      /\ work.session = open /\ work.pending = NoCookie
  BY <1>1, <1>3 DEF Task
<1> HIDE DEF work
<1>8. task'[t] = work
  BY <1>2, <1>4 DEF Begin
<1>9. RepliesFit(t)'
  BY <1>4, <1>6, <1>7, <1>8, AccountAssumption DEF RepliesFit, Begin, Has
<1> QED BY <1>4, <1>7, <1>9, ReadingKeepsInv

LEMMA AcceptKeepsInv ==
    ASSUME AccountInv, NEW t \in Tasks, NEW b \in Browsers, Accept(t, b)
    PROVE  AccountInv'
<1> DEFINE upd == Turn({"accepted"}, {})
           base == Writes("accept", b, upd)
           open == [role |-> session[b].role, flags |-> {"accepted"}]
           work == [base EXCEPT !.session = open]
<1>1. upd \in Update /\ upd.set = {"accepted"} \ user.flags /\ upd.clear = {}
      /\ upd.secret = Keep /\ upd.role = Keep
  <2>1. {"accepted"} \in SUBSET Flags /\ {} \in SUBSET Flags
    BY DEF Flags
  <2>2. {} \cap user.flags = {}
    OBVIOUS
  <2> QED BY <2>1, <2>2, TurnIsUpdate
<1> HIDE DEF upd
<1>2. base \in Task /\ base.op = "accept" /\ base.update = upd /\ base.pending = Keep
  BY <1>1, WritesIsTask DEF Ops
<1>3. session[b] \in Session /\ task \in [Tasks -> Task]
  BY DEF AccountInv, AccountTypeOK, Accept, IsAdmin
<1>4. open \in Session /\ open.flags = {"accepted"}
  BY <1>3 DEF Session
<1>5. Begin(t, work) /\ UNCHANGED confirmed
  BY DEF Accept, AcceptUpdate, upd
<1> HIDE DEF base, open
<1>6. work \in Task /\ work.op = "accept" /\ work.update = upd
      /\ work.session = open /\ work.pending = Keep
  BY <1>2, <1>4 DEF Task
<1> HIDE DEF work
<1>7. task'[t] = work
  BY <1>3, <1>5 DEF Begin
<1>8. RepliesFit(t)'
  BY <1>1, <1>4, <1>5, <1>6, <1>7, AccountAssumption DEF RepliesFit, Begin, Has
<1>9. WritesFit(t)'
  BY <1>1, <1>6, <1>7 DEF WritesFit
<1>10. EnrolmentFits(t)'
  BY <1>6, <1>7 DEF EnrolmentFits
<1> QED BY <1>5, <1>6, <1>8, <1>9, <1>10, BeginKeepsInv DEF AccountInv

\* A handler that sets no cookie only has to write what fits.
LEMMA WritingKeepsInv ==
    ASSUME AccountInv, NEW t \in Tasks, NEW b \in Browsers,
           NEW op \in Ops, NEW update \in Update,
           Begin(t, Writes(op, b, update)),
           confirmed \subseteq confirmed', confirmed' \subseteq shown,
           update.clear \cap {"accepted"} = {},
           "enabled" \in update.set => op = "confirm",
           "enabled" \in update.clear => op = "disable",
           update.secret # Keep => op \in {"generate", "disable"},
           op = "generate" => ~Has("enabled"),
           op = "confirm" => user.secret \in confirmed',
           op = "disable" =>
               /\ update.secret \in {Keep, NoSecret}
               /\ "enabled" \in update.clear <=> Has("enabled"),
           update.role # Keep => op = "update"
    PROVE  AccountInv'
<1> DEFINE work == Writes(op, b, update)
<1>1. work \in Task /\ work.op = op /\ work.update = update
      /\ work.session = Keep /\ work.pending = Keep
  BY WritesIsTask
<1>2. task'[t] = work
  BY DEF Begin, AccountInv, AccountTypeOK
<1>3. user' = user
  BY DEF Begin
<1> HIDE DEF work
<1>4. WritesFit(t)'
  BY <1>1, <1>2 DEF WritesFit
<1>5. RepliesFit(t)'
  BY <1>1, <1>2, AccountAssumption DEF RepliesFit
<1>6. EnrolmentFits(t)'
  BY <1>1, <1>2, <1>3 DEF EnrolmentFits, Has
<1> QED BY <1>1, <1>4, <1>5, <1>6, BeginKeepsInv DEF work

LEMMA GenerateKeepsInv ==
    ASSUME AccountInv, NEW t \in Tasks, NEW b \in Browsers, Generate(t, b)
    PROVE  AccountInv'
<1>1. PICK s \in Secrets : Begin(t, Writes("generate", b, GenerateUpdate(s)))
  BY DEF Generate
<1> DEFINE turn == Turn({}, {"enabled"})
           upd == [turn EXCEPT !.secret = s]
<1>2. turn \in Update /\ turn.set = {} /\ turn.clear = {"enabled"} \cap user.flags
      /\ turn.role = Keep
  <2>1. {"enabled"} \in SUBSET Flags /\ {} \in SUBSET Flags
    BY DEF Flags
  <2>2. {} \ user.flags = {}
    OBVIOUS
  <2> QED BY <2>1, <2>2, TurnIsUpdate
<1>3. Begin(t, Writes("generate", b, upd))
  BY <1>1 DEF GenerateUpdate
<1> HIDE DEF turn
<1>4. upd \in Update /\ upd.set = {} /\ upd.clear = {"enabled"} \cap user.flags
      /\ upd.role = Keep
  BY <1>2 DEF Update
<1> HIDE DEF upd
<1>5. ~Has("enabled") /\ UNCHANGED confirmed /\ confirmed \subseteq shown
  BY DEF Generate, MayGenerate, AccountInv
<1>6. "enabled" \notin upd.clear /\ upd.clear \cap {"accepted"} = {}
  BY <1>4, <1>5 DEF Has
<1>7. "generate" \in Ops
  BY DEF Ops, TotpOps
<1> QED BY <1>3, <1>4, <1>5, <1>6, <1>7, WritingKeepsInv

LEMMA ConfirmKeepsInv ==
    ASSUME AccountInv, NEW t \in Tasks, NEW b \in Browsers, Confirm(t, b)
    PROVE  AccountInv'
<1> DEFINE upd == Turn({"enabled"}, {})
<1>1. upd \in Update /\ upd.clear = {} /\ upd.secret = Keep /\ upd.role = Keep
  <2>1. {"enabled"} \in SUBSET Flags /\ {} \in SUBSET Flags
    BY DEF Flags
  <2>2. {} \cap user.flags = {}
    OBVIOUS
  <2> QED BY <2>1, <2>2, TurnIsUpdate
<1>2. Begin(t, Writes("confirm", b, upd))
  BY DEF Confirm, ConfirmUpdate
<1> HIDE DEF upd
<1>3. confirmed \subseteq confirmed' /\ confirmed' \subseteq shown
      /\ user.secret \in confirmed'
  BY DEF Confirm, CodeMatches, AccountInv
<1>4. "confirm" \in Ops
  BY DEF Ops, TotpOps
<1> QED BY <1>1, <1>2, <1>3, <1>4, WritingKeepsInv

LEMMA DisableKeepsInv ==
    ASSUME AccountInv, NEW t \in Tasks, NEW b \in Browsers, Disable(t, b)
    PROVE  AccountInv'
<1> DEFINE turn == Turn({}, {"enabled"})
           upd == [turn EXCEPT !.secret = Change(NoSecret, user.secret)]
<1>1. turn \in Update /\ turn.set = {} /\ turn.clear = {"enabled"} \cap user.flags
      /\ turn.role = Keep
  <2>1. {"enabled"} \in SUBSET Flags /\ {} \in SUBSET Flags
    BY DEF Flags
  <2>2. {} \ user.flags = {}
    OBVIOUS
  <2> QED BY <2>1, <2>2, TurnIsUpdate
<1>2. Begin(t, Writes("disable", b, upd))
  BY DEF Disable, DisableUpdate
<1> HIDE DEF turn
<1>3. upd \in Update /\ upd.set = {} /\ upd.clear = {"enabled"} \cap user.flags
      /\ upd.secret \in {Keep, NoSecret} /\ upd.role = Keep
  BY <1>1 DEF Update, Change
<1> HIDE DEF upd
<1>4. "enabled" \in upd.clear <=> Has("enabled")
  BY <1>3 DEF Has
<1>5. upd.clear \cap {"accepted"} = {} /\ "enabled" \notin upd.set
  BY <1>3
<1>6. UNCHANGED confirmed /\ confirmed \subseteq shown
  BY DEF Disable, AccountInv
<1>7. "disable" \in Ops
  BY DEF Ops, TotpOps
<1> QED BY <1>2, <1>3, <1>4, <1>5, <1>6, <1>7, WritingKeepsInv

LEMMA UpdateUserKeepsInv ==
    ASSUME AccountInv, NEW t \in Tasks, NEW b \in Browsers, UpdateUser(t, b)
    PROVE  AccountInv'
<1>1. PICK role \in Roles \cup {Keep}, on \in SUBSET {"active"},
           off \in SUBSET {"active"} :
          Begin(t, Writes("update", b, PatchUpdate(role, on, off \ on)))
  BY DEF UpdateUser
<1> DEFINE turn == Turn(on, off \ on)
           upd == [turn EXCEPT !.role = Change(role, user.role)]
<1>2. turn \in Update /\ turn.set = on \ user.flags
      /\ turn.clear = (off \ on) \cap user.flags /\ turn.secret = Keep
  <2>1. on \in SUBSET Flags /\ (off \ on) \in SUBSET Flags
    BY DEF Flags
  <2> QED BY <2>1, TurnIsUpdate
<1>3. Begin(t, Writes("update", b, upd))
  BY <1>1 DEF PatchUpdate
<1> HIDE DEF turn
<1>4. upd \in Update /\ upd.secret = Keep /\ upd.set = on \ user.flags
      /\ upd.clear = (off \ on) \cap user.flags
  BY <1>2 DEF Update, Change
<1> HIDE DEF upd
<1>5. /\ "enabled" \notin upd.set
      /\ "enabled" \notin upd.clear
      /\ upd.clear \cap {"accepted"} = {}
  BY <1>4
<1>6. UNCHANGED confirmed /\ confirmed \subseteq shown
  BY DEF UpdateUser, AccountInv
<1>7. "update" \in Ops
  BY DEF Ops
<1> QED BY <1>3, <1>4, <1>5, <1>6, <1>7, WritingKeepsInv

LEMMA DeactivateKeepsInv ==
    ASSUME AccountInv, NEW t \in Tasks, NEW b \in Browsers, Deactivate(t, b)
    PROVE  AccountInv'
<1> DEFINE upd == Turn({}, {"active"})
<1>1. upd \in Update /\ upd.set = {} /\ upd.clear = {"active"} \cap user.flags
      /\ upd.secret = Keep /\ upd.role = Keep
  <2>1. {"active"} \in SUBSET Flags /\ {} \in SUBSET Flags
    BY DEF Flags
  <2>2. {} \ user.flags = {}
    OBVIOUS
  <2> QED BY <2>1, <2>2, TurnIsUpdate
<1>2. Begin(t, Writes("delete", b, upd))
  BY DEF Deactivate
<1> HIDE DEF upd
<1>3. /\ "enabled" \notin upd.set
      /\ "enabled" \notin upd.clear
      /\ upd.clear \cap {"accepted"} = {}
  BY <1>1
<1>4. UNCHANGED confirmed /\ confirmed \subseteq shown
  BY DEF Deactivate, AccountInv
<1>5. "delete" \in Ops
  BY DEF Ops
<1> QED BY <1>1, <1>2, <1>3, <1>4, <1>5, WritingKeepsInv

(***************************************************************************)
(* Committing.                                                             *)
(***************************************************************************)
LEMMA AppliedFits ==
    ASSUME AccountInv, NEW t \in Tasks, user' = Applied(task[t].update)
    PROVE  /\ task[t] \in Task /\ task[t].update \in Update
           /\ user \in User
           /\ user' \in User
           /\ user'.flags = (user.flags \ task[t].update.clear) \cup task[t].update.set
           /\ task[t].update.secret = Keep => user'.secret = user.secret
           /\ task[t].update.secret # Keep => user'.secret = task[t].update.secret
           /\ task[t].update.role = Keep => user'.role = user.role
           /\ task[t].update = NoUpdate =>
                 /\ user'.flags = user.flags
                 /\ user'.secret = user.secret
                 /\ user'.role = user.role
<1> DEFINE u == task[t].update
<1>1. task[t] \in Task /\ user \in User
  BY DEF AccountInv, AccountTypeOK
<1>2. u \in Update
  BY <1>1 DEF Task
<1>3. u = NoUpdate => u.role = Keep /\ u.secret = Keep /\ u.set = {} /\ u.clear = {}
  BY DEF NoUpdate
<1> HIDE DEF u
<1>4. /\ user'.role = Merge(u.role, user.role)
      /\ user'.secret = Merge(u.secret, user.secret)
      /\ user'.flags = (user.flags \ u.clear) \cup u.set
  BY DEF Applied, u
<1>5. user' \in User
  <2>1. Merge(u.role, user.role) \in Roles
    BY <1>1, <1>2 DEF Merge, Update, User
  <2>2. Merge(u.secret, user.secret) \in Stored
    BY <1>1, <1>2 DEF Merge, Update, User, Stored
  <2>3. (user.flags \ u.clear) \cup u.set \in SUBSET Flags
    BY <1>1, <1>2 DEF Update, User
  <2> QED BY <2>1, <2>2, <2>3 DEF Applied, User, u
<1>6. u = NoUpdate => user'.flags = user.flags
  BY <1>3, <1>4
<1> QED BY <1>1, <1>2, <1>3, <1>4, <1>5, <1>6 DEF Merge, u

\* What a commit may do to the enrolment and to the acceptance.
LEMMA CommitColumns ==
    ASSUME AccountInv, NEW t \in Tasks, user' = Applied(task[t].update)
    PROVE  /\ Has("accepted") => Has("accepted")'
           /\ task[t].op \notin TotpOps \/ task[t].update = NoUpdate =>
                 /\ user'.secret = user.secret
                 /\ Has("enabled")' <=> Has("enabled")
           /\ t \notin overtaken /\ task[t].op = "generate" =>
                 ~Has("enabled") /\ ~Has("enabled")'
           /\ t \notin overtaken /\ task[t].op = "disable" => ~Has("enabled")'
           /\ t \notin overtaken /\ task[t].op = "confirm" =>
                 user'.secret = user.secret /\ user.secret \in confirmed
           /\ task[t].op = "confirm" =>
                 user'.secret = user.secret /\ (Has("enabled") => Has("enabled")')
<1>1. WritesFit(t) /\ (t \notin overtaken => EnrolmentFits(t))
  BY DEF AccountInv
<1>2. user'.flags = (user.flags \ task[t].update.clear) \cup task[t].update.set
  BY AppliedFits
<1>3. Has("accepted") => Has("accepted")'
  BY <1>1, <1>2 DEF WritesFit, Has
<1>4. ASSUME task[t].op \notin TotpOps
      PROVE  user'.secret = user.secret /\ (Has("enabled")' <=> Has("enabled"))
  <2>1. /\ task[t].update.secret = Keep
        /\ "enabled" \notin task[t].update.set
        /\ "enabled" \notin task[t].update.clear
    BY <1>1, <1>4 DEF WritesFit, TotpOps
  <2>2. user'.secret = user.secret
    BY <2>1, AppliedFits
  <2>3. Has("enabled")' <=> Has("enabled")
    BY <1>2, <2>1 DEF Has
  <2> QED BY <2>2, <2>3
<1>5. ASSUME task[t].update = NoUpdate
      PROVE  user'.secret = user.secret /\ (Has("enabled")' <=> Has("enabled"))
  BY <1>5, AppliedFits DEF Has
<1>6. ASSUME t \notin overtaken, task[t].op = "generate"
      PROVE  ~Has("enabled") /\ ~Has("enabled")'
  <2>1. "enabled" \notin task[t].update.set
    BY <1>1, <1>6 DEF WritesFit
  <2> QED BY <1>1, <1>2, <1>6, <2>1 DEF EnrolmentFits, Has
<1>7. ASSUME t \notin overtaken, task[t].op = "disable"
      PROVE  ~Has("enabled")'
  <2>1. "enabled" \notin task[t].update.set
    BY <1>1, <1>7 DEF WritesFit
  <2> QED BY <1>1, <1>2, <1>7, <2>1 DEF EnrolmentFits, Has
<1>8. ASSUME task[t].op = "confirm"
      PROVE  /\ user'.secret = user.secret
             /\ Has("enabled") => Has("enabled")'
             /\ t \notin overtaken => user.secret \in confirmed
  <2>1. task[t].update.secret = Keep /\ "enabled" \notin task[t].update.clear
    BY <1>1, <1>8 DEF WritesFit
  <2>2. user'.secret = user.secret
    BY <2>1, AppliedFits
  <2>3. Has("enabled") => Has("enabled")'
    BY <1>2, <2>1 DEF Has
  <2> QED BY <1>1, <1>8, <2>2, <2>3 DEF EnrolmentFits
<1> QED BY <1>3, <1>4, <1>5, <1>6, <1>7, <1>8

LEMMA CommitKeepsCookies ==
    ASSUME AccountInv, NEW t \in Tasks, Commit(t)
    PROVE  /\ session' \in [Browsers -> Session \cup {NoCookie}]
           /\ pending' \in [Browsers -> Roles \cup {NoCookie}]
           /\ AcceptanceIsRecorded'
<1> DEFINE k == task[t]
<1>1. /\ user' = Applied(k.update)
      /\ session \in [Browsers -> Session \cup {NoCookie}]
      /\ pending \in [Browsers -> Roles \cup {NoCookie}]
      /\ NoCookie # Keep
  BY AccountAssumption DEF Commit, AccountInv, AccountTypeOK
<1>2. k \in Task
  BY <1>1, AppliedFits
<1>3. /\ k.browser \in Browsers
      /\ k.session \in Session \cup {Keep}
      /\ k.pending \in Roles \cup {NoCookie, Keep}
  BY <1>2 DEF Task
<1>4. user'.flags = (user.flags \ k.update.clear) \cup k.update.set
  BY <1>1, AppliedFits
<1>5. Has("accepted") => Has("accepted")'
  BY <1>1, CommitColumns
<1>6. "accepted" \notin k.update.clear
  BY DEF AccountInv, WritesFit
<1>7. RepliesFit(t)
  BY DEF AccountInv
<1>8. k.session # Keep => k.session.flags \subseteq user'.flags
  <2> SUFFICES ASSUME k.session # Keep PROVE k.session.flags \subseteq user'.flags
    OBVIOUS
  <2>1. k.session.flags \subseteq {"accepted"}
    BY <1>3 DEF Session
  <2>2. k.session.flags \subseteq user.flags \cup k.update.set
    BY <1>7 DEF RepliesFit
  <2> QED BY <1>4, <1>6, <2>1, <2>2
<1>9. k.pending \in Roles => Has("accepted")'
  BY <1>5, <1>7 DEF RepliesFit
<1>10. \A b \in Browsers :
          /\ session[b] # NoCookie => session[b].flags \subseteq user'.flags
          /\ pending[b] # NoCookie => Has("accepted")'
  <2> TAKE b \in Browsers
  <2>1. pending[b] # NoCookie => Has("accepted")'
    BY <1>5 DEF AccountInv, AcceptanceIsRecorded
  <2>2. ASSUME session[b] # NoCookie PROVE session[b].flags \subseteq user'.flags
    <3>1. session[b].flags \subseteq {"accepted"}
      BY <1>1, <2>2 DEF Session
    <3>2. session[b].flags \subseteq user.flags
      BY <2>2 DEF AccountInv, AcceptanceIsRecorded
    <3> QED BY <1>5, <3>1, <3>2 DEF Has
  <2> QED BY <2>1, <2>2
<1>11. CASE UNCHANGED <<session, pending, shown>>
  BY <1>1, <1>10, <1>11 DEF AcceptanceIsRecorded
<1>12. CASE /\ session' = [session EXCEPT ![k.browser] = Merge(k.session, @)]
            /\ pending' = [pending EXCEPT ![k.browser] = Merge(k.pending, @)]
  <2> HIDE DEF k
  <2>1. session' \in [Browsers -> Session \cup {NoCookie}]
    BY <1>1, <1>3, <1>12 DEF Merge
  <2>2. pending' \in [Browsers -> Roles \cup {NoCookie}]
    BY <1>1, <1>3, <1>12 DEF Merge
  <2>3. ASSUME NEW b \in Browsers, session'[b] # NoCookie
        PROVE  session'[b].flags \subseteq user'.flags
    <3>1. session'[b] = session[b] \/ (session'[b] = k.session /\ k.session # Keep)
      BY <1>1, <1>3, <1>12 DEF Merge
    <3> QED BY <1>8, <1>10, <2>3, <3>1
  <2>4. ASSUME NEW b \in Browsers, pending'[b] # NoCookie
        PROVE  Has("accepted")'
    <3>1. pending'[b] = pending[b] \/ (pending'[b] = k.pending /\ k.pending # Keep)
      BY <1>1, <1>3, <1>12 DEF Merge
    <3> QED BY <1>3, <1>9, <1>10, <2>4, <3>1
  <2> QED BY <2>1, <2>2, <2>3, <2>4 DEF AcceptanceIsRecorded
<1> QED BY <1>11, <1>12 DEF Commit, Deliver

LEMMA CommitKeepsInv ==
    ASSUME AccountInv, NEW t \in Tasks, Commit(t)
    PROVE  AccountInv'
<1>1. /\ user' = Applied(task[t].update)
      /\ task' = [task EXCEPT ![t] = Idle]
      /\ confirmed' = confirmed
      /\ overtaken' = (overtaken \cup OvertakenBy(t)) \ {t}
      /\ relied' = IF /\ task[t].op \in TotpOps
                      /\ t \in overtaken
                      /\ task[t].update # NoUpdate
                   THEN TRUE ELSE relied
  BY DEF Commit
<1>2. shown \subseteq shown' /\ shown' \subseteq Secrets
  BY DEF Commit, Deliver, AccountInv, AccountTypeOK
<1>3. AccountTypeOK'
  <2>1. user' \in User
    BY <1>1, AppliedFits
  <2>2. task' \in [Tasks -> Task]
    BY <1>1, IdleIsTask DEF AccountInv, AccountTypeOK
  <2>3. overtaken' \subseteq Tasks
    BY <1>1 DEF AccountInv, AccountTypeOK, OvertakenBy
  <2>4. relied' \in BOOLEAN
    BY <1>1 DEF AccountInv, AccountTypeOK
  <2>5. confirmed' \subseteq Secrets
    BY <1>1 DEF AccountInv, AccountTypeOK
  <2> QED BY <1>2, <2>1, <2>2, <2>3, <2>4, <2>5, CommitKeepsCookies DEF AccountTypeOK
<1>4. confirmed' \subseteq shown'
  BY <1>1, <1>2 DEF AccountInv
<1>5. EnabledIsConfirmed'
  <2> SUFFICES ASSUME ~relied', Has("enabled")'
               PROVE  user'.secret \in confirmed \cup {Unreadable}
    BY <1>1 DEF EnabledIsConfirmed
  <2>1. ~relied /\ (\/ task[t].op \notin TotpOps
                    \/ t \notin overtaken
                    \/ task[t].update = NoUpdate)
    BY <1>1
  <2>2. CASE task[t].op \notin TotpOps \/ task[t].update = NoUpdate
    BY <1>1, <2>1, <2>2, CommitColumns DEF AccountInv, EnabledIsConfirmed
  <2>3. CASE t \notin overtaken /\ task[t].op \in TotpOps
    BY <1>1, <2>1, <2>3, CommitColumns DEF TotpOps
  <2> QED BY <2>1, <2>2, <2>3
<1>6. ASSUME NEW x \in Tasks
      PROVE  /\ WritesFit(x)'
             /\ RepliesFit(x)'
             /\ (x \notin overtaken)' => EnrolmentFits(x)'
  <2>1. CASE x = t
    <3>1. task'[x] = Idle
      BY <1>1, <2>1 DEF AccountInv, AccountTypeOK
    <3>2. WritesFit(x)'
      BY <3>1, IdleIsTask DEF WritesFit, NoUpdate
    <3>3. RepliesFit(x)'
      BY <3>1, IdleIsTask, AccountAssumption DEF RepliesFit
    <3>4. EnrolmentFits(x)'
      BY <3>1, IdleIsTask DEF EnrolmentFits
    <3> QED BY <3>2, <3>3, <3>4
  <2>2. CASE x # t
    <3>1. task'[x] = task[x] /\ task[x] \in Task
      BY <1>1, <2>2 DEF AccountInv, AccountTypeOK
    <3>2. WritesFit(x) /\ RepliesFit(x)
      BY DEF AccountInv
    <3>3. WritesFit(x)'
      BY <3>1, <3>2 DEF WritesFit
    <3>4. Has("accepted") => Has("accepted")'
      BY <1>1, CommitColumns
    <3>5. RepliesFit(x)'
      <4>1. ASSUME task[x].session # Keep
            PROVE  task[x].session.flags \subseteq user'.flags \cup task[x].update.set
        <5>1. task[x].session.flags \subseteq {"accepted"}
          BY <3>1, <4>1 DEF Task, Session
        <5>2. task[x].session.flags \subseteq user.flags \cup task[x].update.set
          BY <3>2, <4>1 DEF RepliesFit
        <5> QED BY <3>4, <5>1, <5>2 DEF Has
      <4>2. task[x].pending \in Roles => Has("accepted")'
        BY <3>2, <3>4 DEF RepliesFit
      <4> QED BY <3>1, <4>1, <4>2 DEF RepliesFit
    <3>6. ASSUME x \notin overtaken'
          PROVE  EnrolmentFits(x)'
      <4>1. x \notin overtaken /\ x \notin OvertakenBy(t)
        BY <1>1, <2>2, <3>6
      <4>2. EnrolmentFits(x)
        BY <4>1 DEF AccountInv
      <4>3. \/ task[t].update = NoUpdate
            \/ task[t].op \notin TotpOps
            \/ task[x].op \notin TotpOps
        BY <2>2, <4>1 DEF OvertakenBy
      <4>4. CASE task[x].op \in TotpOps
        <5>1. user'.secret = user.secret /\ (Has("enabled")' <=> Has("enabled"))
          BY <1>1, <4>3, <4>4, CommitColumns
        <5> QED BY <1>1, <3>1, <4>2, <5>1 DEF EnrolmentFits
      <4>5. CASE task[x].op \notin TotpOps
        BY <3>1, <4>5 DEF EnrolmentFits, TotpOps
      <4> QED BY <4>4, <4>5
    <3> QED BY <3>3, <3>5, <3>6
  <2> QED BY <2>1, <2>2
<1> QED BY <1>3, <1>4, <1>5, <1>6, CommitKeepsCookies DEF AccountInv

(***************************************************************************)
(* The other steps.                                                        *)
(***************************************************************************)
LEMMA InitInv == Init => AccountInv
<1> SUFFICES ASSUME Init PROVE AccountInv
  OBVIOUS
<1>1. AccountTypeOK
  BY IdleIsTask DEF Init, AccountTypeOK, User, Stored, Roles, Flags
<1>2. EnabledIsConfirmed /\ AcceptanceIsRecorded
  BY DEF Init, EnabledIsConfirmed, AcceptanceIsRecorded, Has
<1>3. ASSUME NEW t \in Tasks
      PROVE  WritesFit(t) /\ RepliesFit(t) /\ EnrolmentFits(t)
  <2>1. task[t] = Idle
    BY DEF Init
  <2> QED
    BY <2>1, IdleIsTask, AccountAssumption
    DEF WritesFit, RepliesFit, EnrolmentFits, NoUpdate
<1> QED BY <1>1, <1>2, <1>3 DEF Init, AccountInv

\* Cookies that are lost, or a secret that is shown again, disturb nobody.
LEMMA BrowserStepsKeepInv ==
    ASSUME AccountInv, NEW b \in Browsers, LoseCookies(b) \/ Show(b)
    PROVE  AccountInv'
<1>1. UNCHANGED <<user, confirmed, task, overtaken, relied>>
  BY DEF LoseCookies, Show
<1>2. shown \subseteq shown' /\ shown' \subseteq Secrets
  BY DEF LoseCookies, Show, AccountInv, AccountTypeOK
<1>3. /\ session' \in [Browsers -> Session \cup {NoCookie}]
      /\ pending' \in [Browsers -> Roles \cup {NoCookie}]
      /\ \A c \in Browsers : /\ session'[c] \in {session[c], NoCookie}
                             /\ pending'[c] \in {pending[c], NoCookie}
  BY DEF LoseCookies, Show, AccountInv, AccountTypeOK
<1>4. AccountTypeOK'
  BY <1>1, <1>2, <1>3 DEF AccountInv, AccountTypeOK
<1>5. EnabledIsConfirmed'
  BY <1>1 DEF AccountInv, EnabledIsConfirmed, Has
<1>6. AcceptanceIsRecorded'
  BY <1>1, <1>3 DEF AccountInv, AcceptanceIsRecorded, Has
<1>7. ASSUME NEW t \in Tasks
      PROVE  /\ WritesFit(t)'
             /\ RepliesFit(t)'
             /\ (t \notin overtaken)' => EnrolmentFits(t)'
  BY <1>1 DEF AccountInv, WritesFit, RepliesFit, EnrolmentFits, Has
<1> QED BY <1>1, <1>2, <1>4, <1>5, <1>6, <1>7 DEF AccountInv

\* An idle handler fits anything.
LEMMA IdleFits ==
    ASSUME NEW t \in Tasks, task'[t] = Idle
    PROVE  WritesFit(t)' /\ RepliesFit(t)' /\ EnrolmentFits(t)'
BY IdleIsTask, AccountAssumption
DEF WritesFit, RepliesFit, EnrolmentFits, NoUpdate

LEMMA KillKeepsInv ==
    ASSUME AccountInv, NEW t \in Tasks, Kill(t)
    PROVE  AccountInv'
<1>1. /\ UNCHANGED <<user, session, pending, shown, confirmed, relied>>
      /\ task' = [task EXCEPT ![t] = Idle]
      /\ overtaken' = overtaken \ {t}
  BY DEF Kill
<1>2. AccountTypeOK'
  BY <1>1, IdleIsTask DEF AccountInv, AccountTypeOK
<1>3. EnabledIsConfirmed' /\ AcceptanceIsRecorded'
  BY <1>1 DEF AccountInv, EnabledIsConfirmed, AcceptanceIsRecorded, Has
<1>4. ASSUME NEW x \in Tasks
      PROVE  /\ WritesFit(x)'
             /\ RepliesFit(x)'
             /\ (x \notin overtaken)' => EnrolmentFits(x)'
  <2>1. CASE x = t
    <3>1. task'[x] = Idle
      BY <1>1, <2>1 DEF AccountInv, AccountTypeOK
    <3> QED BY <3>1, IdleFits
  <2>2. CASE x # t
    <3>1. task'[x] = task[x]
      BY <1>1, <2>2 DEF AccountInv, AccountTypeOK
    <3> QED
      BY <1>1, <2>2, <3>1
      DEF AccountInv, WritesFit, RepliesFit, EnrolmentFits, Has
  <2> QED BY <2>1, <2>2
<1> QED BY <1>1, <1>2, <1>3, <1>4 DEF AccountInv

LEMMA RotateKeyKeepsInv ==
    ASSUME AccountInv, RotateKey
    PROVE  AccountInv'
<1> DEFINE kept == IF user.secret = NoSecret THEN NoSecret ELSE Unreadable
<1>1. user \in User
  BY DEF AccountInv, AccountTypeOK
<1>2. user' = [user EXCEPT !.secret = kept]
  BY DEF RotateKey
<1>3. kept \in {NoSecret, Unreadable} /\ (user.secret # NoSecret => kept = Unreadable)
  OBVIOUS
<1> HIDE DEF kept
<1>4. user' \in User /\ user'.flags = user.flags /\ user'.secret = kept
  BY <1>1, <1>2, <1>3 DEF User, Stored
<1>5. AccountTypeOK'
  BY <1>4, IdleIsTask DEF AccountInv, AccountTypeOK, RotateKey
<1>6. EnabledIsConfirmed'
  <2> SUFFICES ASSUME ~relied, Has("enabled")
               PROVE  kept \in confirmed \cup {Unreadable}
    BY <1>4 DEF EnabledIsConfirmed, RotateKey, Has
  <2>1. user.secret \in confirmed \cup {Unreadable}
    BY DEF AccountInv, EnabledIsConfirmed
  <2>2. user.secret # NoSecret
    BY <2>1, AccountAssumption DEF AccountInv, AccountTypeOK
  <2> QED BY <1>3, <2>2
<1>7. AcceptanceIsRecorded'
  BY DEF RotateKey, AcceptanceIsRecorded
<1>8. ASSUME NEW t \in Tasks PROVE task'[t] = Idle
  BY DEF RotateKey
<1>9. confirmed' \subseteq shown'
  BY DEF RotateKey, AccountInv
<1> QED BY <1>5, <1>6, <1>7, <1>8, <1>9, IdleFits DEF AccountInv

LEMMA NextKeepsInv == AccountInv /\ [Next]_vars => AccountInv'
<1> SUFFICES ASSUME AccountInv, [Next]_vars PROVE AccountInv'
  OBVIOUS
<1>1. CASE UNCHANGED vars
  <2>1. UNCHANGED <<user, session, pending, shown, confirmed, task, overtaken, relied>>
    BY <1>1 DEF vars
  <2>2. AccountTypeOK' /\ EnabledIsConfirmed' /\ AcceptanceIsRecorded'
    BY <2>1 DEF AccountInv, AccountTypeOK, EnabledIsConfirmed, AcceptanceIsRecorded, Has
  <2>3. \A t \in Tasks :
           /\ WritesFit(t)'
           /\ RepliesFit(t)'
           /\ (t \notin overtaken)' => EnrolmentFits(t)'
    BY <2>1 DEF AccountInv, WritesFit, RepliesFit, EnrolmentFits, Has
  <2> QED BY <2>1, <2>2, <2>3 DEF AccountInv
<1>2. ASSUME NEW t \in Tasks, NEW b \in Browsers,
             Login(t, b) \/ Verify(t, b) \/ Accept(t, b)
      PROVE  AccountInv'
  BY <1>2, LoginKeepsInv, VerifyKeepsInv, AcceptKeepsInv
<1>3. ASSUME NEW t \in Tasks, NEW b \in Browsers,
             Generate(t, b) \/ Confirm(t, b) \/ Disable(t, b)
      PROVE  AccountInv'
  BY <1>3, GenerateKeepsInv, ConfirmKeepsInv, DisableKeepsInv
<1>4. ASSUME NEW t \in Tasks, NEW b \in Browsers,
             UpdateUser(t, b) \/ Deactivate(t, b)
      PROVE  AccountInv'
  BY <1>4, UpdateUserKeepsInv, DeactivateKeepsInv
<1>5. ASSUME NEW t \in Tasks, Commit(t) \/ Kill(t)
      PROVE  AccountInv'
  BY <1>5, CommitKeepsInv, KillKeepsInv
<1> QED
  BY <1>1, <1>2, <1>3, <1>4, <1>5, BrowserStepsKeepInv, RotateKeyKeepsInv DEF Next

(***************************************************************************)
(* Every handler that nobody overtook still fits the row, whatever the     *)
(* others do and whoever is killed.                                        *)
(***************************************************************************)
THEOREM AccountInvariant == AccountSpec => []AccountInv
<1> QED BY InitInv, NextKeepsInv, PTL DEF AccountSpec

(***************************************************************************)
(* EnabledIsConfirmed and AcceptanceIsRecorded, for any number of handlers *)
(* and browsers: the second factor that is asked for is one the user has,  *)
(* and cookies do not claim an acceptance that is not on record.           *)
(***************************************************************************)
THEOREM SecondFactorIsConfirmed == AccountSpec => []EnabledIsConfirmed
<1>1. AccountInv => EnabledIsConfirmed
  BY DEF AccountInv
<1> QED BY <1>1, AccountInvariant, PTL

THEOREM CookiesAreHonest == AccountSpec => []AcceptanceIsRecorded
<1>1. AccountInv => AcceptanceIsRecorded
  BY DEF AccountInv
<1> QED BY <1>1, AccountInvariant, PTL

(***************************************************************************)
(* An enrolled account stays enrolled with the secret it confirmed until   *)
(* somebody disables 2FA; of the handlers that were overtaken, only one    *)
(* that had generated a secret can take it away.                           *)
(***************************************************************************)
THEOREM EnrolmentLasts == AccountSpec => EnrolledUntilDisabled
<1> DEFINE Lasts == Has("enabled") =>
              \/ Has("enabled")' /\ user'.secret \in {user.secret, Unreadable}
              \/ \E t \in Tasks : Commits(t, "disable")
              \/ \E t \in overtaken : Commits(t, "generate")
<1>1. AccountInv /\ [Next]_vars => [Lasts]_vars
  <2> SUFFICES ASSUME AccountInv, Next PROVE Lasts
    BY DEF vars
  <2>1. ASSUME user' = user PROVE Lasts
    BY <2>1 DEF Has
  <2>2. ASSUME NEW t \in Tasks, Commit(t) PROVE Lasts
    <3> SUFFICES ASSUME Has("enabled"), task[t].op # "disable",
                        ~(task[t].op = "generate" /\ t \in overtaken)
                 PROVE  Has("enabled")' /\ user'.secret \in {user.secret, Unreadable}
      <4>1. task'[t].op = "idle"
        BY <2>2, IdleIsTask DEF Commit, AccountInv, AccountTypeOK
      <4> QED BY <4>1 DEF Commits
    <3>1. user' = Applied(task[t].update)
      BY <2>2 DEF Commit
    <3>2. task[t].op # "generate"
      BY <3>1, CommitColumns
    <3> QED BY <3>1, <3>2, CommitColumns DEF TotpOps
  <2>3. ASSUME RotateKey PROVE Lasts
    <3> SUFFICES ASSUME Has("enabled")
                 PROVE  Has("enabled")' /\ user'.secret \in {user.secret, Unreadable}
      BY <2>3 DEF RotateKey
    <3>1. user \in User
      BY DEF AccountInv, AccountTypeOK
    <3> QED BY <2>3, <3>1 DEF RotateKey, Has, User
  <2>4. ASSUME NEW t \in Tasks, NEW b \in Browsers,
               Login(t, b) \/ Verify(t, b) \/ Accept(t, b)
        PROVE  user' = user
    BY <2>4 DEF Login, Verify, Accept, Begin
  <2>5. ASSUME NEW t \in Tasks, NEW b \in Browsers,
               Generate(t, b) \/ Confirm(t, b) \/ Disable(t, b)
        PROVE  user' = user
    BY <2>5 DEF Generate, Confirm, Disable, Begin
  <2>6. ASSUME NEW t \in Tasks, NEW b \in Browsers,
               UpdateUser(t, b) \/ Deactivate(t, b)
        PROVE  user' = user
    BY <2>6 DEF UpdateUser, Deactivate, Begin
  <2>7. ASSUME NEW b \in Browsers, LoseCookies(b) \/ Show(b)
        PROVE  user' = user
    BY <2>7 DEF LoseCookies, Show
  <2>8. ASSUME NEW t \in Tasks, Kill(t)
        PROVE  user' = user
    BY <2>8 DEF Kill
  <2> HIDE DEF Lasts
  <2> QED BY <2>1, <2>2, <2>3, <2>4, <2>5, <2>6, <2>7, <2>8 DEF Next
<1> QED BY <1>1, AccountInvariant, PTL DEF AccountSpec, EnrolledUntilDisabled

=============================================================================
