-------------------------- MODULE PasswordHistory --------------------------
(***************************************************************************)
(* One user's password and the history of the former ones.  A change reads *)
(* the row, then the history, and then commits the new hash together with  *)
(* a history row for the hash it had read.  Several changes may be under   *)
(* way at once.                                                            *)
(*                                                                         *)
(* A hash is modelled by the password it verifies.                         *)
(***************************************************************************)
EXTENDS Naturals, Sequences, FiniteSets

CONSTANTS
    Passwords,  \* passwords that satisfy the policy
    Handlers,   \* password changes that may be under way at once
    Count,      \* password_history_count
    MaxChanges, \* bound on the changes ever committed
    MaxTickets  \* bound on the changes ever flushed

ASSUME PasswordAssumption == {Count, MaxChanges, MaxTickets} \subseteq Nat

VARIABLES
    password,   \* User.password_hash
    history,    \* password_history: the former password and its changed_at
    ticket,     \* the time, as far as it orders the rows
    handler,
    trail       \* history variable: all passwords the user has had, in order,
                \* with what the change that set it wrote to the history

passwordVars == <<password, history, ticket, handler, trail>>

\* alone (history): nothing was committed since the row was read.
Handler == [pc : {"read", "allowed", "flushed"},
            old : Passwords, new : Passwords, at : Nat, alone : BOOLEAN]
NoChange == [pc |-> "idle"]

PasswordTypeOK ==
    /\ password \in Passwords
    /\ history \subseteq [pw : Passwords, at : Nat]
    /\ ticket \in Nat
    /\ handler \in [Handlers -> Handler \cup {NoChange}]
    /\ trail \in Seq([pw : Passwords, alone : BOOLEAN, old : Passwords, at : Nat])

PasswordInit ==
    /\ password \in Passwords
    /\ history = {}
    /\ ticket = 0
    /\ handler = [h \in Handlers |-> NoChange]
    /\ trail = <<[pw |-> password, alone |-> TRUE, old |-> password, at |-> 0]>>

\* The caller proves the current password; the session keeps the row.
ReadUser(h, new) ==
    /\ handler[h] = NoChange
    /\ handler' = [handler EXCEPT ![h] = [pc |-> "read", old |-> password,
                     new |-> new, at |-> 0, alone |-> TRUE]]
    /\ UNCHANGED <<password, history, ticket, trail>>

\* Variant with a bug: the rows are taken from the old end.
FirstRows(n) ==
    {r \in history : Cardinality({q \in history : q.at < r.at}) < n}
LastRows(n) ==
    {r \in history : Cardinality({q \in history : q.at > r.at}) < n}

AllowedBy(rows, new) == \A r \in rows : r.pw # new

CheckHistory(h) ==
    /\ handler[h].pc = "read"
    /\ AllowedBy(LastRows(Count), handler[h].new)
    /\ handler' = [handler EXCEPT ![h].pc = "allowed"]
    /\ UNCHANGED <<password, history, ticket, trail>>

\* changed_at is taken when the row is flushed, before the database has let
\* the transaction write.
Flush(h) ==
    /\ handler[h].pc = "allowed"
    /\ ticket < MaxTickets
    /\ ticket' = ticket + 1
    /\ handler' = [handler EXCEPT ![h].pc = "flushed", ![h].at = ticket']
    /\ UNCHANGED <<password, history, trail>>

CommitChange(h) ==
    /\ handler[h].pc = "flushed"
    /\ Len(trail) <= MaxChanges
    /\ history' = history \cup {[pw |-> handler[h].old, at |-> handler[h].at]}
    /\ password' = handler[h].new
    /\ trail' = Append(trail, [pw |-> handler[h].new, alone |-> handler[h].alone,
                               old |-> handler[h].old, at |-> handler[h].at])
    /\ handler' = [g \in Handlers |->
                     IF g = h \/ handler[g] = NoChange THEN NoChange
                     ELSE [handler[g] EXCEPT !.alone = FALSE]]
    /\ UNCHANGED ticket

\* Refused, a failed commit, or the end of the process.
EndChange(h) ==
    /\ handler[h] # NoChange
    /\ handler' = [handler EXCEPT ![h] = NoChange]
    /\ UNCHANGED <<password, history, ticket, trail>>

PasswordNext ==
    \E h \in Handlers :
        \/ \E new \in Passwords : ReadUser(h, new)
        \/ CheckHistory(h) \/ Flush(h) \/ CommitChange(h) \/ EndChange(h)

PasswordSpec == PasswordInit /\ [][PasswordNext]_passwordVars

-----------------------------------------------------------------------------

\* A new password is none of the Count that preceded the one it replaces,
\* as long as the last Count changes and this one were not made on a row
\* somebody else was changing.  (A change made on an old row stores a former
\* password a second time: the history then reaches less far back.)
NoEarlyReuse ==
    \A i \in DOMAIN trail :
        (\A k \in DOMAIN trail : k <= i /\ k + Count >= i => trail[k].alone) =>
            \A j \in DOMAIN trail :
                j < i - 1 /\ j + Count >= i - 1 => trail[j].pw # trail[i].pw

-----------------------------------------------------------------------------
(* The invariant of the proofs.                                            *)

\* The row that the change to trail[k] left in the history.
Left(k) == [pw |-> trail[k].old, at |-> trail[k].at]

HistoryIsTrail ==
    /\ trail # <<>> /\ trail[Len(trail)].pw = password
    /\ history = {Left(k) : k \in 2..Len(trail)}
    /\ \A k \in 1..Len(trail) : trail[k].at <= ticket

\* A change on a current row recorded the password it replaced, later than
\* all changes before it.
AloneIsInOrder ==
    \A k \in 2..Len(trail) : trail[k].alone =>
        /\ trail[k].old = trail[k - 1].pw
        /\ \A m \in 1..(k - 1) : trail[m].at <= trail[k].at

\* What a handler has read and checked still holds while it is alone.
ChecksHold ==
    \A h \in Handlers : handler[h] # NoChange /\ handler[h].alone =>
        /\ handler[h].old = password
        /\ handler[h].pc \in {"allowed", "flushed"} =>
              AllowedBy(LastRows(Count), handler[h].new)
        /\ handler[h].pc = "flushed" =>
              \A k \in 1..Len(trail) : trail[k].at <= handler[h].at

PasswordInv ==
    /\ PasswordTypeOK
    /\ \A h \in Handlers : handler[h] # NoChange => handler[h].at <= ticket
    /\ HistoryIsTrail /\ AloneIsInOrder /\ ChecksHold
    /\ NoEarlyReuse

=============================================================================
