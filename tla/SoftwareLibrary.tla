-------------------------- MODULE SoftwareLibrary --------------------------
(***************************************************************************)
(* The software table as its endpoints change it: POST, PATCH and DELETE   *)
(* of an entry, and the import of an exported library, which works through *)
(* its list on one session with a commit per entry while the others go on. *)
(*                                                                         *)
(* canonical_name is unique.  A commit that fails in the import is caught  *)
(* and counted, and nobody rolls the session back: its next query raises.  *)
(***************************************************************************)
EXTENDS Naturals, Sequences, FiniteSets, SequencesExt

CONSTANTS
    Names,      \* canonical names
    NoName,     \* an element of the import without one, or no object at all
    Ids,        \* rows ever created: a bound
    NoId,
    MaxEntries, \* bound on the length of an imported list
    DbFails,    \* a commit may fail (locked, full)
    KillImport  \* the import's process may be killed

ASSUME LibraryAssumption ==
    /\ NoName \notin Names
    /\ NoId \notin Ids
    /\ Ids \cap Names = {}
    /\ MaxEntries \in Nat
    /\ {DbFails, KillImport} \subseteq BOOLEAN

VARIABLES
    table,      \* the name of each row, or NoName if it is free or deleted
    spent,      \* rows that have been created
    audited,    \* rows whose creation is on the audit log
    body,       \* the list of the import
    import,     \* the import
    seen        \* history: names in the table at some moment of the import

libraryVars == <<table, spent, audited, body, import, seen>>

\* fit: its fields pass the validation of SoftwareCreate.
Entry == [name : Names, fit : BOOLEAN] \cup [name : {NoName}, fit : {FALSE}]

Import == [pc : {"idle", "lookup", "insert", "refresh", "audit", "replied", "raised"},
           next : Nat, row : Ids \cup {NoId}, broken : BOOLEAN,
           created : SUBSET Ids, skipped : Nat]

NoImport == [pc |-> "idle", next |-> 1, row |-> NoId, broken |-> FALSE,
             created |-> {}, skipped |-> 0]

LibraryTypeOK ==
    /\ table \in [Ids -> Names \cup {NoName}]
    /\ audited \subseteq spent /\ spent \subseteq Ids
    /\ body \in Seq(Entry)
    /\ import \in Import
    /\ seen \subseteq Names

Stored(tab) == {tab[i] : i \in Ids} \ {NoName}

LibraryInit ==
    /\ table = [i \in Ids |-> NoName]
    /\ spent = {}
    /\ audited = {}
    /\ body = <<>>
    /\ import = NoImport
    /\ seen = {}

\* Rows change only here.
Store(tab) ==
    /\ table' = tab
    /\ seen' = seen \cup Stored(tab)

Insert(i, n) ==
    /\ i \notin spent
    /\ n \notin Stored(table)
    /\ Store([table EXCEPT ![i] = n])
    /\ spent' = spent \cup {i}

-----------------------------------------------------------------------------
(* The endpoints of one entry.                                             *)

\* The row is committed.  A taken name is answered with 500.
CreateEntry(i, n) ==
    /\ Insert(i, n)
    /\ UNCHANGED <<audited, body, import>>

\* The second commit of POST; it never happens if the process dies between.
AuditEntry(i) ==
    /\ i \in spent \ audited
    /\ i # import.row
    /\ audited' = audited \cup {i}
    /\ UNCHANGED <<table, spent, body, import, seen>>

RenameEntry(i, n) ==
    /\ table[i] # NoName
    /\ n \notin Stored(table)
    /\ Store([table EXCEPT ![i] = n])
    /\ UNCHANGED <<spent, audited, body, import>>

DeleteEntry(i) ==
    /\ table[i] # NoName
    /\ Store([table EXCEPT ![i] = NoName])
    /\ UNCHANGED <<spent, audited, body, import>>

-----------------------------------------------------------------------------
(* The import.                                                             *)

Current == body[import.next]

StartImport(list) ==
    /\ import.pc \in {"idle", "replied", "raised"}
    /\ body' = list
    /\ import' = [NoImport EXCEPT !.pc = "lookup"]
    /\ seen' = Stored(table)
    /\ UNCHANGED <<table, spent, audited>>

\* Counting an element as skipped and taking the next one.
Skipped == [import EXCEPT !.pc = "lookup", !.next = @ + 1, !.row = NoId,
                          !.skipped = @ + 1]

\* Variant with a bug: the loop ends at the first element that fails.
SkippedRest == [import EXCEPT !.pc = "lookup", !.next = Len(body) + 1, !.row = NoId,
                              !.skipped = @ + 1]
Caught == Skipped

\* What lies before the try: elements without a name, and the query for the
\* name, which raises on a broken session and ends the request with 500.
\* Past the query SoftwareCreate validates the fields, inside the try.
Lookup ==
    /\ import.pc = "lookup"
    /\ import.next <= Len(body)
    /\ import' =
         IF Current.name = NoName THEN Skipped
         ELSE IF import.broken THEN [import EXCEPT !.pc = "raised"]
         ELSE IF Current.name \in Stored(table) THEN Skipped
         ELSE IF ~Current.fit THEN Caught
         ELSE [import EXCEPT !.pc = "insert"]
    /\ UNCHANGED <<table, spent, audited, body, seen>>

InsertRow(i) ==
    /\ import.pc = "insert"
    /\ Insert(i, Current.name)
    /\ import' = [import EXCEPT !.pc = "refresh", !.row = i]
    /\ UNCHANGED <<audited, body>>

\* Somebody else stored the name since the query, or the commit failed.
InsertFails ==
    /\ import.pc = "insert"
    /\ Current.name \in Stored(table) \/ DbFails
    /\ import' = [Caught EXCEPT !.broken = TRUE]
    /\ UNCHANGED <<table, spent, audited, body, seen>>

\* The refresh raises if the row is gone; the session stays usable.
Refresh ==
    /\ import.pc = "refresh"
    /\ import' = IF table[import.row] = NoName THEN Caught
                 ELSE [import EXCEPT !.pc = "audit"]
    /\ UNCHANGED <<table, spent, audited, body, seen>>

AuditImport ==
    /\ import.pc = "audit"
    /\ audited' = audited \cup {import.row}
    /\ import' = [import EXCEPT !.pc = "lookup", !.next = @ + 1, !.row = NoId,
                                !.created = @ \cup {import.row}]
    /\ UNCHANGED <<table, spent, body, seen>>

AuditFails ==
    /\ DbFails
    /\ import.pc = "audit"
    /\ import' = [Caught EXCEPT !.broken = TRUE]
    /\ UNCHANGED <<table, spent, audited, body, seen>>

Reply ==
    /\ import.pc = "lookup"
    /\ import.next > Len(body)
    /\ import' = [import EXCEPT !.pc = "replied"]
    /\ UNCHANGED <<table, spent, audited, body, seen>>

Kill ==
    /\ KillImport
    /\ import.pc \notin {"idle", "replied", "raised"}
    /\ import' = NoImport
    /\ UNCHANGED <<table, spent, audited, body, seen>>

LibraryNext ==
    \/ \E i \in Ids, n \in Names : CreateEntry(i, n) \/ RenameEntry(i, n)
    \/ \E i \in Ids : AuditEntry(i) \/ DeleteEntry(i) \/ InsertRow(i)
    \/ \E list \in BoundedSeq(Entry, MaxEntries) : StartImport(list)
    \/ Lookup \/ InsertFails \/ Refresh \/ AuditImport \/ AuditFails \/ Reply
    \/ Kill

LibrarySpec == LibraryInit /\ [][LibraryNext]_libraryVars

-----------------------------------------------------------------------------

\* What the reply of an import is worth: every element is counted once, what
\* counts as created was stored and is on the audit log, and the name of an
\* element that counts as skipped was in the table at some moment of the
\* import, unless the element is unfit or its own commit failed; after a
\* failed commit no further name is looked up under a 201.
ImportAccounts ==
    import.pc = "replied" =>
        /\ Cardinality(import.created) + import.skipped = Len(body)
        /\ import.created \subseteq audited
        /\ \A k \in 1..Len(body) :
              (body[k].fit /\ body[k].name \notin seen) =>
                  \A j \in (k + 1)..Len(body) : body[j].name = NoName

-----------------------------------------------------------------------------
(* The invariant of the proofs.                                            *)

\* The element at hand is a named one on a usable session; once stored, its
\* row is nobody else's to audit.
AtHand ==
    /\ import.pc \in {"insert", "refresh", "audit"} =>
          /\ import.next \in 1..Len(body)
          /\ Current.name \in Names /\ ~import.broken
    /\ import.pc \in {"refresh", "audit"} =>
          import.row \in spent \ audited /\ Current.name \in seen

\* What has been counted so far, and how.
Counted ==
    import.pc \in {"lookup", "insert", "refresh", "audit", "replied"} =>
        /\ import.next \in 1..(Len(body) + 1)
        /\ Stored(table) \subseteq seen
        /\ import.created \subseteq audited /\ IsFiniteSet(import.created)
        /\ Cardinality(import.created) + import.skipped = import.next - 1
        /\ \A k \in 1..(import.next - 1) :
              (body[k].fit /\ body[k].name \notin seen) =>
                  /\ import.broken
                  /\ \A j \in (k + 1)..(import.next - 1) : body[j].name = NoName

LibraryInv ==
    /\ LibraryTypeOK /\ AtHand /\ Counted
    /\ import.pc = "replied" => import.next = Len(body) + 1

=============================================================================
