------------------------------ MODULE IniConfig ------------------------------
(***************************************************************************)
(* What softarr.ini holds, and what each writing method of                 *)
(* IniSettingsManager makes of the contents it has parsed.                 *)
(***************************************************************************)
EXTENDS Naturals, Sequences

CONSTANTS
    Keys,       \* the settings of SETTING_DEFINITIONS that matter here
    Names,      \* indexer names
    Values,     \* what a setting, or an indexer's fields, may be
    Refused,    \* values with a lone "%": ConfigParser.set refuses them
    Odd,        \* values with "%%": they read back with a lone "%"
    Unset,      \* the option is not in the file: the default applies
    Absent,     \* there is no section for the indexer
    Keep        \* an update that leaves this field alone

ASSUME ConfigAssumption ==
    /\ Refused \subseteq Values
    /\ Odd \subseteq Values \ Refused
    /\ Unset \notin Values
    /\ Keep \notin Values \cup Names

\* An indexer section: its url stands for all the configured fields; good
\* and bad count the searches recorded against it.
Indexer == [url : Values \ Refused, good : Nat, bad : Nat]

Config == [opt : [Keys -> (Values \ Refused) \cup {Unset}],
           idx : [Names -> Indexer \cup {Absent}]]

\* The file as created: everything else is at its default.
Defaults == [opt |-> [k \in Keys |-> Unset], idx |-> [n \in Names |-> Absent]]

SetOp == [kind : {"set"}, key : Keys, value : Values]
CreateOp == [kind : {"create"}, name : Names, url : Values]
UpdateOp == [kind : {"update"}, name : Names,
             url : Values \cup {Keep}, to : Names \cup {Keep}]
DeleteOp == [kind : {"delete"}, name : Names]
RecordOp == [kind : {"record"}, name : Names, success : BOOLEAN]

Op == SetOp \cup CreateOp \cup UpdateOp \cup DeleteOp \cup RecordOp

\* Methods that find no section of that name change nothing.
Finds(op, cfg) ==
    op.kind \in {"update", "delete", "record"} => cfg.idx[op.name] # Absent

Renames(op) == op.kind = "update" /\ op.to # Keep /\ op.to # op.name

\* The indexer an update leaves behind, under whichever name.
Updated(op, cfg) ==
    [cfg.idx[op.name] EXCEPT !.url = IF op.url = Keep THEN @ ELSE op.url]

\* A ValueError, raised before anything is saved: a value that is refused,
\* a name that is taken, or a rename that copies a value which is refused
\* in the form it reads back.
Raises(op, cfg) ==
    \/ op.kind = "set" /\ op.value \in Refused
    \/ op.kind = "create" /\ (op.url \in Refused \/ cfg.idx[op.name] # Absent)
    \/ /\ op.kind = "update"
       /\ cfg.idx[op.name] # Absent
       /\ \/ op.url \in Refused
          \/ Renames(op) /\ cfg.idx[op.to] # Absent
          \/ Renames(op) /\ Updated(op, cfg).url \in Odd

Created(op) == [url |-> op.url, good |-> 0, bad |-> 0]

Recorded(op, ix) ==
    IF op.success THEN [ix EXCEPT !.good = @ + 1] ELSE [ix EXCEPT !.bad = @ + 1]

\* The contents after a method that neither raises nor finds nothing.
After(op, cfg) ==
    CASE op.kind = "set" -> [cfg EXCEPT !.opt[op.key] = op.value]
      [] op.kind = "create" -> [cfg EXCEPT !.idx[op.name] = Created(op)]
      [] op.kind = "update" ->
            [cfg EXCEPT !.idx =
               [n \in Names |->
                  CASE n = (IF Renames(op) THEN op.to ELSE op.name) -> Updated(op, cfg)
                    [] n = op.name /\ Renames(op) -> Absent
                    [] OTHER -> cfg.idx[n]]]
      [] op.kind = "delete" -> [cfg EXCEPT !.idx[op.name] = Absent]
      [] op.kind = "record" ->
            [cfg EXCEPT !.idx[op.name] = Recorded(op, cfg.idx[op.name])]

=============================================================================
