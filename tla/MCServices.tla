----------------------------- MODULE MCServices -----------------------------
(***************************************************************************)
(* Five parts of the server that share no state with each other: the       *)
(* software library, the indexer search, the backups, the password history *)
(* and the watch for upgrades of one entry.  A step of one neither enables *)
(* nor disturbs a step of another, so each is explored on its own: part    *)
(* says which, and the others stay where they begin.                       *)
(***************************************************************************)
EXTENDS SoftwareLibrary, NewznabSearch, Backups, PasswordHistory,
        UpgradeWatch

VARIABLE part

vars == <<part, libraryVars, searchVars, backupVars, passwordVars, watchVars>>

Init ==
    /\ part \in {"library", "search", "backups", "passwords", "upgrades"}
    /\ LibraryInit /\ SearchInit /\ BackupsInit /\ PasswordInit /\ WatchInit
    /\ part # "passwords" => password = CHOOSE p \in Passwords : TRUE

Next ==
    /\ UNCHANGED part
    /\ \/ part = "library" /\ LibraryNext
          /\ UNCHANGED <<searchVars, backupVars, passwordVars, watchVars>>
       \/ part = "search" /\ SearchNext
          /\ UNCHANGED <<libraryVars, backupVars, passwordVars, watchVars>>
       \/ part = "backups" /\ BackupsNext
          /\ UNCHANGED <<libraryVars, searchVars, passwordVars, watchVars>>
       \/ part = "passwords" /\ PasswordNext
          /\ UNCHANGED <<libraryVars, searchVars, backupVars, watchVars>>
       \/ part = "upgrades" /\ WatchNext
          /\ UNCHANGED <<libraryVars, searchVars, backupVars, passwordVars>>

Spec == Init /\ [][Next]_vars

\* The invariants that the proofs about the parts rest on.
ServicesInv ==
    /\ part = "library" => LibraryInv
    /\ part = "search" => SearchInv
    /\ part = "backups" => BackupsInv
    /\ part = "passwords" => PasswordInv
    /\ part = "upgrades" => WatchInv

-----------------------------------------------------------------------------

Post(name, versions, like, size) ==
    [complete |-> TRUE, segment |-> FALSE, name |-> name, versions |-> versions,
     like |-> [t \in Terms |-> like], size |-> size]

\* Two posts of one name and version, a worse match, a post with two
\* versions in its title and a size that is no number, a recovery file.
MCPosts ==
    {Post("app", <<<<1, 2>>>>, 10, 1), Post("app", <<<<1, 2>>>>, 10, 2),
     Post("like", <<>>, 7, 3), Post("other", <<>>, 3, 4),
     Post("odd", <<<<1, 2>>, <<1, 2, 3>>>>, 10, NoNumber),
     [Post("app", <<<<1, 2>>>>, 10, 5) EXCEPT !.segment = TRUE]}

V19 == Plain(<<1, 9>>)
V110 == Plain(<<1, 10>>)
Beta110 == [v |-> FALSE, parts |-> <<<<1>>, <<10, NotDigits>>>>]
Tag2 == [v |-> TRUE, parts |-> <<<<2>>, <<0>>>>]

\* Orders by number and not by text; a suffix the comparison ignores; a tag
\* of the next major version.
MCFound == {<<>>, <<V19, V110>>, <<Beta110, Tag2>>}

\* A pin that accepts some of the results; more of them only multiply the
\* histories of a scan.
MCPins == {NoPin, [mode |-> "major", value |-> 1]}
=============================================================================
