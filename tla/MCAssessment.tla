---------------------------- MODULE MCAssessment ----------------------------
(* Instances of Assessment for TLC. *)
EXTENDS Assessment

\* The combinations of findings that decide differently on flags and trust, with
\* metadata that scores high, low and at the threshold.
Findings ==
    {e \in [source : {"github_admin", "usenet"},
            publisher : {"expected", "different", "none"},
            version : {TRUE}, origin : BOOLEAN,
            assets : {"none", "valid", "invalid", "no_signature"},
            names : 0..2, piracy : BOOLEAN,
            sha256 : BOOLEAN, malicious : BOOLEAN, known : BOOLEAN,
            barred : {FALSE}, rules : {{"unsigned", "wrong_publisher"}},
            threshold : {800}] :
        \* Nothing is known about a hash there is not.
        /\ ~e.sha256 => ~e.malicious /\ ~e.known
        \* Assets of no origin are not looked at.
        /\ ~e.origin => e.assets = "none"
        \* A forge names the publisher it was asked for.
        /\ e.source = "github_admin" => e.publisher = "expected"
        \* A piracy keyword blocks whatever the names are.
        /\ e.piracy => e.names = 0}

\* A few releases for the claims about single judgements.
Plain ==
    {e \in Findings : e.assets = "none" /\ ~e.sha256 /\ e.publisher = "expected"}

=============================================================================
