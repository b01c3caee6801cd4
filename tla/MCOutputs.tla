------------------------------ MODULE MCOutputs ------------------------------
(* The instances of what comes in and goes out of the platform: the messages  *)
(* to each kind of integration, the reports of agents, the audits imported    *)
(* from other tools, and the score and compliance computed from findings.     *)
(* They share no state, so a behaviour is of one part, chosen at the start,   *)
(* and the others rest.                                                       *)
EXTENDS Integrations, Agents, Posture, TLC

VARIABLES part,
    suppressed, upload, imported, answer           \* AuditImport

importVars == <<suppressed, upload, imported, answer>>
outputsVars == <<part, integrationsVars, agentsVars, postureVars, importVars>>

----------------------------------------------------------------------------
\* Findings that differ in what the score and the frameworks look at, with
\* hosts at the start that bring the caps, the open ports (five and six names
\* and addresses) and the decay into play: seven and eight of a kind, the first
\* of which can be fixed.

Posed(c, s, a) == [category |-> c, severity |-> s, auto_fix |-> a, passed |-> FALSE,
                   listens |-> FALSE, svc_listen_all |-> FALSE, web |-> FALSE]
Open(s) == [Posed(<<"network">>, s, FALSE) EXCEPT !.listens = TRUE, !.svc_listen_all = TRUE]
OfAKind(n) ==
    [i \in 1 .. n |-> Posed(<<"compliance">>, "high", i = 1)] \o <<Posed(<<"logging">>, "low", TRUE)>>
MCKinds ==
    {Posed(<<"ssh">>, "high", TRUE), Posed(<<"ssh">>, "high", FALSE), Posed(<<"services", "ssh">>, "high", FALSE),
     [Posed(<<"ccn-stic">>, "info", FALSE) EXCEPT !.passed = TRUE]}
MCStart ==
    {<<>>, [i \in 1 .. 5 |-> Open("medium")], Append([i \in 1 .. 6 |-> Open("info")], Posed(<<"kernel">>, "medium", FALSE)),
     OfAKind(7), OfAKind(8), <<Posed(<<"ssh", "cve">>, "critical", FALSE), Posed(<<"ssh">>, "high", TRUE)>>,
     <<Posed(<<"docker", "escape">>, "high", FALSE), Posed(<<"docker", "escape">>, "high", FALSE),
       Posed(<<"kernel">>, "medium", TRUE)>>}

----------------------------------------------------------------------------
\* Files of two items in every order, of each format: severities given, left
\* out or unknown, with and without scores, results, titles, a row that cannot
\* be read, and files taken for another format.

NoScore == 101
Item == [key |-> "k1", short |-> "k", host |-> "h", sev |-> "0", cvss |-> NoScore, cvss3 |-> NoScore, text |-> {},
         svc |-> "", cves |-> FALSE, result |-> "pass", titled |-> TRUE, raises |-> FALSE]
File(ext, looks, format, parses, items) ==
    [ext |-> ext, looks |-> looks, format |-> format, parses |-> parses, items |-> items]
Pairs(S) == {<<a, b>> : a, b \in S}
Nessus == {[Item EXCEPT !.sev = s, !.cvss3 = c, !.cvss = d, !.text = {"patch"}] :
             s \in {"0", "4"}, c \in {NoScore, 90}, d \in {NoScore, 70}}
Xccdf == {[Item EXCEPT !.sev = s, !.result = r, !.text = {"update"}] :
             s \in {"", "high"}, r \in {"fail", "notselected", "pass", "absent"}}
Csv == {[Item EXCEPT !.sev = s, !.cvss = c, !.titled = t] : s \in {"", "severe"}, c \in {NoScore, 95}, t \in BOOLEAN}
         \cup {[Item EXCEPT !.sev = "", !.raises = TRUE]}
JsonItems == {[Item EXCEPT !.key = k, !.sev = "High", !.titled = t] : k \in {"", "k1"}, t \in BOOLEAN}
MCDocuments ==
    {File("nessus", {}, "nessus", TRUE, p) : p \in Pairs(Nessus)}
    \cup {File("xml", l, "xccdf", TRUE, p) : l \in {{"xccdf"}, {"nessus", "xccdf"}, {}}, p \in Pairs(Xccdf)}
    \cup {File("csv", {}, "csv", TRUE, p) : p \in Pairs(Csv)}
    \cup {File("txt", {"brace"}, "json", TRUE, p) : p \in Pairs(JsonItems)}
    \cup {File("json", {}, "json", FALSE, <<>>)}

----------------------------------------------------------------------------
Importing == INSTANCE AuditImport WITH
    Documents <- MCDocuments, Ids <- {[row |-> 0, key |-> k, host |-> "h"] : k \in {"k", "k1"}},
    Formats <- {"", "nessus", "xccdf", "csv", "json"}, MaxImports <- 1, Faults <- TRUE, scans <- imported

PostureRests == PostureInit /\ found = <<>>
ImportRests ==
    /\ suppressed = {} /\ upload = Importing!Idle /\ imported = <<>> /\ answer = Importing!None

\* Reports are interchangeable: the second is sent after the first.
InOrder == \A r \in Reports \ {1} : report[r] # NoReport => report[r - 1] # NoReport

OutputsInit ==
    /\ IntegrationsInit /\ AgentsInit
    /\ \/ part \in Kinds \cup {"agents"} /\ PostureRests /\ ImportRests
       \/ part = "posture" /\ PostureInit /\ ImportRests
       \/ part = "import" /\ Importing!Init /\ PostureRests

\* Of the three, one has destinations and scopes that change, or a slug used
\* again, or saves of organisations that raise and restarts, with the
\* platform's settings left alone; one has the platform's and an organisation's, and one
\* the platform's alone, with saves that raise.  A redirect leads to the worst.
Parted ==
    /\ \A d \in delivered' : d.redirected => d.net = "foreign"
    /\ part = "notifications" =>
           /\ settings'[Platform] = settings[Platform]
           /\ \A r \in Saves : save'[r].org # MaxOrgs
           /\ \A j \in Events : event'[j].pc # "none" /\ event'[j].slug = Default => org'["s1"] = 0 /\ changes' = 0
           /\ org'["s1"] = MaxOrgs => changes' = 0
           /\ disk' = settings' \/ (org'["s1"] # MaxOrgs /\ \A o \in Orgs : ~scope'[o] /\ net'[o] = "public")
    /\ part = "siem" => org'["s1"] # MaxOrgs /\ changes' = 0 /\ disk' = settings'
    /\ part = "ticketing" => changes' = 0 /\ active' = {Default}

\* Hosts with many findings are audited once, or a second time when they have few.
FewAudits == audits' > 1 => Len(audited') <= 2 \/ Len(told'.before) <= 2

OutputsNext ==
    \/ /\ part \in Kinds
       /\ Asked(part) \/ GoesOn
       /\ Parted
       /\ UNCHANGED <<part, agentsVars, postureVars, importVars>>
    \/ part = "agents" /\ AgentsNext /\ InOrder' /\ UNCHANGED <<part, integrationsVars, postureVars, importVars>>
    \/ part = "posture" /\ PostureNext /\ FewAudits /\ UNCHANGED <<part, integrationsVars, agentsVars, importVars>>
    \/ part = "import" /\ Importing!Next /\ UNCHANGED <<part, integrationsVars, agentsVars, postureVars>>

OutputsSpec == OutputsInit /\ [][OutputsNext]_outputsVars

----------------------------------------------------------------------------
\* The score is not sunk by lesser findings, no fix lowers it, and its
\* breakdown agrees with it (Posture).
ScoresMakeSense ==
    part = "posture" => PostureTypeOK /\ VolumeDoesNotSink /\ FixingNeverHurts /\ DetailAgrees

\* An audit imported keeps the findings of the file, with their severity, and
\* counts them (AuditImport).
ImportsFaithful == part = "import" => Importing!ImportTypeOK /\ Importing!ImportsFaithful
==============================================================================
