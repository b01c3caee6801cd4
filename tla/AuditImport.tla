---------------------------- MODULE AuditImport -----------------------------
(* Audits of other tools, uploaded and stored as audits of one's own        *)
(* (scanners/audit_import.py, api_import_audit).  A document is what the    *)
(* parsers look at: its name, what its beginning looks like, its format and *)
(* whether it is well formed, and its items; of an item, what decides       *)
(* whether it becomes a finding, which, and how severe.  Texts are sets of  *)
(* the words looked for.                                                    *)
EXTENDS Naturals, Sequences, FiniteSets, SequencesExt, FiniteSetsExt, TLC

CONSTANTS
    Documents,  \* what may be uploaded
    Ids,        \* ids that may be suppressed
    Formats,    \* formats that may be asked for, "" for none
    MaxImports, \* bound on uploads
    Faults      \* whether statements fail

VARIABLES
    suppressed, \* ids the organisation suppresses
    upload,     \* the upload that is being handled: [pc, doc, result, type]
    scans,      \* audits stored: [doc, result, type, status, findings]
    answer      \* what the last upload was answered

vars == <<suppressed, upload, scans, answer>>

Levels == <<"info", "low", "medium", "high", "critical">>
None == "none"
Absent == "absent"      \* no <result>
NoScore == 101          \* scores are in tenths, up to 100

----------------------------------------------------------------------------
\* Severities

NESSUS_SEV_MAP == [n \in {"0", "1", "2", "3", "4"} |->
    CASE n = "4" -> "critical" [] n = "3" -> "high" [] n = "2" -> "medium" [] n = "1" -> "low" [] OTHER -> "info"]

XCCDF_RESULT_MAP ==
    [fail |-> "high", error |-> "medium", unknown |-> "medium", notchecked |-> "info",
     notselected |-> "info", informational |-> "info", pass |-> None, notapplicable |-> None]

\* Mutant: the thresholds are not included.
cvss_to_severity_above(s) ==
    IF s > 90 THEN "critical" ELSE IF s > 70 THEN "high" ELSE IF s > 40 THEN "medium" ELSE IF s > 1 THEN "low" ELSE "info"
cvss_to_severity(s) ==
    IF s >= 90 THEN "critical" ELSE IF s >= 70 THEN "high" ELSE IF s >= 40 THEN "medium" ELSE IF s >= 1 THEN "low" ELSE "info"

\* What a column of a CSV may say.
SevNormalizer ==
    NESSUS_SEV_MAP @@ [l \in ToSet(Levels) |-> l] @@ [informational |-> "info", none |-> "info", minimal |-> "low"]

----------------------------------------------------------------------------
\* Categories: the first group with a word in the text

Words(text) == text \cup (IF text \cap {"update", "patch"} # {} THEN {"at"} ELSE {})
FirstGroup(groups, text, otherwise) ==
    LET hits == {i \in DOMAIN groups : groups[i][1] \cap Words(text) # {}}
    IN IF hits = {} THEN otherwise ELSE groups[Min(hits)][2]

_nessus_category(text, svc, cves) ==
    <<"vulnerability",
      IF cves THEN "cve"
      ELSE FirstGroup(<<<<{"ssl", "tls"}, "tls">>, <<{"ssh"}, "ssh">>, <<{"smb", "windows"}, "windows">>,
                        <<{"web", "http"}, "web">>, <<{"patch", "update", "outdated"}, "patch">>,
                        <<{"password", "auth"}, "auth">>>>, text, IF svc # "" THEN svc ELSE "other")>>

\* "at" is in "update" and in "patch", so those two never reach updates.
_xccdf_category(text) ==
    <<"compliance",
      FirstGroup(<<<<{"ssh"}, "ssh">>, <<{"password", "passwd", "pam"}, "authentication">>, <<{"audit", "log"}, "logging">>,
                   <<{"firewall", "iptables", "nftables"}, "firewall">>, <<{"kernel", "sysctl"}, "kernel">>,
                   <<{"selinux", "apparmor"}, "mandatory_access">>, <<{"mount", "partition", "filesystem", "tmp"}, "filesystem">>,
                   <<{"cron", "at", "schedule"}, "cron">>, <<{"sudo", "privilege", "root"}, "privilege">>,
                   <<{"banner", "motd", "issue"}, "banner">>, <<{"update", "patch", "yum", "dnf"}, "updates">>,
                   <<{"usb", "storage", "removable"}, "physical">>, <<{"cis"}, "cis">>, <<{"stig", "disa"}, "stig">>>>,
                 text, "system")>>

----------------------------------------------------------------------------
\* Parsers

\* The kind of file: by its name and, failing that, by its first bytes.
detect_format(doc) ==
    CASE doc.ext \in {"nessus", "csv", "json"} -> doc.ext
      [] doc.ext = "xml" -> IF "nessus" \in doc.looks THEN "nessus" ELSE IF "xccdf" \in doc.looks THEN "xccdf" ELSE "xml_unknown"
      [] OTHER -> IF "nessus" \in doc.looks THEN "nessus" ELSE IF "xccdf" \in doc.looks THEN "xccdf"
                  ELSE IF "brace" \in doc.looks THEN "json" ELSE IF "comma" \in doc.looks THEN "csv" ELSE "unknown"

\* The items before the first that makes the parser raise; they are kept.
Before(items) ==
    LET bad == {i \in DOMAIN items : items[i].raises}
    IN IF bad = {} THEN items ELSE SubSeq(items, 1, Min(bad) - 1)

\* The items a parser reads, which are those of its own format: well formed
\* XML of another has none of its elements, and is no error.
XML == {"nessus", "xccdf"}
Opens(source, doc) == doc.parses /\ (doc.format = source \/ {doc.format, source} \subseteq XML)
Read(source, doc) == IF Opens(source, doc) /\ doc.format = source THEN Before(doc.items) ELSE <<>>

Id(row, key, host) == [row |-> row, key |-> key, host |-> host]
Finding(id, category, severity, item) == [id |-> id, category |-> category, severity |-> severity, item |-> item]
Result(source, doc, findings, skipped) ==
    [source |-> source, findings |-> findings, skipped |-> skipped,
     error |-> ~Opens(source, doc) \/ (doc.format = source /\ Read(source, doc) # doc.items)]

Left(source, doc, kept) == Len(Read(source, doc)) - Len(kept)

\* Mutant: whatever has no score is left out too.
parse_nessus_scored(doc) ==
    LET Keep(x) == x.sev # "0" /\ (x.cvss3 # NoScore \/ x.cvss # NoScore)
        Severity(x) == IF x.cvss3 # NoScore THEN cvss_to_severity(x.cvss3)
                       ELSE IF x.cvss # NoScore THEN cvss_to_severity(x.cvss) ELSE NESSUS_SEV_MAP[x.sev]
        kept == SelectSeq(Read("nessus", doc), Keep)
    IN Result("nessus", doc,
              [i \in DOMAIN kept |-> LET x == kept[i] IN
                  Finding(Id(0, x.key, x.host), _nessus_category(x.text, x.svc, x.cves), Severity(x), x)],
              Left("nessus", doc, kept))

\* Severity 0 is passed over, before its CVSS is looked at; of the others the
\* newer CVSS decides, then the older one, then the tool.
parse_nessus(doc) ==
    LET Keep(x) == x.sev # "0"
        Severity(x) == IF x.cvss3 # NoScore THEN cvss_to_severity(x.cvss3)
                       ELSE IF x.cvss # NoScore THEN cvss_to_severity(x.cvss) ELSE NESSUS_SEV_MAP[x.sev]
        kept == SelectSeq(Read("nessus", doc), Keep)
    IN Result("nessus", doc,
              [i \in DOMAIN kept |-> LET x == kept[i] IN
                  Finding(Id(0, x.key, x.host), _nessus_category(x.text, x.svc, x.cves), Severity(x), x)],
              Left("nessus", doc, kept))

\* The rule's own severity, when it has one, replaces that of the result,
\* whatever the result.  The id keeps sixty characters of the rule's.  A rule
\* without a result is passed over, and not counted.
parse_xccdf(doc) ==
    LET Keep(x) == x.result \in DOMAIN XCCDF_RESULT_MAP /\ XCCDF_RESULT_MAP[x.result] # None
        Unanswered(x) == x.result = Absent
        Severity(x) == IF x.sev \in {"low", "medium", "high", "critical"} THEN x.sev ELSE XCCDF_RESULT_MAP[x.result]
        kept == SelectSeq(Read("xccdf", doc), Keep)
    IN Result("xccdf", doc,
              [i \in DOMAIN kept |-> LET x == kept[i] IN
                  Finding(Id(0, x.short, x.host), _xccdf_category(x.text), Severity(x), x)],
              Left("xccdf", doc, kept) - Len(SelectSeq(Read("xccdf", doc), Unanswered)))

\* A severity that is not known is medium; only an empty one is taken from the
\* CVSS.  The id begins with the number of the row.
parse_csv(doc) ==
    LET Keep(x) == x.titled
        Severity(x) == IF x.sev # "" THEN IF x.sev \in DOMAIN SevNormalizer THEN SevNormalizer[x.sev] ELSE "medium"
                       ELSE IF x.cvss # NoScore THEN cvss_to_severity(x.cvss) ELSE "medium"
        Row(j) == Cardinality({i \in 1 .. j : doc.items[i].titled})
        kept == SelectSeq(Read("csv", doc), Keep)
    IN Result("csv", doc,
              [i \in DOMAIN kept |-> LET x == kept[i] IN
                  Finding(Id(Min({j \in DOMAIN doc.items : Row(j) = i}), x.short, ""), <<"vulnerability", x.svc>>, Severity(x), x)],
              Left("csv", doc, kept))

\* Severity and category are what the file says; what has no title is left out
\* of the totals too.
_parse_json(doc) ==
    LET Keep(x) == x.titled
        kept == SelectSeq(Read("json", doc), Keep)
    IN Result("json", doc,
              [i \in DOMAIN kept |-> LET x == kept[i] IN
                  Finding(Id(IF x.key = "" THEN i ELSE 0, x.key, ""), <<"vulnerability", x.svc>>, x.sev, x)],
              0)

import_audit_file(doc, fmt) ==
    LET f == IF fmt # "" THEN fmt ELSE detect_format(doc) IN
    CASE f = "nessus" -> parse_nessus(doc)
      [] f = "xccdf"  -> parse_xccdf(doc)
      [] f = "csv"    -> parse_csv(doc)
      [] f = "json"   -> _parse_json(doc)
      [] OTHER        -> [source |-> f, findings |-> <<>>, skipped |-> 0, error |-> TRUE]

----------------------------------------------------------------------------
Idle == [pc |-> "none"]

Init ==
    /\ suppressed = {}
    /\ upload = Idle /\ scans = <<>> /\ answer = None

\* The whole file is parsed at once, as the format that was asked or, without
\* one, as that it looks like.  An error with nothing parsed is answered;
\* otherwise an audit is created, of the source's type whatever type was asked.
api_import_audit(doc, fmt) ==
    /\ upload = Idle /\ Len(scans) < MaxImports
    /\ LET result == import_audit_file(doc, fmt) IN
       IF result.error /\ result.findings = <<>>
       THEN /\ answer' = "refused"
            /\ UNCHANGED <<upload, scans>>
       ELSE /\ scans' = Append(scans, [doc |-> doc, result |-> result, status |-> "running", findings |-> <<>>, hidden |-> {}])
            /\ upload' = [pc |-> "store", doc |-> doc]
            /\ UNCHANGED answer
    /\ UNCHANGED suppressed

\* What is suppressed is left out, and the audit completed.
ImportStore ==
    /\ upload # Idle
    /\ scans' = [scans EXCEPT ![Len(scans)].status = "completed", ![Len(scans)].hidden = suppressed,
                     ![Len(scans)].findings = SelectSeq(scans[Len(scans)].result.findings, LAMBDA f : f.id \notin suppressed)]
    /\ answer' = "stored"
    /\ upload' = Idle
    /\ UNCHANGED suppressed

\* A statement fails: an error is answered, and the audit stays running.
ImportFails ==
    /\ Faults /\ upload # Idle
    /\ answer' = "failed"
    /\ upload' = Idle
    /\ UNCHANGED <<suppressed, scans>>

Suppress(id) ==
    /\ suppressed' = suppressed \cup {id}
    /\ UNCHANGED <<upload, scans, answer>>

Next ==
    \/ \E d \in Documents, fmt \in Formats : api_import_audit(d, fmt)
    \/ ImportStore \/ ImportFails
    \/ \E id \in Ids : Suppress(id)

----------------------------------------------------------------------------
Rank(severity) == CHOOSE n \in DOMAIN Levels : Levels[n] = severity

\* The items by which the tool says that something is wrong.
Failing(source, x) ==
    CASE source = "nessus" -> x.sev # "0"
      [] source = "xccdf"  -> x.result \in {"fail", "error", "unknown"}
      [] OTHER             -> x.titled

\* An import that was stored, and whose file was read to its end by the parser
\* of its format, has a finding for everything the tool says is wrong, unless
\* its id is suppressed.
NothingLost ==
    \A s \in ToSet(scans) : s.status = "completed" /\ ~s.result.error /\ s.result.source = s.doc.format =>
        \A i \in DOMAIN s.doc.items : Failing(s.result.source, s.doc.items[i]) =>
            \/ \E f \in ToSet(s.findings) : f.item = s.doc.items[i]
            \/ \E f \in ToSet(s.result.findings) : f.item = s.doc.items[i] /\ f.id \in s.hidden

\* A finding is as severe as its CVSS says by the thresholds of CVSS 3, whatever
\* the tool says, but for those of a file that names its severities; and what
\* was not evaluated is only information, when its rule has no severity.
SeverityFits ==
    \A s \in ToSet(scans) : \A f \in ToSet(s.findings) :
        LET x == f.item
            score == IF x.cvss3 # NoScore THEN x.cvss3 ELSE x.cvss
        IN /\ s.result.source = "nessus" /\ score # NoScore =>
                  /\ (f.severity = "critical" <=> score >= 90)
                  /\ (Rank(f.severity) >= 4 <=> score >= 70)
           /\ s.result.source = "nessus" /\ score = NoScore => f.severity = NESSUS_SEV_MAP[x.sev]
           /\ s.result.source = "xccdf" /\ x.sev = "" /\ ~Failing("xccdf", x) => f.severity = "info"

\* The counts of an import add up to the items read, but for those of a JSON
\* file and the rules without a result.
CountsAddUp ==
    \A s \in ToSet(scans) : ~s.result.error /\ s.result.source # "json" =>
        Len(s.result.findings) + s.result.skipped =
            Len(SelectSeq(Read(s.result.source, s.doc), LAMBDA x : x.result # Absent))

ImportsFaithful == NothingLost /\ SeverityFits /\ CountsAddUp

\* Audits are stored or on their way, and a refused file stores none.
ImportTypeOK ==
    /\ \A s \in ToSet(scans) : s.status \in {"running", "completed"}
    /\ answer \in {None, "refused", "stored", "failed"}
    /\ upload # Idle => scans # <<>> /\ scans[Len(scans)].status = "running"
============================================================================
