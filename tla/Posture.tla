------------------------------ MODULE Posture -------------------------------
(* What an audit's findings are worth: the score (core/scoring.py) and the   *)
(* controls of each framework that they bring down (scanners/compliance.py), *)
(* as the daily audit stores them, reads the previous ones back and tells of *)
(* the frameworks that fell.  A category is the sequence of its segments, so *)
(* a prefix is one of whole segments; no scanner writes a category that      *)
(* extends an entry of the two tables within a segment.                      *)
EXTENDS Integers, Sequences, FiniteSets, SequencesExt, FiniteSetsExt

CONSTANTS
    Origins,      \* sequences of findings a host may have at first
    Problems,      \* findings that may appear on it
    MaxFindings,\* bound on findings of a host
    MaxAudits   \* bound on audits

Severities == {"critical", "high", "medium", "low", "info"}
Findings == [category : Seq(STRING) \ {<<>>}, severity : Severities, auto_fix : BOOLEAN, passed : BOOLEAN,
             listens : BOOLEAN, svc_listen_all : BOOLEAN, web : BOOLEAN]

\* Hosts have findings, with a category each.
ASSUME PostureAssumption == Origins \subseteq Seq(Findings) /\ Problems \subseteq Findings

VARIABLES
    found,      \* the findings an audit would report, in order
    audited,    \* what the last audit reported
    stored,     \* what its rows say, read back as findings
    score,      \* the score stored with it
    told,       \* frameworks the last audit told of, with the findings of the audit before
    audits      \* bound

postureVars == <<found, audited, stored, score, told, audits>>

FRAMEWORKS == {"ens", "iso27001", "pci-dss", "cis"}

----------------------------------------------------------------------------
\* Scoring

\* Weights in tenths, in the order in which prefixes are tried.
CATEGORY_WEIGHTS == <<
    <<<<"ssh">>, 15>>, <<<<"firewall">>, 15>>, <<<<"network">>, 14>>, <<<<"docker", "escape">>, 20>>,
    <<<<"docker", "privilege">>, 18>>, <<<<"authentication">>, 13>>, <<<<"kernel">>, 12>>, <<<<"integrity">>, 12>>,
    <<<<"audit">>, 11>>, <<<<"sudo">>, 13>>, <<<<"ssh", "cve">>, 18>>, <<<<"malware", "yara">>, 14>>,
    <<<<"malware", "hash">>, 15>>, <<<<"malware", "behavior">>, 13>>, <<<<"malware", "webshell">>, 14>>,
    <<<<"malware", "persistence">>, 13>>, <<<<"docker", "secrets">>, 12>>, <<<<"docker", "cve">>, 13>>,
    <<<<"filesystem">>, 8>>, <<<<"services">>, 9>>, <<<<"updates">>, 7>>, <<<<"logging">>, 6>>, <<<<"time">>, 5>>,
    <<<<"compliance">>, 4>>, <<<<"storage">>, 6>>, <<<<"cron">>, 8>>, <<<<"mac">>, 7>>,
    <<<<"code", "python", "bandit">>, 9>>, <<<<"code", "shell">>, 8>>, <<<<"code", "secrets">>, 13>>,
    <<<<"code", "javascript">>, 7>> >>

\* In half points.
BASE_PENALTY == [critical |-> 50, high |-> 24, medium |-> 10, low |-> 3, info |-> 0]
\* In points.
SEVERITY_PENALTY_CAP == [critical |-> 70, high |-> 24, medium |-> 12, low |-> 6, info |-> 0]

\* A point in the unit that holds halves, tenths, quarters, thousandths and
\* 125ths exactly; from the fifth of a kind on, the decay is cut to 125ths.
Point == 2 * 10 * 4 * 1000 * 125
Decay(n) == (125 * 4 ^ n) \div 5 ^ n

\* The first entry that satisfies Test, by the table's order.
FirstOf(table, Test(_)) == table[Min({i \in DOMAIN table : Test(table[i][1])})]

Weight(category) ==
    LET Exact(c) == c = category
        Starts(c) == IsPrefix(c, category)
        Some(Test(_)) == \E i \in DOMAIN CATEGORY_WEIGHTS : Test(CATEGORY_WEIGHTS[i][1])
    IN IF Some(Exact) THEN FirstOf(CATEGORY_WEIGHTS, Exact)[2]
       ELSE IF Some(Starts) THEN FirstOf(CATEGORY_WEIGHTS, Starts)[2]
       ELSE 10

\* The exposure the findings speak of, in thousandths: a CVE of the SSH server
\* or an escape from a container, a web server, more than ten open ports.  A
\* finding of the network counts a port for its evidence and one for its name.
Exposure(fs) ==
    LET Has(P(_)) == \E i \in DOMAIN fs : P(fs[i])
        Facing(f) == f.category \in {<<"ssh", "cve">>, <<"docker", "escape">>}
        Web(f) == f.web \/ f.category = <<"malware", "webshell">>
        Ports == FoldSeq(LAMBDA f, n : n + (IF f.category = <<"network">> /\ f.listens THEN 1 ELSE 0)
                                         + (IF f.svc_listen_all THEN 1 ELSE 0), 0, fs)
        Times(m, on, tenths) == IF on THEN (m * tenths) \div 10 ELSE m
    IN Min({Times(Times(Times(1000, Has(Facing), 14), Has(Web), 12), Ports > 10, 11), 2000})

\* The penalty of the i-th finding, with that exposure.
Penalty(fs, i, exposure) ==
    LET f == fs[i]
        before == Cardinality({j \in 1 .. i - 1 : fs[j].category = f.category /\ fs[j].severity = f.severity})
    IN BASE_PENALTY[f.severity] * Weight(f.category) * (IF f.auto_fix THEN 3 ELSE 4) * Decay(before) * exposure

\* Mutant: no cap for the highs.
SeverityPenalty_uncapped(fs, sev) ==
    LET exposure == Exposure(fs) IN
    FoldSeq(LAMBDA i, sum : Min({sum + Penalty(fs, i, exposure), (IF sev = "high" THEN 100 ELSE SEVERITY_PENALTY_CAP[sev]) * Point}), 0,
            SelectSeq([i \in DOMAIN fs |-> i], LAMBDA i : fs[i].severity = sev))

\* The penalties of a severity, added up to its cap.
SeverityPenalty(fs, sev) ==
    LET exposure == Exposure(fs) IN
    FoldSeq(LAMBDA i, sum : Min({sum + Penalty(fs, i, exposure), SEVERITY_PENALTY_CAP[sev] * Point}), 0,
            SelectSeq([i \in DOMAIN fs |-> i], LAMBDA i : fs[i].severity = sev))

\* Python's round: to the nearest, halves to the even one.
Round(num, den) ==
    LET q == num \div den
        r == num % den
    IN IF 2 * r < den \/ (2 * r = den /\ q % 2 = 0) THEN q ELSE q + 1

Clean(fs, segment) == \A i \in DOMAIN fs : fs[i].category # <<segment>>
Bonus(fs) == (IF Clean(fs, "firewall") THEN 2 ELSE 0) + (IF Clean(fs, "ssh") THEN 2 ELSE 0)
             + (IF Clean(fs, "authentication") THEN 1 ELSE 0)

compute_score(fs) ==
    LET total == FoldSet(LAMBDA sev, sum : sum + SeverityPenalty(fs, sev), 0, Severities)
        base == Max({0, Min({100, Round(100 * Point - total, Point)})})
    IN Min({100, base + Bonus(fs)})

Grade(n) == IF n >= 90 THEN "A" ELSE IF n >= 75 THEN "B" ELSE IF n >= 60 THEN "C" ELSE IF n >= 40 THEN "D" ELSE "F"

----------------------------------------------------------------------------
\* Compliance

E(c) == <<"ens", c>>
I(c) == <<"iso27001", c>>
P(c) == <<"pci-dss", c>>
C(c) == <<"cis", c>>

\* The controls a category brings down, in the order in which prefixes are tried.
CATEGORY_TO_CONTROLS == <<
    <<<<"ssh">>, {E("MP.SI.1"), I("A.9.4.2"), P("8.6"), C("4.1")}>>,
    <<<<"ssh", "cve">>, {E("MP.SI.1"), I("A.12.6.1"), P("6.3.3"), C("7.1")}>>,
    <<<<"firewall">>, {E("MP.COM.1"), I("A.13.1.1"), P("1.2"), C("12.1")}>>,
    <<<<"network">>, {E("MP.COM.1"), I("A.13.1.2"), C("12.2")}>>,
    <<<<"authentication">>, {E("OP.ACC.2"), I("A.9.2.1"), P("8.2"), C("5.1")}>>,
    <<<<"passwords">>, {E("OP.ACC.3"), I("A.9.4.3"), P("8.3"), C("5.2")}>>,
    <<<<"kernel">>, {E("MP.SI.2"), I("A.14.2.2"), C("4.1")}>>,
    <<<<"integrity">>, {E("MP.SI.3"), I("A.12.2.1"), P("11.3"), C("10.1")}>>,
    <<<<"audit">>, {E("OP.EXP.8"), I("A.12.4.1"), P("10.2"), C("8.1")}>>,
    <<<<"logging">>, {E("OP.EXP.8"), I("A.12.4.2"), P("10.3")}>>,
    <<<<"filesystem">>, {E("MP.SI.2"), I("A.9.4.1"), C("3.1")}>>,
    <<<<"updates">>, {E("MP.SI.2"), I("A.12.6.1"), P("6.3.3"), C("7.4")}>>,
    <<<<"docker", "privilege">>, {E("MP.SI.2"), I("A.12.6.2"), C("16.6")}>>,
    <<<<"kubernetes", "rbac">>, {E("OP.ACC.4"), I("A.9.2.3"), C("5.4")}>>,
    <<<<"compliance">>, {E("GEN"), I("A.18.1")}>>,
    <<<<"ccn-stic">>, {E("OP.EXP.2"), E("MP.SI.2"), I("A.12.6.2"), C("4.1")}>>,
    <<<<"disa-stig">>, {E("MP.SI.2"), P("2.2"), C("4.1")}>>,
    <<<<"ldap", "accounts">>, {E("OP.ACC.2"), I("A.9.2.1"), C("5.1")}>>,
    <<<<"ldap", "policy">>, {E("OP.ACC.3"), I("A.9.4.3"), P("8.3.6")}>>,
    <<<<"malware", "yara">>, {E("MP.SI.4"), I("A.12.2.1"), P("5.2"), C("10.2")}>>,
    <<<<"malware", "webshell">>, {E("MP.SI.4"), I("A.12.2.1"), P("6.4")}>>,
    <<<<"monitor", "exec">>, {E("OP.EXP.9"), I("A.12.4.1"), C("8.11")}>>,
    <<<<"monitor", "integrity">>, {E("MP.SI.3"), I("A.12.4.3"), P("10.4")}>>,
    <<<<"services", "nginx">>, {E("MP.COM.2"), I("A.14.1.2"), P("6.2")}>>,
    <<<<"services", "mysql">>, {E("MP.SI.2"), I("A.13.1.3"), P("3.4")}>> >>

\* The entry of the category itself or, without one, the first that is a prefix
\* of it or begins as it does; the empty category begins as every entry does.
Controls(category) ==
    LET Exact(c) == c = category
        Near(c) == IsPrefix(c, category) \/ category[1] = "" \/ c[1] = category[1]
        Some(Test(_)) == \E i \in DOMAIN CATEGORY_TO_CONTROLS : Test(CATEGORY_TO_CONTROLS[i][1])
    IN IF Some(Exact) THEN FirstOf(CATEGORY_TO_CONTROLS, Exact)[2]
       ELSE IF Some(Near) THEN FirstOf(CATEGORY_TO_CONTROLS, Near)[2]
       ELSE {}

\* The controls that failed findings bring down, and those of a framework.
Down(fs) == UNION {Controls(fs[i].category) : i \in {j \in DOMAIN fs : ~fs[j].passed}}
Of(fw, controls) == {c \in controls : c[1] = fw}
All(fw) == Of(fw, UNION {CATEGORY_TO_CONTROLS[i][2] : i \in DOMAIN CATEGORY_TO_CONTROLS})

\* The share of a framework's controls that stand, in tenths of a percent.
analyze_compliance(fs) ==
    LET down == Down(fs) IN
    [fw \in FRAMEWORKS |->
        LET total == Cardinality(All(fw))
            failed == Of(fw, down)
        IN [failed |-> failed, score_pct |-> Round(1000 * (total - Cardinality(failed)), total)]]

Status(pct) == IF pct >= 900 THEN "CONFORME" ELSE IF pct >= 700 THEN "PARCIALMENTE_CONFORME" ELSE "NO_CONFORME"

\* Mutant: the frameworks that rose.
detect_compliance_drops_rises(previous, current) ==
    LET prev == analyze_compliance(previous)
        curr == analyze_compliance(current)
    IN {fw \in FRAMEWORKS : curr[fw].score_pct > prev[fw].score_pct}

detect_compliance_drops(previous, current) ==
    LET prev == analyze_compliance(previous)
        curr == analyze_compliance(current)
    IN {fw \in FRAMEWORKS : curr[fw].score_pct < prev[fw].score_pct}

----------------------------------------------------------------------------
\* The host and its audits

PostureInit ==
    /\ found \in Origins
    /\ audited = <<>> /\ stored = <<>> /\ score = 100
    /\ told = [first |-> TRUE, frameworks |-> {}, before |-> <<>>]
    /\ audits = 0

Appears(f) ==
    /\ Len(found) < MaxFindings
    /\ found' = Append(found, f)
    /\ UNCHANGED <<audited, stored, score, told, audits>>

Fixed(i) ==
    /\ found' = RemoveAt(found, i)
    /\ UNCHANGED <<audited, stored, score, told, audits>>

\* complete_scan's columns: nothing keeps that a finding passed.
ReadBack(fs) == [i \in DOMAIN fs |-> [fs[i] EXCEPT !.passed = FALSE]]

\* complete_scan with its score and, when there was an audit before, the
\* frameworks that fell from what is read back of it.
DailyAudit ==
    /\ audits < MaxAudits /\ audits' = audits + 1
    /\ audited' = found /\ stored' = ReadBack(found)
    /\ score' = compute_score(found)
    /\ told' = [first |-> audits = 0, before |-> audited,
                frameworks |-> IF audits = 0 THEN {} ELSE detect_compliance_drops(stored, found)]
    /\ UNCHANGED found

PostureNext ==
    \/ \E f \in Problems : Appears(f)
    \/ \E i \in DOMAIN found : Fixed(i)
    \/ DailyAudit

PostureSpec == PostureInit /\ [][PostureNext]_postureVars

----------------------------------------------------------------------------
\* api_score_detail makes the findings anew from the rows, without their
\* evidence, so without the addresses that count as open ports.
\* Mutant: it forgets that findings can be fixed.
api_score_detail_unfixed(fs) == compute_score([i \in DOMAIN fs |-> [fs[i] EXCEPT !.listens = FALSE, !.auto_fix = FALSE]])
api_score_detail(fs) == compute_score([i \in DOMAIN fs |-> [fs[i] EXCEPT !.listens = FALSE]])

\* However many findings there are, a host without critical ones keeps 58
\* points, and one without critical or high ones 82: the volume of the lesser
\* severities alone sinks no score (core/scoring.py:86-88).
VolumeDoesNotSink ==
    LET Some(sev) == \E i \in DOMAIN found : found[i].severity = sev
        now == compute_score(found)
    IN /\ ~Some("critical") => now >= 58
       /\ ~Some("critical") /\ ~Some("high") => now >= 82

\* Fixing a finding, whichever it is, never lowers the score, while fewer than
\* eight are of its category and severity.
FixingNeverHurts ==
    LET now == compute_score(found) IN
    \A i \in DOMAIN found :
        Cardinality({j \in DOMAIN found : found[j].category = found[i].category /\ found[j].severity = found[i].severity}) < 8
            => compute_score(RemoveAt(found, i)) >= now

\* The score shown with its breakdown is the one stored with the audit, unless
\* the evidence made the open ports more than ten.
DetailAgrees ==
    Cardinality({i \in DOMAIN audited : audited[i].category = <<"network">> /\ audited[i].listens})
        + Cardinality({i \in DOMAIN audited : audited[i].svc_listen_all}) <= 10 /\ audits > 0
        => api_score_detail(stored) = score

\* When a finding brings down a control that stood at the audit before, and no
\* control of that framework recovers meanwhile, the audit tells of it; and it
\* tells only of frameworks that lost one.  A finding that had only passed is
\* read back as one that failed, and hides the fall.
FallsAreTold ==
    LET down == Down(told.before)
        downNow == Down(audited)
    IN ~told.first => \A fw \in FRAMEWORKS :
        LET before == Of(fw, down)
            now == Of(fw, downNow)
        IN /\ now \ before # {} /\ before \subseteq now /\ (\A i \in DOMAIN told.before : ~told.before[i].passed)
                  => fw \in told.frameworks
           /\ fw \in told.frameworks => now \ before # {}

\* A host's findings are findings, and its score one.
PostureTypeOK ==
    /\ found \in Seq(Findings) /\ audited \in Seq(Findings)
    /\ score \in 0 .. 100 /\ Grade(score) \in {"A", "B", "C", "D", "F"}
    /\ LET compliance == analyze_compliance(found) IN
       \A fw \in FRAMEWORKS : Status(compliance[fw].score_pct) # ""
============================================================================
