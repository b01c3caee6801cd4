------------------------------- MODULE MCHosts -------------------------------
(* The instances of what happens on and towards hosts: the quarantine and the *)
(* monitor of the server's own host, the scripts run on a remote one, and the *)
(* trust with which an organisation connects to it.  They share no state, so  *)
(* a behaviour is of one part, chosen at the start, and the others rest.      *)
EXTENDS Monitor, SshTrust, TLC

VARIABLES part,
    host, shown, fixes, touched                   \* RemoteScripts

scriptVars == <<host, shown, fixes, touched>>
hostsVars == <<part, vars, scriptVars, sshVars>>

----------------------------------------------------------------------------
\* Remote hosts: three lines of sshd_config in every order, with one in a
\* drop-in and one outside, where they are included; then every state of the other
\* settings.

Line(kw, val) == [kw |-> kw, val |-> val]
FilesOf(L, n) ==
  {s \in UNION {[1 .. k -> L] : k \in 0 .. n} :
     \A i, j \in DOMAIN s : s[i].kw = "include" /\ s[i] = s[j] => i = j}
Sysctl == {"ip_forward"}
Safe == [main |-> <<>>, dropin |-> <<>>, outside |-> <<>>, ufw |-> "active", rules |-> {},
  value |-> [p \in Sysctl |-> "good"], conf |-> [p \in Sysctl |-> "none"], boot |-> [p \in Sysctl |-> "bad"],
  svc |-> [active |-> FALSE, enabled |-> "disabled", instance |-> FALSE],
  mode |-> [regular |-> TRUE, others |-> FALSE],
  no_pam_faillock |-> FALSE, sudoers_nopasswd |-> FALSE]
Opt == {Line("passwordauthentication", v) : v \in {"yes","no"}} \cup {Line("x11forwarding","yes")}
S1 == {[Safe EXCEPT !.main = m, !.dropin = d, !.outside = o] :
   m \in FilesOf(Opt \cup {Line("match",""), Line("include","dropin"), Line("include","outside")}, 3),
   d \in FilesOf(Opt, 1), o \in FilesOf({Line("passwordauthentication","yes")}, 1)}
Included == {f \in S1 : \A which \in {"dropin", "outside"} :
   f[which] # <<>> => \E i \in DOMAIN f.main : f.main[i] = Line("include", which)}
S2 == {[Safe EXCEPT !.ufw = u, !.main = m, !.value["ip_forward"] = v, !.conf["ip_forward"] = c, !.mode = [regular |-> r, others |-> TRUE],
   !.svc = [active |-> TRUE, enabled |-> e, instance |-> n], !.no_pam_faillock = n] :
   u \in {"none","inactive"}, m \in {<<>>, <<Line("port","2222")>>}, v \in {"good","bad"}, c \in {"none","good","bad"},
   e \in {"enabled","disabled","static"}, n \in BOOLEAN, r \in BOOLEAN}
MCStart == Included \cup S2

----------------------------------------------------------------------------
\* The quarantine alone, of two contents under two names; one name, one
\* content and the monitor's watcher of files; its reader of commands, whose
\* files rest; the scripts, two fixes; two connections that race, of
\* requests or of a schedule; and two requests about a credential.

Scripts == INSTANCE RemoteScripts WITH Start <- MCStart, MaxFixes <- 2

MCName == CHOOSE n \in Names : TRUE
MCContent == CHOOSE c \in Contents : TRUE
OneContent == \A p \in Paths : fs[p] # Absent => fs[p].c \in {MCContent, Torn}

QuarantineRests == fs = [p \in Paths |-> Absent] /\ Init
ScriptsRest == host = Safe /\ shown = {} /\ fixes = <<>> /\ touched = <<>>
MCKey == CHOOSE k \in Keys : TRUE
TrustRests ==
    /\ at = [h \in Hosts |-> [key |-> MCKey, net |-> "global"]]
    /\ sched = [s \in Scheds |-> NoSched]
    /\ SshInit

HostsInit ==
    \/ part = "quarantine" /\ Init /\ ScriptsRest /\ TrustRests
    \/ part = "monitor" /\ Init /\ OneContent /\ ScriptsRest /\ TrustRests
    \/ part = "commands" /\ QuarantineRests /\ ScriptsRest /\ TrustRests
    \/ part = "scripts" /\ Scripts!Init /\ QuarantineRests /\ TrustRests
    \/ /\ part \in {"connections", "credentials"} /\ SshInit /\ QuarantineRests /\ ScriptsRest
       /\ \A h \in Hosts : at[h].key = MCKey        \* keys are interchangeable
       /\ part = "connections" => \A s \in Scheds : sched[s] # NoSched

HostsNext ==
    \/ part = "quarantine" /\ QNext /\ UNCHANGED <<part, mvars, scriptVars, sshVars>>
    \/ /\ part = "monitor" /\ Next /\ OneContent' /\ op'.name \in {MCName, Absent}
       /\ pipe' = <<>> /\ UNCHANGED <<part, scriptVars, sshVars>>
    \/ part = "commands" /\ Next /\ UNCHANGED <<part, qvars, scriptVars, sshVars>>
    \/ part = "scripts" /\ Scripts!Next /\ UNCHANGED <<part, vars, sshVars>>
    \/ part = "connections" /\ SshNext /\ UNCHANGED <<req, auth_secret, sched, part, vars, scriptVars>>
    \/ part = "credentials" /\ SshNext /\ job' = job /\ UNCHANGED <<part, vars, scriptVars>>

Monitored == part \in {"monitor", "commands"}

\* The two tasks of the monitor go on while it runs.
HostsSpec ==
    /\ HostsInit /\ [][HostsNext]_hostsVars
    /\ WF_hostsVars(Monitored /\ Reads /\ UNCHANGED <<part, scriptVars, sshVars>>)
    /\ WF_hostsVars(Monitored /\ Watches /\ UNCHANGED <<part, scriptVars, sshVars>>)

----------------------------------------------------------------------------
\* Remote fixes stand, and undoing one gives back what was there (RemoteScripts).
RemoteSettingsKept == part = "scripts" => Scripts!RemoteSettingsKept
==============================================================================
