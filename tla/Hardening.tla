----------------------------- MODULE Hardening -----------------------------
(***************************************************************************)
(* The local audit of scanners/hardening.py, its automatic fixes and their *)
(* rollback through core/rollback.py.                                      *)
(*                                                                         *)
(* The server is a record of facts, one per file, mode, service or kernel  *)
(* parameter that a check reads, reduced to the values the checks tell     *)
(* apart.  A check maps it to findings; a fix maps it and a finding to the *)
(* outcomes that its commands can have; a rollback writes facts back.      *)
(* The steps of one fix are not interleaved here: LocalFixes does that for *)
(* sshd, whose file several fixes share.                                   *)
(***************************************************************************)
EXTENDS SshdConfig, FiniteSets

CONSTANTS
  Start,        \* states the server may be in at first
  Params,       \* kernel parameters
  WebPort,      \* keep_open_ports: the port of the web interface
  MAX_WW,       \* max_ww_files: findings of check_world_writable
  MaxFixes,     \* bound: fixes applied
  Faults        \* may commands fail and checks raise?

ASSUME HardeningAssumption ==
  /\ MAX_WW \in Nat \ {0} /\ MaxFixes \in Nat
  /\ Faults \in BOOLEAN

VARIABLES
  host,         \* the facts
  shown,        \* findings of the last audits, which the fix buttons name
  journal       \* the rollback entries

vars == <<host, shown, journal>>

\* A mode is its three octal digits; as a number, and its bits for others.
Octal(m)         == 64 * m[1] + 8 * m[2] + m[3]
OthersRead(m)    == m[3] \div 4 = 1
OthersWrite(m)   == (m[3] \div 2) % 2 = 1
NoOthersRead(m)  == IF OthersRead(m) THEN [m EXCEPT ![3] = @ - 4] ELSE m
NoOthersWrite(m) == IF OthersWrite(m) THEN [m EXCEPT ![3] = @ - 2] ELSE m

\* A finding: its identifier and what it is about.
F(id, on) == <<id, on>>
When(P, id) == IF P THEN {F(id, "host")} ELSE {}

-----------------------------------------------------------------------------
(* The checks *)

Files   == {"main", "dropin", "outside"}
Sshd(h) == [f \in Files |-> h[f]]

check_ssh(h) ==
  LET Value(opt) == effective(Sshd(h), opt) IN
     When(Value("permitrootlogin") = "yes", "ssh_PermitRootLogin")
  \cup When(Value("maxauthtries") \notin {"3", "4"}, "ssh_MaxAuthTries")
  \cup When(Value("protocol") \in {"1", "2,1"}, "ssh_protocol1")

\* Does "running" appear on the standard output of firewall-cmd?  It does in "not
\* running" as well, where a firewall-cmd prints that there and not among the errors; a
\* silent one, which does not reach the daemon's bus, prints nothing ever.
SaysRunning(h) ==
  CASE h.firewall_cmd = "output" -> TRUE
    [] h.firewall_cmd = "errors" -> h.firewalld = "active"
    [] h.firewall_cmd = "silent" -> FALSE

check_firewall(h) ==
  CASE h.ufw # "none"       -> When(h.ufw = "inactive", "fw_ufw_inactive")
    [] h.ufw = "none" /\ h.firewalld # "none" -> When(~SaysRunning(h), "fw_firewalld_inactive")
    [] OTHER                -> When(TRUE, "fw_none")

check_kernel_params(h) == {F("kernel", p) : p \in {q \in Params : h[q] = "bad"}}

\* Regular files of /etc and of the directories of programs.
Scanned == {"passwd", "shadow", "hostkey", "bin"}
check_world_writable(h) == {F("ww", f) : f \in {g \in Scanned : OthersWrite(h[g])}}

check_pam_faillock(h) ==
  When("faillock" \notin {h.pam_auth, h.pam_other}, "no_pam_faillock")

\* The first match counts, be it in a comment.
LoginValue(d) == IF d.comment # "none" THEN d.comment ELSE d.line
check_password_policy(h) == When(LoginValue(h.login_defs) = "bad", "login_defs")

\* Mutant: an installed unit passes.
SaysActive_installed(state) == state # "none"

\* What systemctl prints contains "active" also for an inactive unit.
SaysActive(state) == state \in {"active", "inactive"}

check_auditd(h) ==
  IF h.auditd = "none" THEN When(TRUE, "no_auditd")
  ELSE When(~SaysActive(h.auditd), "auditd_inactive")

\* The name anywhere in the list of active units.
check_services(h) == When(h.service \in {"on", "mentioned"}, "svc")

check_sudoers(h)  == When(h.sudoers = "NOPASSWD", "sudoers_nopasswd")
check_apparmor(h) ==
  When(h.apparmor # "none" /\ ~SaysActive(h.apparmor), "apparmor_inactive")

check_core_dumps(h)  == When(h.limits # "hard core 0", "core_dumps_enabled")
check_usb_storage(h) == When(h.usb # "blacklisted", "usb_storage_enabled")
check_ctrlaltdel(h)  == When(h.ctrlaltdel = "enabled", "ctrlaltdel_enabled")

check_cron_restrictions(h) ==
  When(~h.cron_allow /\ ~h.cron_deny, "cron_unrestricted")

check_log_permissions(h)     == When(OthersRead(h.log), "log_perm")
check_unattended_upgrades(h) == When(~h.unattended, "no_unattended_upgrades")

check_aide(h) ==
  When(h.aide = "none", "no_aide") \cup When(h.aide = "no db", "aide_db_missing")

\* A prefix is enough: 0227, which is stricter, matches as well.
check_umask(h) == When(h.umask \in {"022", "0227"}, "umask_insecure")

check_ntp(h) == When(~SaysActive(h.chrony) /\ ~h.synchronized, "no_ntp")

check_login_banners(h)   == When(h.banner # "long", "no_banner")
check_empty_passwords(h) == When(h.account = "empty", "empty_password")
check_duplicate_uid0(h)  == When(h.uid0, "duplicate_uid0")

\* The identifier names what is missing.
check_tmp_noexec(h) ==
  LET missing == {"noexec", "nosuid"} \ h.tmp_options IN
  IF missing = {} THEN {} ELSE {F("tmp_tmp", missing)}

check_sticky_bit_tmp(h) == When(~h.sticky, "tmp_no_sticky_bit")

\* The guard is meant to pass 0.0.0.0 and :::, and passes the first only.
SafePorts == {22, 80, 443, 8080, 8443}
check_services_listening_all(h) ==
  {F("svc_listen_all", s.port) :
     s \in {t \in h.sockets : t.address = "0.0.0.0" /\ t.port \notin SafePorts}}

_openssh_patched_via_distro(h) == h.openssh = "patched"
check_openssh_version(h) ==
  When(h.openssh # "new" /\ ~_openssh_patched_via_distro(h), "openssh_cve")

check_ssh_host_keys(h) == When(h.hostkey # <<6, 0, 0>>, "ssh_hostkey_perm")

\* The modes are compared as numbers.
MaxMode == [passwd |-> <<6, 4, 4>>, shadow |-> <<6, 4, 0>>]
check_passwd_integrity(h) ==
  {F("passwd_perm", f) : f \in {g \in DOMAIN MaxMode : Octal(h[g]) > Octal(MaxMode[g])}}

check_at_cron_allow(h) ==
  When(~h.cron_allow /\ ~h.cron_deny, "cron_no_restriction")
    \cup When(~h.at_allow, "at_no_restriction")

check_grub_password(h) == When(~h.grub, "grub_no_password")

check_ipv6_disabled_if_unused(h) ==
  When(~h.ipv6_global /\ ~("ipv6" \in Params /\ h["ipv6"] = "good"), "ipv6_enabled_unused")

CHECKS(h) ==
  [ssh |-> check_ssh(h), firewall |-> check_firewall(h), kernel |-> check_kernel_params(h),
   ww |-> check_world_writable(h), faillock |-> check_pam_faillock(h),
   policy |-> check_password_policy(h), auditd |-> check_auditd(h),
   services |-> check_services(h), sudoers |-> check_sudoers(h),
   apparmor |-> check_apparmor(h), core |-> check_core_dumps(h), usb |-> check_usb_storage(h),
   ctrlaltdel |-> check_ctrlaltdel(h), cron |-> check_cron_restrictions(h),
   logs |-> check_log_permissions(h), upgrades |-> check_unattended_upgrades(h),
   aide |-> check_aide(h), umask |-> check_umask(h), ntp |-> check_ntp(h),
   banners |-> check_login_banners(h), empty |-> check_empty_passwords(h),
   uid0 |-> check_duplicate_uid0(h), noexec |-> check_tmp_noexec(h),
   sticky |-> check_sticky_bit_tmp(h), listening |-> check_services_listening_all(h),
   openssh |-> check_openssh_version(h), hostkeys |-> check_ssh_host_keys(h),
   passwd |-> check_passwd_integrity(h), atcron |-> check_at_cron_allow(h),
   grub |-> check_grub_password(h), ipv6 |-> check_ipv6_disabled_if_unused(h)]

\* What there is to report, were there no limit and no error.
Findings(h) == LET checks == CHECKS(h) IN UNION {checks[c] : c \in DOMAIN checks}

\* The checks that find something: of the others it does not matter if they raise.
Finding(h) == LET checks == CHECKS(h) IN {c \in DOMAIN checks : checks[c] # {}}

\* A check that raises loses its own findings, not those of the others.
full_audit(h, raised) ==
  LET checks == CHECKS(h) IN UNION {checks[c] : c \in (DOMAIN checks) \ raised}

\* Reported without a button to fix them.
Manual == {"fw_none", "sudoers_nopasswd", "cron_unrestricted", "duplicate_uid0", "tmp_tmp",
  "svc_listen_all", "cron_no_restriction", "at_no_restriction", "grub_no_password",
  "ipv6_enabled_unused"}
auto_fix(f) == f[1] \notin Manual

-----------------------------------------------------------------------------
(* The fixes: each is the set of outcomes [ok, host, acts] its commands can *)
(* have, acts being what a rollback will do, in the order it was recorded.  *)

Outcome(ok, h, acts) == [ok |-> ok, host |-> h, acts |-> acts]
Fail(h) == {Outcome(FALSE, h, <<>>)}

\* What a rollback writes back: a fact as it was before the fix.
Act(kind, fact, value)   == [kind |-> kind, fact |-> fact, value |-> value]
Snapshot(h, kind, fact)  == Act(kind, fact, h[fact])
command_undo(fact, value) == Act("command", fact, value)
Reload       == Act("reload", "sshd", "")
irreversible == Act("irreversible", "", "")

\* A command succeeds, fails, or times out with its effect done.
_run(h, new, acts) ==
  {Outcome(TRUE, new, acts)}
    \cup (IF Faults THEN Fail(h) \cup Fail(new) ELSE {})

\* A file is written, or the write raises.
Write(h, new, acts) == {Outcome(TRUE, new, acts)} \cup (IF Faults THEN Fail(h) ELSE {})

\* A systemd unit that is installed is enabled and started; a start may fail.
Enable(h, unit, acts) ==
  CASE h[unit] = "none" -> Fail(h)
    [] OTHER -> _run(h, [h EXCEPT ![unit] = "active"], acts)
                  \cup (IF Faults /\ h[unit] # "active" THEN Fail([h EXCEPT ![unit] = "failed"])
                        ELSE {})

\* Lines "Protocol 1..." of the main file go.
FixProtocol(h) ==
  _run(h, [h EXCEPT !.main = SelectSeq(@, LAMBDA l : l # [kw |-> "protocol", val |-> "1"])],
       <<Reload, Snapshot(h, "file", "main")>>)

\* Nothing to change counts as done; else the files are written, and written
\* back unless sshd -t accepts them and the option has the value.
SetOption(h, opt, val) ==
  LET plan    == plan_set(Sshd(h), opt, val).cfg
      changed == {f \in Files : plan[f] # h[f]}
      new     == plan @@ h
      acts    == <<Reload>> \o SetToSeq({Snapshot(h, "file", f) : f \in changed})
  IN CASE changed = {}               -> {Outcome(TRUE, h, <<>>)}
       [] effective(plan, opt) # val -> Fail(h) \cup (IF Faults THEN Fail(new) ELSE {})
       [] OTHER                      -> _run(h, new, acts)

_fix_ssh(h, id) ==
  CASE id = "ssh_protocol1"    -> FixProtocol(h)
    [] id = "ssh_MaxAuthTries" -> SetOption(h, "maxauthtries", "4")
    [] OTHER                   -> SetOption(h, "permitrootlogin", "no")

\* The ports of sshd that its main file names.
Ports(lines) == {lines[i].val : i \in {k \in DOMAIN lines : lines[k].kw = "port"}}

_sshd_ports(h) == IF Ports(h.main) = {} THEN {"22"} ELSE Ports(h.main)

\* The result of each ufw allow is ignored.
_fix_firewall(h) ==
  LET wanted == _sshd_ports(h) \cup {WebPort} IN
  IF h.ufw = "none" THEN Enable(h, "firewalld", <<Snapshot(h, "service", "firewalld")>>)
  ELSE UNION {LET allowed == [h EXCEPT !.rules = @ \cup ports] IN
                _run(allowed, [allowed EXCEPT !.ufw = "active"], <<command_undo("ufw", "inactive")>>)
              : ports \in IF Faults THEN SUBSET wanted ELSE {wanted}}

\* Mutant: the file is written before its copy is taken.
_fix_sysctl_copies_late(h, p) ==
  LET now  == [h EXCEPT ![p] = "good"]
      kept == [now EXCEPT !.sysctl_conf[p] = IF @ = "none" THEN "good" ELSE @] IN
  {Outcome(TRUE, kept, <<Snapshot(kept, "file", "sysctl_conf"), command_undo(p, h[p])>>)}
    \cup (IF Faults THEN Fail(h) \cup Fail(now) ELSE {})

\* Mutant: the parameter is set, and not kept for the next boot.
_fix_sysctl_not_kept(h, p) ==
  _run(h, [h EXCEPT ![p] = "good"],
       <<Snapshot(h, "file", "sysctl_conf"), command_undo(p, h[p])>>)

\* sysctl -w, and a line in the file read at boot unless it names the parameter.
_fix_sysctl(h, p) ==
  LET now  == [h EXCEPT ![p] = "good"]
      kept == [now EXCEPT !.sysctl_conf[p] = IF @ = "none" THEN "good" ELSE @]
      acts == <<Snapshot(h, "file", "sysctl_conf"), command_undo(p, h[p])>>
  IN {Outcome(TRUE, kept, acts)} \cup (IF Faults THEN Fail(h) \cup Fail(now) ELSE {})

Chmod(h, f, mode) == _run(h, [h EXCEPT ![f] = mode], <<Snapshot(h, "chmod", f)>>)

_fix_world_writable(h, f) == Chmod(h, f, NoOthersWrite(h[f]))
_fix_log_perm(h)          == Chmod(h, "log", NoOthersRead(h.log))
_fix_sticky_bit(h)        == Chmod(h, "sticky", TRUE)

\* Mutant: the mode of passwd for both.
_fix_mode_same(h, f) == Chmod(h, f, <<6, 4, 4>>)

\* 600 for a host key, 640 for shadow, 644 for passwd.
_fix_mode(h, f) == Chmod(h, f, IF f = "hostkey" THEN <<6, 0, 0>> ELSE MaxMode[f])

\* There is no unit of a name that was only mentioned.
_fix_service(h) ==
  IF h.service = "mentioned" THEN Fail(h)
  ELSE _run(h, [h EXCEPT !.service = "off"], <<Snapshot(h, "service", "service")>>)

\* The line that is no comment is rewritten, or one is added.
_fix_login_defs(h) ==
  Write(h, [h EXCEPT !.login_defs.line = "good"], <<Snapshot(h, "file", "login_defs")>>)

_fix_pam_faillock(h) ==
  LET new == [h EXCEPT !.pam_auth = "faillock",
                       !.pam_account = IF @ = "absent" THEN @ ELSE "faillock"] IN
  CASE h.pam_auth = "absent"   -> Fail(h)
    [] h.pam_auth = "faillock" -> {Outcome(TRUE, h, <<>>)}
    [] OTHER -> Write(h, new, <<Snapshot(h, "file", "pam_auth"), Snapshot(h, "file", "pam_account")>>)

\* The line is added; whether sysctl succeeds is ignored.
_fix_core_dumps(h) ==
  LET new  == [h EXCEPT !.limits = "hard core 0"]
      acts == <<Snapshot(h, "file", "limits"), command_undo("dumpable", h.dumpable)>> IN
  {Outcome(TRUE, [new EXCEPT !.dumpable = "0"], acts)}
    \cup (IF Faults THEN {Outcome(TRUE, new, acts)} \cup Fail(h) \cup Fail(new) ELSE {})

_fix_usb_storage(h) ==
  Write(h, [h EXCEPT !.usb = "blacklisted"], <<Snapshot(h, "file", "usb")>>)

_fix_ctrlaltdel(h) ==
  _run(h, [h EXCEPT !.ctrlaltdel = "masked"], <<command_undo("ctrlaltdel", "enabled")>>)

_fix_apparmor(h) == Enable(h, "apparmor", <<Snapshot(h, "service", "apparmor")>>)

\* apt-get install leaves what is installed as it is.
Installed(h, package, state) == IF h[package] = "none" THEN [h EXCEPT ![package] = state] ELSE h

\* The result of the installation is ignored: without the package, enable fails.
_fix_auditd(h) ==
  Enable(Installed(h, "auditd", "inactive"), "auditd", <<irreversible>>)
    \cup (IF Faults THEN Enable(h, "auditd", <<irreversible>>) ELSE {})

_fix_unattended(h) == _run(h, [h EXCEPT !.unattended = TRUE], <<irreversible>>)
_fix_aide(h)       == _run(h, Installed(h, "aide", "no db"), <<irreversible>>)

\* The new database is moved into place if it is where it is looked for.
_fix_aide_db(h) ==
  _run(h, [h EXCEPT !.aide = "db"], <<irreversible>>) \cup {Outcome(TRUE, h, <<irreversible>>)}

\* What matters is the installation; chrony may then not start.
_fix_ntp(h) ==
  LET new == Installed(h, "chrony", "inactive") IN
  {Outcome(TRUE, [new EXCEPT !.chrony = "active"], <<irreversible>>)}
    \cup (IF Faults THEN Fail(h) \cup Fail(new) \cup
             {Outcome(TRUE, [new EXCEPT !.chrony = IF @ = "active" THEN @ ELSE s], <<irreversible>>)
                : s \in {"inactive", "failed"}}
          ELSE {})

\* An upgrade brings what the distribution has, which may be nothing.
_fix_openssh(h) ==
  UNION {_run(h, [h EXCEPT !.openssh = v], <<irreversible>>) : v \in {h.openssh, "patched", "new"}}

_fix_umask(h) ==
  Write(h, [h EXCEPT !.umask = IF @ = "022" THEN "027" ELSE @], <<Snapshot(h, "file", "umask")>>)

_fix_login_banner(h) == Write(h, [h EXCEPT !.banner = "long"], <<Snapshot(h, "file", "banner")>>)

\* passwd -l: a password that was set is kept behind the lock.
LockAccount(h) ==
  _run(h, [h EXCEPT !.account = IF @ = "empty" THEN "locked" ELSE @],
       <<command_undo("account", "empty")>>)

\* HardeningFixer.fix: by prefix, then by name; the rest has no fix.
fix(h, f) ==
  LET id == f[1] on == f[2] IN
  CASE id = "ssh_hostkey_perm"  -> _fix_mode(h, "hostkey")
    [] id = "passwd_perm"       -> _fix_mode(h, on)
    [] id \in {"ssh_PermitRootLogin", "ssh_MaxAuthTries", "ssh_protocol1"} -> _fix_ssh(h, id)
    [] id \in {"fw_ufw_inactive", "fw_firewalld_inactive", "fw_none"} -> _fix_firewall(h)
    [] id = "kernel"            -> _fix_sysctl(h, on)
    [] id = "ww"                -> _fix_world_writable(h, on)
    [] id = "log_perm"          -> _fix_log_perm(h)
    [] id = "svc"               -> _fix_service(h)
    [] id = "login_defs"        -> _fix_login_defs(h)
    [] id = "umask_insecure"    -> _fix_umask(h)
    [] id = "no_banner"         -> _fix_login_banner(h)
    [] id = "empty_password"    -> LockAccount(h)
    [] id = "openssh_cve"       -> _fix_openssh(h)
    [] id = "no_pam_faillock"   -> _fix_pam_faillock(h)
    [] id = "core_dumps_enabled"     -> _fix_core_dumps(h)
    [] id = "usb_storage_enabled"    -> _fix_usb_storage(h)
    [] id = "ctrlaltdel_enabled"     -> _fix_ctrlaltdel(h)
    [] id = "apparmor_inactive"      -> _fix_apparmor(h)
    [] id \in {"no_auditd", "auditd_inactive"} -> _fix_auditd(h)
    [] id = "no_unattended_upgrades" -> _fix_unattended(h)
    [] id = "no_aide"           -> _fix_aide(h)
    [] id = "aide_db_missing"   -> _fix_aide_db(h)
    [] id = "no_ntp"            -> _fix_ntp(h)
    [] id = "tmp_no_sticky_bit" -> _fix_sticky_bit(h)
    [] OTHER                    -> Fail(h)

-----------------------------------------------------------------------------
(* The rollback *)

Undone(ok, h) == [ok |-> ok, host |-> h]

\* A service is enabled and started, or disabled and stopped: never failed.
Units == {"firewalld", "apparmor", "service"}
Restored(fact, value) ==
  CASE fact \notin Units  -> value
    [] value = "failed"   -> "inactive"
    [] OTHER              -> value

\* passwd -u refuses to leave an account without password.
_undo_action(h, a) ==
  LET done == [h EXCEPT ![a.fact] = Restored(a.fact, a.value)]
      fail == IF Faults THEN {Undone(FALSE, h)} ELSE {}
  IN CASE a.kind = "irreversible" -> {Undone(TRUE, h)}
       [] a.kind = "reload"       -> {Undone(TRUE, h)} \cup fail
       [] a.fact = "account"      -> {Undone(FALSE, h)}
       [] OTHER                   -> {Undone(TRUE, done)} \cup fail

\* All actions, the last one first; one that fails does not stop the others.
perform_rollback(h, acts) ==
  FoldLeft(LAMBDA outs, a : UNION {{Undone(o.ok /\ u.ok, u.host) : u \in _undo_action(o.host, a)}
                                   : o \in outs},
           {Undone(TRUE, h)}, Reverse(acts))

-----------------------------------------------------------------------------
(* The handlers *)

Init ==
  /\ host \in Start
  /\ shown = {}
  /\ journal = <<>>

\* An audit: one check may raise, and of the writable files only so many are
\* shown.  Bound: it is not repeated while it shows something to fix.
Audit ==
  /\ shown \cap Findings(host) = {}
  /\ \E raised \in {{}} \cup (IF Faults THEN {{c} : c \in Finding(host)} ELSE {}) :
       LET found == full_audit(host, raised)
           ww    == {f \in found : f[1] = "ww"} IN
       \E few \in SUBSET ww :
         /\ Cardinality(few) = Min({MAX_WW, Cardinality(ww)})
         /\ shown' = (found \ ww) \cup few
  /\ UNCHANGED <<host, journal>>

Touched(acts) ==
  {acts[i].fact : i \in {k \in DOMAIN acts : acts[k].kind \notin {"reload", "irreversible"}}}

\* Fixes that may succeed and leave their finding: the value stands in a file
\* the fix does not touch, or matches the check in another way than the fix.
Stubborn(h, f) ==
  CASE f[1] = "ssh_protocol1" ->
         \E file \in Files :
           \/ [kw |-> "protocol", val |-> "2,1"] \in Range(h[file])
           \/ file # "main" /\ [kw |-> "protocol", val |-> "1"] \in Range(h[file])
    [] f[1] \in {"ssh_PermitRootLogin", "ssh_MaxAuthTries"} ->
         [kw |-> "include", val |-> "outside"] \in Range(h.main)
    [] f[1] = "umask_insecure"  -> h.umask = "0227"
    [] f[1] = "login_defs"      -> h.login_defs.comment = "bad"
    [] f[1] = "passwd_perm"     -> FALSE
    [] f[1] = "fw_firewalld_inactive" -> h.firewall_cmd = "silent"
    [] OTHER -> f[1] \in {"openssh_cve", "no_ntp", "aide_db_missing"}

\* History: the facts the fix touched before and after it, and whether its finding
\* was still there when it began (stale: not).
Entry(f, o) ==
  LET facts == Touched(o.acts) \cup {x \in DOMAIN host : host[x] # o.host[x]} IN
  [finding |-> f, acts |-> o.acts, active |-> TRUE,
   was |-> [x \in facts |-> host[x]], is |-> [x \in facts |-> o.host[x]],
   stale |-> f \notin Findings(host), stubborn |-> Stubborn(host, f),
   disturbed |-> FALSE]

\* api_fix_local: the finding is one that was shown.  A fix that succeeds and
\* recorded something gets an entry.
Fix(f) ==
  /\ f \in shown
  /\ Len(journal) < MaxFixes
  /\ \E o \in fix(host, f) :
       /\ host' = o.host
       /\ journal' = IF o.ok /\ o.acts # <<>> THEN Append(journal, Entry(f, o)) ELSE journal
  /\ UNCHANGED shown

Active == {i \in DOMAIN journal : journal[i].active}
Shares(i, j) == Touched(journal[i].acts) \cap Touched(journal[j].acts) # {}

\* api_rollback_local: the last entry of the finding; it stays active unless
\* everything succeeded.  History: what it disturbs.
Rollback(f) ==
  LET mine == {i \in Active : journal[i].finding = f}
      last == CHOOSE i \in mine : \A k \in mine : k <= i
  IN /\ mine # {}
     /\ \E u \in perform_rollback(host, journal[last].acts) :
          /\ host' = u.host
          /\ journal' = [i \in DOMAIN journal |->
               [journal[i] EXCEPT
                  !.active = @ /\ ~(i = last /\ u.ok),
                  !.disturbed = \/ @
                                \/ i = last /\ ~u.ok
                                \/ Shares(i, last) /\ (i > last \/ journal[last].stale)]]
     /\ UNCHANGED shown

\* The kernel starts with its own values and reads the file.
Reboot ==
  /\ host' = [p \in {q \in Params : host[q] # "absent"} |->
                 IF host.sysctl_conf[p] = "none" THEN host.boot[p] ELSE host.sysctl_conf[p]] @@ host
  /\ UNCHANGED <<shown, journal>>

Next ==
  \/ Audit
  \/ \E f \in shown : Fix(f)
  \/ \E f \in {journal[i].finding : i \in Active} : Rollback(f)
  \/ Reboot

Spec == Init /\ [][Next]_vars

-----------------------------------------------------------------------------
(* Properties *)

\* Findings that a fix may bring about: the package is there and not ready.
Consequences(f) ==
  CASE f[1] = "no_aide"   -> {F("aide_db_missing", "host")}
    [] f[1] = "no_auditd" -> {F("auditd_inactive", "host")}
    [] OTHER              -> {}

\* What is unsafe on the server, in the words of the findings.
Risk(h) == [
  fw_firewalld_inactive |-> h.ufw = "none" /\ h.firewalld \in {"inactive", "failed"},
  fw_ufw_inactive       |-> h.ufw = "inactive",
  auditd_inactive       |-> h.auditd \in {"inactive", "failed"},
  apparmor_inactive     |-> h.apparmor \in {"inactive", "failed"},
  no_ntp                |-> h.chrony # "active" /\ ~h.synchronized,
  svc_listen_all        |-> \E s \in h.sockets : s.port \notin SafePorts,
  passwd_writable       |-> OthersWrite(h.passwd),
  shadow_readable       |-> OthersRead(h.shadow) \/ OthersWrite(h.shadow),
  login_defs            |-> h.login_defs.line = "bad",
  ssh_PermitRootLogin   |-> effective(Sshd(h), "permitrootlogin") = "yes",
  umask_insecure        |-> h.umask = "022"]

\* The findings that report a risk.
Reports(r) ==
  CASE r = "passwd_writable" -> {F("passwd_perm", "passwd"), F("ww", "passwd")}
    [] r = "shadow_readable" -> {F("passwd_perm", "shadow"), F("ww", "shadow")}
    [] r = "svc_listen_all"  -> {F(r, s.port) : s \in host.sockets}
    [] OTHER                 -> {F(r, "host")}

\* The risks that the checks overlook: "inactive" and "not running" contain
\* what is looked for, the guard drops sockets on :::, a mode like 604 is the
\* smaller number, a commented value comes first.
Overlooked(h, r) ==
  CASE r = "fw_firewalld_inactive" -> h.firewall_cmd = "output"
    [] r = "auditd_inactive"   -> h.auditd = "inactive"
    [] r = "apparmor_inactive" -> h.apparmor = "inactive"
    [] r = "no_ntp"            -> h.chrony = "inactive"
    [] r = "svc_listen_all"    -> \A s \in h.sockets : s.address = "0.0.0.0" => s.port \in SafePorts
    [] r = "shadow_readable"   -> Octal(h.shadow) <= Octal(MaxMode.shadow) /\ ~OthersWrite(h.shadow)
    [] r = "login_defs"        -> h.login_defs.comment = "good"
    [] OTHER                   -> FALSE

\* Every risk is reported by some check, in the states that fixes and rollbacks
\* leave too, save those named.
RisksReported ==
  LET risk == Risk(host)
      now  == Findings(host) IN
  \A r \in DOMAIN risk : risk[r] => Overlooked(host, r) \/ Reports(r) \cap now # {}

\* A fix that reports success clears its finding, and no fix brings another
\* one, whatever its commands do, save the cases named (HardeningFixer.fix
\* against the checks).
FixesClear ==
  LET now == Findings(host) IN
  \A f \in now : \A o \in fix(host, f) :
    LET after == Findings(o.host) IN
    /\ o.ok => f \notin after \/ Stubborn(host, f)
    /\ after \subseteq now \cup Consequences(f)

\* Facts no rollback is meant to restore: packages, and the ports opened.
Lasting == {"auditd", "unattended", "aide", "chrony", "openssh", "rules"}

\* A rollback that reports success restores what its fix changed and leaves the
\* rest alone, if that is still as the fix left it (perform_rollback, and what
\* each fix records).  A fix made for a finding no longer there is exempt.
JournalRestores ==
  \A i \in Active : LET e == journal[i] IN
    (~e.stale /\ \A x \in DOMAIN e.is : host[x] = e.is[x]) =>
      \A u \in perform_rollback(host, e.acts) : u.ok =>
        \A x \in (DOMAIN host) \ Lasting :
          u.host[x] = IF x \in DOMAIN e.was THEN Restored(x, e.was[x]) ELSE host[x]

\* As long as fixes are rolled back newest first, and none that had nothing to
\* fix is rolled back, a fix that nobody rolled back stays in force, across
\* reboots too: its finding does not return.  A kernel parameter whose line in the file is another value is not kept (_fix_sysctl).
FixesHold ==
  LET now == Findings(host) IN
  \A i \in Active : LET e == journal[i] IN
    \/ e.disturbed
    \/ e.stubborn
    \/ e.finding[1] = "kernel" /\ host.sysctl_conf[e.finding[2]] = "bad"
    \/ e.finding \notin now

\* The ports that sshd listens on, in whatever file they are set.
SshdPorts(h) ==
  LET ports == {e.line.val : e \in Range(Global(Sshd(h), "port"))} IN
  IF ports = {} THEN {"22"} ELSE ports

\* hardening.py:918: to activate the firewall must not lock out who is administering.
\* While ufw is active because a fix made it so, the ports of sshd and of the web
\* interface are open.
DoorsStayOpen ==
  \A i \in Active :
    journal[i].finding = F("fw_ufw_inactive", "host") /\ ~journal[i].stale /\ host.ufw = "active"
      => SshdPorts(host) \cup {WebPort} \subseteq host.rules

\* What plan_set changed, plan_undo takes back: every option has the value it
\* had, also when another option was changed in between (the undo of a remote
\* fix, ssh_audit.py).  Unless the option had the safe value when it was fixed:
\* then the first line that reads so is not the one that was changed.
SshdUndoRestores ==
  LET wanted     == [permitrootlogin |-> "no", maxauthtries |-> "4"]
      Set(c, o)  == plan_set(c, o, wanted[o])
      Same(a, b) == \A o \in {"permitrootlogin", "maxauthtries", "protocol"} :
                      effective(a, o) = effective(b, o)
      before     == Sshd(host)
  IN \A opt \in {o \in DOMAIN wanted : effective(before, o) # wanted[o]} :
       LET fixed == Set(before, opt) IN
       /\ Same(plan_undo(fixed.cfg, fixed.changes), before)
       /\ \A o \in DOMAIN wanted :
            o # opt => Same(plan_undo(Set(fixed.cfg, o).cfg, fixed.changes), Set(before, o).cfg)

\* Taking a fix back gives back what was there before it, here and on a remote host.
RollbackRestores == JournalRestores /\ SshdUndoRestores

=============================================================================
