---------------------------- MODULE MCHardening ----------------------------
(***************************************************************************)
(* Servers for Hardening: a safe one, and those that differ from it in one *)
(* matter, in all the ways the checks and the fixes tell apart.            *)
(***************************************************************************)
EXTENDS Hardening, TLC

CONSTANT Sizes    \* bound: lines of each file of sshd's configuration

Line(kw, val) == [kw |-> kw, val |-> val]

Safe ==
  [main |-> <<Line("permitrootlogin", "no"), Line("maxauthtries", "4")>>,
   dropin |-> <<>>, outside |-> <<>>,
   ufw |-> "active", firewalld |-> "none", firewall_cmd |-> "output", rules |-> {},
   forward |-> "good", ipv6 |-> "good",
   sysctl_conf |-> [p \in Params |-> "none"], boot |-> [p \in Params |-> "good"],
   passwd |-> <<6, 4, 4>>, shadow |-> <<6, 4, 0>>, hostkey |-> <<6, 0, 0>>,
   bin |-> <<7, 5, 5>>, log |-> <<6, 4, 0>>, sticky |-> TRUE,
   pam_auth |-> "faillock", pam_other |-> "none", pam_account |-> "plain",
   login_defs |-> [comment |-> "none", line |-> "good"],
   auditd |-> "active", apparmor |-> "active", chrony |-> "active", synchronized |-> TRUE,
   service |-> "off", sudoers |-> "password", limits |-> "hard core 0", dumpable |-> "0",
   usb |-> "blacklisted", ctrlaltdel |-> "disabled",
   cron_allow |-> TRUE, cron_deny |-> FALSE, at_allow |-> TRUE,
   unattended |-> TRUE, aide |-> "db", umask |-> "027", banner |-> "long",
   account |-> "set", uid0 |-> FALSE, tmp_options |-> {"noexec", "nosuid"},
   sockets |-> {}, openssh |-> "new", grub |-> TRUE, ipv6_global |-> FALSE]

\* Lines that set an option, and those that structure the file.
Options(vals) == {Line("permitrootlogin", v) : v \in vals}
Structure     == {Line("match", ""), Line("include", "dropin"), Line("include", "outside")}

\* Files with lines of L, that include another file at most once.
FilesOf(L, n) ==
  {s \in UNION {[1 .. k -> L] : k \in 0 .. n} :
     \A i, j \in DOMAIN s : s[i].kw = "include" /\ s[i] = s[j] => i = j}

SshdHosts ==
  {[Safe EXCEPT !.main = <<Line("maxauthtries", "4")>> \o m, !.dropin = d, !.outside = o] :
     m \in FilesOf(Options({"yes", "no"}) \cup Structure, Sizes),
     d \in FilesOf(Options({"yes", "no"}) \cup {Line("match", "")}, Sizes - 1),
     o \in FilesOf(Options({"yes"}), 1)}

\* Other options in the place of PermitRootLogin, the protocol and the ports.
Others ==
  {[Safe EXCEPT !.main = <<Line("include", "dropin")>> \o m, !.dropin = d] :
     m \in FilesOf({Line("maxauthtries", "6"), Line("protocol", "1"), Line("protocol", "2,1")}, 2),
     d \in FilesOf({Line("protocol", "1")}, 1)}
  \cup {[Safe EXCEPT !.main = <<Line("include", "dropin")>> \o m \o @, !.dropin = d,
                     !.ufw = u, !.firewalld = IF u = "none" THEN f ELSE "none"] :
     m \in {<<>>, <<Line("port", "2222")>>, <<Line("port", "22"), Line("port", "2222")>>},
     d \in FilesOf({Line("port", "222")}, 1),
     u \in {"none", "inactive"}, f \in {"none", "inactive", "active"}}
  \cup {[Safe EXCEPT !.ufw = "none", !.firewalld = f, !.firewall_cmd = c] :
     f \in {"inactive", "failed", "active"}, c \in {"errors", "silent"}}

Modes ==
  {[Safe EXCEPT !.passwd = m] : m \in {<<6, 6, 6>>, <<6, 2, 2>>, <<6, 6, 4>>, <<6, 4, 6>>}}
  \cup {[Safe EXCEPT !.shadow = m] : m \in {<<6, 4, 4>>, <<6, 0, 4>>, <<4, 4, 4>>, <<6, 6, 6>>}}
  \cup {[Safe EXCEPT !.hostkey = m, !.bin = b] :
     m \in {<<6, 0, 0>>, <<6, 6, 6>>}, b \in {<<7, 5, 5>>, <<7, 7, 7>>}}
  \cup {[Safe EXCEPT !.log = l] : l \in {<<6, 4, 0>>, <<6, 4, 4>>, <<6, 6, 6>>}}
  \cup {[Safe EXCEPT !.sticky = FALSE]}

Values == {"good", "bad"}

Kernels ==
  {[Safe EXCEPT !.forward = "bad", !.ipv6 = v, !.boot = [p \in Params |-> b],
                !.sysctl_conf["forward"] = c] :
     v, b \in Values, c \in {"none", "bad"}}
  \cup {[Safe EXCEPT !.ipv6 = "bad", !.forward = "absent", !.ipv6_global = g] : g \in BOOLEAN}

Services ==
  {[Safe EXCEPT !.auditd = s] : s \in {"none", "inactive", "failed"}}
  \cup {[Safe EXCEPT !.apparmor = s] : s \in {"none", "inactive", "failed"}}
  \cup {[Safe EXCEPT !.chrony = s, !.synchronized = FALSE] : s \in {"none", "inactive", "failed"}}
  \cup {[Safe EXCEPT !.service = s] : s \in {"on", "mentioned"}}
  \cup {[Safe EXCEPT !.ctrlaltdel = "enabled"], [Safe EXCEPT !.unattended = FALSE],
        [Safe EXCEPT !.aide = "none"], [Safe EXCEPT !.aide = "no db"]}
  \cup {[Safe EXCEPT !.openssh = v] : v \in {"old", "patched"}}

Contents ==
  {[Safe EXCEPT !.pam_auth = a, !.pam_other = o, !.pam_account = c] :
     a \in {"absent", "plain"}, o \in {"none", "faillock"}, c \in {"absent", "plain", "faillock"}}
  \cup {[Safe EXCEPT !.login_defs = [comment |-> c, line |-> l]] :
     c \in Values \cup {"none"}, l \in Values \cup {"none"}}
  \cup {[Safe EXCEPT !.limits = "soft core 0", !.dumpable = d] : d \in {"0", "2"}}
  \cup {[Safe EXCEPT !.umask = u] : u \in {"none", "022", "0227"}}
  \cup {[Safe EXCEPT !.banner = b] : b \in {"none", "short"}}
  \cup {[Safe EXCEPT !.usb = "none"], [Safe EXCEPT !.account = "empty"]}

Reports_only ==
  {[Safe EXCEPT !.sudoers = "NOPASSWD"], [Safe EXCEPT !.uid0 = TRUE], [Safe EXCEPT !.grub = FALSE],
   [Safe EXCEPT !.cron_allow = FALSE], [Safe EXCEPT !.at_allow = FALSE]}
  \cup {[Safe EXCEPT !.tmp_options = o] : o \in SUBSET {"noexec", "nosuid"}}
  \cup {[Safe EXCEPT !.sockets = s] :
     s \in SUBSET {[address |-> a, port |-> p] : a \in {"0.0.0.0", "::"}, p \in {443, 3306}}}

MCStart == SshdHosts \cup Others \cup Modes \cup Kernels \cup Services \cup Contents \cup Reports_only

=============================================================================
