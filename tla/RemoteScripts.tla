--------------------------- MODULE RemoteScripts ---------------------------
(***************************************************************************)
(* What runs on an audited host (scanners/ssh_audit.py): the audit script, *)
(* the fix script, and the actions that take a fix back, built from what   *)
(* the host said about its state before the fix.                           *)
(*                                                                         *)
(* RemoteFixes has the record of fixes, their interleavings and the answer *)
(* that gets lost, with a fix reduced to reading and writing one setting;  *)
(* here each fix runs alone and is what its commands do.                   *)
(***************************************************************************)
EXTENDS SshdConfig

CONSTANTS
  Start,        \* states the host may be in at first
  MaxFixes,     \* bound: fixes applied
  Faults        \* may commands of the scripts fail?

VARIABLES
  host,         \* the facts
  shown,        \* findings of the last audit
  fixes,        \* fixes applied: action, undo action, setting before, undone
  touched       \* ghost: setting -> the last fix applied or undone on it, 0 for none

vars == <<host, shown, fixes, touched>>

REMOTE_SSH_PARAMS == {"passwordauthentication", "x11forwarding"}
REMOTE_SYSCTL     == {"ip_forward"}

None == [action |-> "none"]

-----------------------------------------------------------------------------
(* The audit script *)

Cfg(h) == [f \in {"main", "dropin", "outside"} |-> h[f]]

ssh_findings(h) ==
  {<<"ssh", p>> : p \in {q \in REMOTE_SSH_PARAMS : effective(Cfg(h), q) = "yes"}}

\* Only ufw is asked; a host without it has no finding.
fw_findings(h) == IF h.ufw = "inactive" THEN {<<"fw_inactive", "ufw">>} ELSE {}

kernel_findings(h) == {<<"kernel", p>> : p \in {q \in REMOTE_SYSCTL : h.value[q] # "good"}}

\* Regular files others may write; at most twenty are listed per directory.
ww_findings(h) == IF h.mode.others THEN {<<"ww", "file">>} ELSE {}

\* A unit of that name, or with that name and a dash or an at sign, is active.
svc_findings(h) == IF h.svc.active \/ h.svc.instance THEN {<<"svc", "telnet">>} ELSE {}

\* Reported, and corrected by nobody.
manual_findings(h) ==
  {<<"manual", m>> : m \in {k \in {"no_pam_faillock", "sudoers_nopasswd"} : h[k]}}

REMOTE_AUDIT_SCRIPT(h) ==
  ssh_findings(h) \cup fw_findings(h) \cup kernel_findings(h) \cup ww_findings(h)
  \cup svc_findings(h) \cup manual_findings(h)

-----------------------------------------------------------------------------
(* The fix script: an outcome is whether it went well, the host afterwards *)
(* and what it says of the state before.                                   *)

Out(ok, h, before) == [ok |-> ok, host |-> h, before |-> before]
Fail(h) == IF Faults THEN {Out(FALSE, h, None)} ELSE {}

WithCfg(h, c) == [h EXCEPT !.main = c.main, !.dropin = c.dropin, !.outside = c.outside]

\* Mutant: the effective value is not looked at.
ssh_param_unchecked(h, p) ==
  LET plan == plan_set(Cfg(h), p, "no") IN
  Fail(h) \cup {Out(TRUE, WithCfg(h, plan.cfg), [changes |-> plan.changes])}

\* sshd_write: every line inside the directory is set; sshd -t may reject it,
\* and a value that does not take effect is an error too: then all is restored.
ssh_param(h, p) ==
  LET plan == plan_set(Cfg(h), p, "no") IN
  Fail(h) \cup
  {IF effective(plan.cfg, p) = "no"
     THEN Out(TRUE, WithCfg(h, plan.cfg), [changes |-> plan.changes])
     ELSE Out(FALSE, h, None)}

\* The ports are those of the main file, whatever the drop-ins say.
Ports(h) ==
  LET given == {h.main[i].val : i \in {k \in DOMAIN h.main : h.main[k].kw = "port"}} IN
  IF given = {} THEN {"22"} ELSE given

ufw_enable(h) ==
  LET opened == [h EXCEPT !.rules = @ \cup Ports(h)] IN
  Fail(opened) \cup
  {Out(TRUE, [opened EXCEPT !.ufw = "active"], [active |-> h.ufw = "active"])}

\* The value at once, and a line for the next boot unless the file has one for
\* this parameter, whatever it says.
sysctl(h, p) ==
  Fail(h) \cup
  {Out(TRUE, [h EXCEPT !.value[p] = "good", !.conf[p] = IF @ = "none" THEN "good" ELSE @],
       [value |-> h.value[p], conf_added |-> h.conf[p] = "none"])}

\* systemctl disable does nothing to a static unit, and says nothing.
svc_disable(h) ==
  Fail(h) \cup
  {Out(TRUE, [h EXCEPT !.svc.active = FALSE,
                       !.svc.enabled = IF @ = "enabled" THEN "disabled" ELSE @],
       [active |-> h.svc.active, enabled |-> h.svc.enabled = "enabled"])}

\* The mode of a regular file; O_NOFOLLOW refuses a link.
chmod_ow(h) ==
  IF h.mode.regular
    THEN Fail(h) \cup {Out(TRUE, [h EXCEPT !.mode.others = FALSE], [mode |-> h.mode.others])}
    ELSE {Out(FALSE, h, None)}

\* remote_fix_action: the action for a finding, built here and not on the host.
remote_fix_action(f) ==
  CASE f[1] = "ssh"         -> [action |-> "ssh_param", on |-> f[2]]
    [] f[1] = "fw_inactive" -> [action |-> "ufw_enable", on |-> f[2]]
    [] f[1] = "kernel"      -> [action |-> "sysctl", on |-> f[2]]
    [] f[1] = "svc"         -> [action |-> "svc_disable", on |-> f[2]]
    [] f[1] = "ww"          -> [action |-> "chmod_ow", on |-> f[2]]
    [] OTHER                -> None

Run(h, a) ==
  CASE a.action = "ssh_param"   -> ssh_param(h, a.on)
    [] a.action = "ufw_enable"  -> ufw_enable(h)
    [] a.action = "sysctl"      -> sysctl(h, a.on)
    [] a.action = "svc_disable" -> svc_disable(h)
    [] a.action = "chmod_ow"    -> chmod_ow(h)

\* undo_action: None when the fix changed nothing that can be taken back.
undo_action(a, before) ==
  CASE a.action = "ssh_param" ->
         IF before.changes = <<>> THEN None
         ELSE [action |-> "ssh_param_undo", changes |-> before.changes]
    [] a.action = "ufw_enable" -> IF before.active THEN None ELSE [action |-> "ufw_disable"]
    [] a.action = "sysctl"     -> [action |-> "sysctl_undo", on |-> a.on,
                                   value |-> before.value, conf_added |-> before.conf_added]
    [] a.action = "svc_disable" -> [action |-> "svc_undo",
                                    active |-> before.active, enabled |-> before.enabled]
    [] a.action = "chmod_ow"   -> [action |-> "chmod_restore", mode |-> before.mode]

\* Mutant: every line for the next boot goes.
sysctl_undo_all(h, u) ==
  Fail(h) \cup {Out(TRUE, [h EXCEPT !.value[u.on] = u.value, !.conf[u.on] = "none"], None)}

\* The old value, and the line goes if the fix had added it.
sysctl_undo(h, u) ==
  Fail(h) \cup
  {Out(TRUE, [h EXCEPT !.value[u.on] = u.value, !.conf[u.on] = IF u.conf_added THEN "none" ELSE @],
       None)}

\* Enabled first and started then; the first error ends it.
svc_undo(h, u) ==
  LET enabled == [h EXCEPT !.svc.enabled = IF u.enabled THEN "enabled" ELSE @] IN
  Fail(h) \cup (IF u.enabled /\ u.active THEN Fail(enabled) ELSE {})
  \cup {Out(TRUE, [enabled EXCEPT !.svc.active = IF u.active THEN TRUE ELSE @], None)}

RunUndo(h, u) ==
  CASE u.action = "ssh_param_undo" ->
         Fail(h) \cup {Out(TRUE, WithCfg(h, plan_undo(Cfg(h), u.changes)), None)}
    [] u.action = "ufw_disable"   -> Fail(h) \cup {Out(TRUE, [h EXCEPT !.ufw = "inactive"], None)}
    [] u.action = "sysctl_undo"   -> sysctl_undo(h, u)
    [] u.action = "svc_undo"      -> svc_undo(h, u)
    [] u.action = "chmod_restore" ->
         Fail(h) \cup {Out(TRUE, [h EXCEPT !.mode.others = u.mode], None)}

-----------------------------------------------------------------------------
(* What a fix is about, for the properties *)

Settings == REMOTE_SSH_PARAMS \cup REMOTE_SYSCTL \cup {"ufw", "telnet", "file"}

Whether(b) == IF b THEN "yes" ELSE "no"

SettingOf(h, s) ==
  CASE s \in REMOTE_SSH_PARAMS -> <<effective(Cfg(h), s)>>
    [] s \in REMOTE_SYSCTL     -> <<h.value[s], h.conf[s]>>
    [] s = "ufw"               -> <<h.ufw>>
    [] s = "telnet"            -> <<Whether(h.svc.active), h.svc.enabled, Whether(h.svc.instance)>>
    [] s = "file"              -> <<Whether(h.mode.others)>>

About(h, s) == {f \in REMOTE_AUDIT_SCRIPT(h) : f[2] = s}

\* Fixes reported as applied that do not clear their finding, or not for good:
\* other units with the service's name, a static one after a boot, and a line
\* for the boot that was there before with another value.
Passing(h, s) ==
  \/ s = "telnet" /\ (h.svc.instance \/ h.svc.enabled = "static")
  \/ s \in REMOTE_SYSCTL /\ h.conf[s] = "bad"

-----------------------------------------------------------------------------
Init ==
  /\ host \in Start
  /\ shown = {}
  /\ fixes = <<>>
  /\ touched = [s \in Settings |-> 0]

audit_host ==
  /\ shown' = REMOTE_AUDIT_SCRIPT(host)
  /\ UNCHANGED <<host, fixes, touched>>

\* A finding shown earlier, which may no longer be true.  A failure may have
\* changed the host, and leaves no row.
apply_fix_remote(f) ==
  /\ Len(fixes) < MaxFixes
  /\ f \in shown /\ remote_fix_action(f) # None
  /\ \E out \in Run(host, remote_fix_action(f)) :
       /\ host' = out.host
       /\ IF out.ok
            THEN /\ fixes' = Append(fixes,
                      [on |-> f[2], undo |-> undo_action(remote_fix_action(f), out.before),
                       before |-> SettingOf(host, f[2]), undone |-> FALSE])
                 /\ touched' = [touched EXCEPT ![f[2]] = Len(fixes) + 1]
            ELSE UNCHANGED <<fixes, touched>>
  /\ UNCHANGED shown

\* An undo that fails gives the fix back; what it had done by then stays.
undo_fix_remote(k) ==
  /\ ~fixes[k].undone /\ fixes[k].undo # None
  /\ \E out \in RunUndo(host, fixes[k].undo) :
       /\ host' = out.host
       /\ fixes' = [fixes EXCEPT ![k].undone = out.ok]
       /\ touched' = [touched EXCEPT ![fixes[k].on] =
                        IF @ # k \/ (~out.ok /\ host' # host) THEN 0 ELSE @]
  /\ UNCHANGED shown

\* A boot takes the values the files say, else those of the kernel, and starts
\* the services that are enabled or that another unit asks for.
Booted(h) ==
  [h EXCEPT !.value = [p \in REMOTE_SYSCTL |-> IF h.conf[p] # "none" THEN h.conf[p] ELSE h.boot[p]],
            !.svc.active = @ \/ h.svc.enabled \in {"enabled", "static"}]

Reboot ==
  /\ host' = Booted(host)
  \* what the boot brings need not be what a fix found or left
  /\ touched' = [s \in Settings |->
       IF touched[s] # 0 /\ SettingOf(Booted(host), s) # SettingOf(host, s)
          /\ (fixes[touched[s]].undone \/ Passing(host, s)) THEN 0 ELSE touched[s]]
  /\ UNCHANGED <<shown, fixes>>

Next ==
  \/ audit_host \/ Reboot
  \/ \E f \in shown : apply_fix_remote(f)
  \/ \E k \in DOMAIN fixes : undo_fix_remote(k)

-----------------------------------------------------------------------------
\* A fix that stands clears its finding, whatever other fixes are applied or
\* taken back after it, in any order, and over a restart of the host.
RemoteFixesStand ==
  \A s \in Settings :
    touched[s] # 0 /\ ~fixes[touched[s]].undone /\ ~Passing(host, s) => About(host, s) = {}

\* A fix taken back leaves its setting as it was before, whatever else was
\* fixed or taken back meanwhile, unless it was already safe when it was fixed:
\* then plan_undo may change another line that reads the same.
RemoteUndoRestores ==
  \A s \in Settings :
    touched[s] # 0 /\ fixes[touched[s]].undone =>
      \/ SettingOf(host, s) = fixes[touched[s]].before
      \/ s \in REMOTE_SSH_PARAMS /\ fixes[touched[s]].before = <<"no">>

RemoteSettingsKept == RemoteFixesStand /\ RemoteUndoRestores

=============================================================================
