----------------------------- MODULE SshdConfig -----------------------------
(***************************************************************************)
(* What a configuration of sshd means, and how an option is set so that it *)
(* takes effect: core/sshd_config.py, used on this server and inside the   *)
(* scripts that run on audited hosts.                                      *)
(*                                                                         *)
(* A configuration is the main file, one drop-in of its directory and one  *)
(* file outside, each a sequence of lines [kw, val].  Only the main file   *)
(* includes others, each at most once.  A comment is no line.              *)
(***************************************************************************)
EXTENDS Sequences, SequencesExt, Integers

Inside == {"main", "dropin"}      \* _inside: files of sshd's own directory

\* in_match: a Match stands at this line or above it in the file.
InMatch(lines, i) == \E k \in 1 .. i : lines[k].kw = "match"

\* The lines of one file as _walk yields them, read inside a Match or not.
FileLines(cfg, file, inMatch) ==
  [i \in DOMAIN cfg[file] |->
     [file |-> file, nr |-> i, line |-> cfg[file][i],
      match |-> inMatch \/ InMatch(cfg[file], i)]]

\* The lines in the order in which sshd processes them.
Walk(cfg) ==
  FlattenSeq([i \in DOMAIN cfg.main |->
    LET here == FileLines(cfg, "main", FALSE)[i] IN
    <<here>> \o IF here.line.kw = "include"
                  THEN FileLines(cfg, here.line.val, here.match) ELSE <<>>])

\* The lines that set an option for every connection.
Global(cfg, opt) == SelectSeq(Walk(cfg), LAMBDA e : e.line.kw = opt /\ ~e.match)

\* The first value counts; "" if there is none.
effective(cfg, opt) ==
  LET lines == Global(cfg, opt) IN IF lines = <<>> THEN "" ELSE lines[1].line.val

\* Where a line is added: before the first Match of the main file.
Place(cfg) ==
  LET matches == {i \in DOMAIN cfg.main : cfg.main[i].kw = "match"} IN
  IF matches = {} THEN Len(cfg.main) + 1
  ELSE CHOOSE i \in matches : \A k \in matches : i <= k

\* Every global line inside the directory gets the value; an option without a
\* line anywhere gets one.  A change remembers the line it replaced, if any.
plan_set(cfg, opt, val) ==
  LET new   == [kw |-> opt, val |-> val]
      lines == Global(cfg, opt)
      edits == SelectSeq(lines, LAMBDA e : e.file \in Inside /\ e.line # new)
      Edited(file, i) == \E k \in DOMAIN edits : edits[k].file = file /\ edits[k].nr = i
  IN IF lines = <<>>
       THEN [cfg |-> [cfg EXCEPT !.main = InsertAt(@, Place(cfg), new)],
             changes |-> <<[file |-> "main", added |-> TRUE, old |-> new, new |-> new]>>]
       ELSE [cfg |-> [file \in DOMAIN cfg |->
                        [i \in DOMAIN cfg[file] |->
                           IF Edited(file, i) THEN new ELSE cfg[file][i]]],
             changes |-> [k \in DOMAIN edits |->
                            [file |-> edits[k].file, added |-> FALSE,
                             old |-> edits[k].line, new |-> new]]]

\* Mutant: at the last line that reads as the new one.
UndoChange_last(cfg, change) ==
  LET lines == cfg[change.file]
      found == {i \in DOMAIN lines : lines[i] = change.new}
      at    == CHOOSE i \in found : \A k \in found : i >= k
  IN CASE found = {}   -> cfg
       [] change.added -> [cfg EXCEPT ![change.file] = RemoveAt(@, at)]
       [] OTHER        -> [cfg EXCEPT ![change.file][at] = change.old]

\* One change is taken back: at the first line that reads as the new one.
UndoChange(cfg, change) ==
  LET lines == cfg[change.file]
      found == {i \in DOMAIN lines : lines[i] = change.new}
      at    == CHOOSE i \in found : \A k \in found : i <= k
  IN CASE found = {}   -> cfg
       [] change.added -> [cfg EXCEPT ![change.file] = RemoveAt(@, at)]
       [] OTHER        -> [cfg EXCEPT ![change.file][at] = change.old]

plan_undo(cfg, changes) == FoldLeft(UndoChange, cfg, changes)

=============================================================================
