---- MODULE MCAuditFlow ----
(* AuditFlow on three shards, two of them on one database. *)
EXTENDS AuditFlow

Run(at, outcome) == [kind |-> "run", at |-> at, outcome |-> outcome, rules |-> {}]
Counted(at, rules) == [kind |-> "run", at |-> at, outcome |-> "success", rules |-> {rules}]
For(d1, d2) == [d \in {"d1", "d2"} |-> IF d = "d1" THEN d1 ELSE d2]

MCShards == <<<<"SPIDER", "d1">>, <<"POPPER", "d1">>, <<"POPPER", "d2">>>>

(* No metadata; metadata that says nothing; a progress file that is newer  *)
(* than, and one that is as old as, a summary that says otherwise; a       *)
(* database without a record; a newest success that names as many rules as *)
(* there are, and one that names more.                                     *)
MCTargets ==
    {[tracked |-> FALSE, progress |-> For(None, None), summary |-> For(None, None),
      written |-> For(1, 1)],
     [tracked |-> TRUE, progress |-> For(None, None), summary |-> For(None, None),
      written |-> For(1, 1)],
     [tracked |-> TRUE, progress |-> For(Run(2, "partial"), Run(1, "success")),
      summary |-> For(Run(1, "success"), Run(1, "error")), written |-> For(1, 1)],
     [tracked |-> TRUE, progress |-> For(Run(1, "timeout"), None),
      summary |-> For(Counted(2, 1), None), written |-> For(1, 1)],
     [tracked |-> TRUE, progress |-> For(None, Counted(2, 2)),
      summary |-> For(Counted(1, 1), Counted(1, 1)), written |-> For(1, 1)]}

=============================
