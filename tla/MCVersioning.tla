---------------------------- MODULE MCVersioning ----------------------------
EXTENDS Versioning, TLC

CONSTANTS dev, t1, t2, t3

\* The dolt init commit, and two commits that diverge.
Root == [ancestors |-> {1}, tables |-> {}]
Fresh == <<Root>>
Forked == <<Root, [ancestors |-> {1, 2}, tables |-> {t1}],
            [ancestors |-> {1, 3}, tables |-> {t2}]>>
Linear == <<Root, [ancestors |-> {1, 2}, tables |-> {t1}],
            [ancestors |-> {1, 2, 3}, tables |-> {t1, t2}]>>
OnlyMain == [b \in Branches |-> IF b = Main THEN 1 ELSE 0]
Behind == [b \in Branches |-> IF b = Main THEN 3 ELSE IF b = dev THEN 2 ELSE 0]
Fork == [b \in Branches |-> IF b = Main THEN 2 ELSE IF b = dev THEN 3 ELSE 0]

Chain == {<<t1, t2>>, <<t2, t3>>}
Cycle == {<<t1, t2>>, <<t2, t1>>}

Start(os, h, c, hashes, lists, batch, requests) ==
    [head |-> h, commits |-> c, pref |-> {},
     load |-> [ops |-> os, hashes |-> hashes, lists |-> lists, catalogs |-> {{}},
               batch |-> batch, requests |-> requests]]

Unknown == MaxCommits + 1

\* Each start exercises operations that interact.
MCStarts ==
    { Start({"push", "checkout"}, OnlyMain, Fresh, {0, 1}, {{t1}}, 1, 3),
      Start({"push", "delete"}, Fork, Forked, {3}, {{t1, t2}}, 2, 2),
      Start({"push", "record"}, OnlyMain, Fresh, {0}, {{}, {t1}}, 1, 3),
      Start({"push", "merge"}, Fork, Forked, {0, 3}, {{t1}}, 1, 2),
      Start({"create", "checkout", "delete", "merge"}, Fork, Forked, {}, {}, 0, 3),
      Start({"pull", "merge"}, Fork, Forked, {0, 2, Unknown}, {}, 0, 2),
      Start({"pull", "create", "delete"}, Behind, Linear, {2}, {}, 0, 3),
      Start({"pull", "push"}, Fork, Forked, {0, 3}, {{t1}}, 1, 2),
      [Start({"savePrefs", "preview", "record"}, OnlyMain, Fresh, {}, {{}, {t1}, {t1, t2}}, 0, 2)
          EXCEPT !.load.catalogs = {{}, Chain, Cycle}, !.pref = {t1}] }

=============================================================================
