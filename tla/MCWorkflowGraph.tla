--------------------------- MODULE MCWorkflowGraph ---------------------------
EXTENDS WorkflowGraph

On(n)        == [next |-> n]
Plain(k, n)  == [kind |-> k, next |-> On(n)]
Gate(p, f)   == [kind |-> "gate", next |-> [pass |-> p, fail |-> f]]
To(n, r)     == [to |-> n, req |-> r]
Forked(bs, j, r) == [kind |-> "fork", branches |-> bs, join |-> j, repair |-> r]
Joined(c, f) == [kind |-> "join", next |-> [completed |-> c, failed |-> f, skipped |-> f]]
End          == [kind |-> "end"]

\* A critic and a check beside each other, with a repair; a failed region is held.
Review == [start |-> Plain("start", "fork"), implement |-> Plain("work", "fork"),
           fork |-> Forked(<<To("critic", TRUE), To("gate", TRUE)>>, "join", "implement"),
           critic |-> Plain("agent", "join"), gate |-> Gate("join", "join"),
           join |-> Joined("post", "hold"), post |-> Gate("end", "end"),
           hold |-> Plain("pause", "end"), end |-> End]

\* Two critics, with a repair.
Pair == [start |-> Plain("start", "fork"), implement |-> Plain("work", "fork"),
         fork |-> Forked(<<To("critic", TRUE), To("second", TRUE)>>, "join", "implement"),
         critic |-> Plain("agent", "join"), second |-> Plain("agent", "join"),
         join |-> Joined("end", "end"), end |-> End]

\* A region inside a branch: a fan-out of critics, and an optional branch; a loop.
Nested == [start |-> Plain("start", "fork"), implement |-> Plain("work", "fork"),
           fork |-> Forked(<<To("each", TRUE), To("critic", FALSE)>>, "join", "implement"),
           each |-> [kind |-> "foreach", body |-> "item", join |-> "inner", sizes |-> {0, 2}, empty |-> "skipped"],
           item |-> Plain("agent", "inner"), inner |-> Joined("join", "join"),
           critic |-> Plain("agent", "join"), join |-> Joined("end", "loop"),
           loop |-> [kind |-> "loop", max |-> 1, next |-> [repeat |-> "fork", exhausted |-> "end"]], end |-> End]

\* The regions of the three.
Within(g) == [n \in DOMAIN g |-> CASE n \in {"critic", "gate", "second", "each", "inner"} -> "fork"
                                   [] n = "item" -> "each" [] OTHER -> "none"]

None    == [crash |-> 0, pause |-> 0, letgo |-> 0, exit |-> 0, ran |-> 0]
Plan(g, par, most, b) == [graph |-> g, region |-> Within(g), parallel |-> par, loops |-> 1, acts |-> most,
                          bounds |-> b]

\* Safety: repairs with leavers and with deaths of the daemon, launches let go of, nested regions.
Regions == <<Plan(Review, 2, 11, None), Plan(Pair, 2, 9, [None EXCEPT !.exit = 1]),
             Plan(Review, 2, 8, [None EXCEPT !.crash = 1]),
             Plan(Pair, 2, 9, [None EXCEPT !.crash = 1, !.letgo = 1]),
             Plan(Nested, 2, 17, None)>>

\* Liveness: one slot for both branches.
Narrow == <<Plan(Review, 1, 11, [None EXCEPT !.pause = 1, !.ran = 1]), Plan(Nested, 1, 13, None),
            Plan(Pair, 1, 9, [None EXCEPT !.exit = 1])>>
=============================================================================
