----------------------- MODULE MCTollkeeperTaskGroup -----------------------
(* TollkeeperTaskGroup for TLC.  Table t; upstream tables a and ra ("raw.a"); *)
(* x, the name of a CTE or of an intermediate table; xx, "x" in another case. *)
EXTENDS TollkeeperTaskGroup, TLC

CONSTANTS t, a, ra, x, xx, id, amount

AllNames == {t, a, ra, x, xx}
LastParts == [n \in AllNames |-> IF n = ra THEN a ELSE n]

Writes(target, reads, ctes, uses) ==
    [writes |-> TRUE, targets |-> {target}, reads |-> reads, ctes |-> ctes, uses |-> uses]
Changes(target) ==
    [writes |-> FALSE, targets |-> {target}, reads |-> {}, ctes |-> {}, uses |-> {}]

With == {<<{}, {}>>, <<{a}, {a}>>, <<{x}, {x}>>, <<{x}, {xx}>>}
SomeStatements ==
    {Writes(n, r, w[1], w[2]) : n \in {t, x}, r \in {{a}, {ra}, {t}, {x}, {a, ra}}, w \in With}
        \cup {Changes(n) : n \in {t, ra}}
SomeScripts == {<<>>} \cup {<<s>> : s \in SomeStatements}
                      \cup {<<r, s>> : r \in SomeStatements, s \in SomeStatements}
SomeDeclarations == {NotGiven, {a}, {a, ra}, {t}}
UpstreamTables == {a, ra}

TheColumns == {id, amount}
TheValues == {0, 1}
R(i, n) == (id :> i) @@ (amount :> n)
Good == <<R(1, 1)>>
Unknown == <<R(1, NullValue), R(0, 1)>>
Wrong == <<R(1, 0), R(1, 1)>>
SomeData == {Good, Unknown, Wrong}

Positive == [r \in Row |-> CASE r[amount] = 1 -> "true" [] r[amount] = 0 -> "false"
                             [] OTHER -> "unknown"]
SomeChecks == {NullCheck(id), RowCountCheck(1), ConditionCheck(Positive), UniqueCheck({id})}

Built(inPlace, strategy, engine, mode) ==
    [inPlace |-> inPlace, atomic |-> TRUE, strategy |-> strategy, engine |-> engine,
     connId |-> FALSE, known |-> FALSE,
     checks |-> SomeChecks, mode |-> mode, store |-> TRUE]
SomeSetups ==
    {Built(TRUE, "passThrough", "local", "stop"), Built(TRUE, "passThrough", "local", "continue"),
     Built(FALSE, "redirect", "local", "stop"), Built(FALSE, "redirect", "local", "continue"),
     Built(FALSE, "passThrough", "local", "stop"), Built(TRUE, "none", "local", "stop"),
     Built(TRUE, "passThrough", "remote", "stop"), Built(TRUE, "passThrough", "local", "other"),
     [Built(FALSE, "redirect", "local", "stop") EXCEPT !.atomic = FALSE],
     [Built(FALSE, "redirect", "remote", "stop") EXCEPT !.connId = TRUE, !.known = TRUE, !.checks = {}]}

\* Bound: every script with an operator that raises at once, and every setup
\* with a declared source.
MCInit ==
    /\ Init
    /\ conf.strategy = "none" \/ declared = {a}
    /\ prod.rows = Good
MCSpec == MCInit /\ [][Next]_vars /\ Fairness
=============================================================================
