------------------------------ MODULE DqChecks ------------------------------
(***************************************************************************)
(* checks/polars.py: what each check computes of the rows at a version     *)
(* reference, and what it is there to say of them.  Polars is external: a  *)
(* filter keeps the rows for which its condition is true, NOT of an        *)
(* unknown value (a comparison with NULL) is unknown, and group_by takes   *)
(* NULL for a value like any other.                                        *)
(***************************************************************************)
EXTENDS Integers, Sequences, FiniteSets

CONSTANTS
    Columns, Values,
    NullValue           \* an empty field of the CSV file

ASSUME DqAssumption == NullValue \notin Values

Row == [Columns -> Values \cup {NullValue}]

\* A condition on a row: an Expr or the text of a WHERE clause.
Truth == {"true", "false", "unknown"}
Condition == [Row -> Truth]

NullCheck(column) == [kind |-> "null", column |-> column]
RowCountCheck(min_rows) == [kind |-> "count", min |-> min_rows]
ConditionCheck(condition) == [kind |-> "condition", holds |-> condition]
UniqueCheck(columns) == [kind |-> "unique", columns |-> columns]

Check ==
    [kind: {"null"}, column: Columns] \cup [kind: {"count"}, min: Nat]
    \cup [kind: {"condition"}, holds: Condition] \cup [kind: {"unique"}, columns: SUBSET Columns]

---------------------------------------------------------------------------
Not(t) == CASE t = "true" -> "false" [] t = "false" -> "true" [] t = "unknown" -> "unknown"

\* Slip: the rows for which the condition holds are the violations.
FilterUnnegated(rows, holds) == {i \in DOMAIN rows : holds[rows[i]] = "true"}

FilterNot(rows, holds) == {i \in DOMAIN rows : Not(holds[rows[i]]) = "true"}

\* group_by(columns).len().filter(len > 1)
KeyOf(row, columns) == [c \in columns |-> row[c]]
Members(rows, columns, i) == {j \in DOMAIN rows : KeyOf(rows[j], columns) = KeyOf(rows[i], columns)}
Groups(rows, columns) == {Members(rows, columns, i) : i \in DOMAIN rows}
Duplicates(rows, columns) == {g \in Groups(rows, columns) : Cardinality(g) > 1}

\* CheckResult.passed
Passed(check, rows) ==
    CASE check.kind = "null" -> Cardinality({i \in DOMAIN rows : rows[i][check.column] = NullValue}) = 0
      [] check.kind = "count" -> Len(rows) >= check.min
      [] check.kind = "condition" -> Cardinality(FilterNot(rows, check.holds)) = 0
      [] check.kind = "unique" -> Cardinality(Duplicates(rows, check.columns)) = 0

---------------------------------------------------------------------------
\* What the docstrings promise of rows that pass: every row satisfies the
\* condition ("fails if any row does not satisfy").
Meets(check, rows) ==
    CASE check.kind = "null" -> \A i \in DOMAIN rows : rows[i][check.column] # NullValue
      [] check.kind = "count" -> check.min <= Len(rows)
      [] check.kind = "condition" -> \A i \in DOMAIN rows : check.holds[rows[i]] = "true"
      [] check.kind = "unique" ->
           \A i, j \in DOMAIN rows : i # j => \E c \in check.columns : rows[i][c] # rows[j][c]

\* A row contradicts the check.  A row of which the condition is unknown does
\* not, and does not satisfy it: there the promise and the code differ.
Violates(check, rows) ==
    IF check.kind = "condition" THEN \E i \in DOMAIN rows : check.holds[rows[i]] = "false"
    ELSE ~Meets(check, rows)
=============================================================================
