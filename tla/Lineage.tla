------------------------------ MODULE Lineage ------------------------------
(***************************************************************************)
(* parser.py: extract_lineage, one step per statement of the script.       *)
(*                                                                         *)
(* sqlglot's tree of a statement is external; what the code sees of it is  *)
(* which tables it names, and the histories keep what those names mean.  A *)
(* name is what _table_name makes of a table: "db.t" and "t" are two names *)
(* with the same last part; a common table expression is a name without a  *)
(* database, of which a statement may have several.                        *)
(***************************************************************************)
EXTENDS Sequences

CONSTANTS
    Names,      \* the tables that scripts name
    LastPart,   \* [Names -> Names]: the name without catalog and database
    Statements, \* the statements that scripts consist of
    Scripts     \* the scripts, each a sequence of statements

(* One statement:                                                          *)
(*   writes   it is an INSERT, a CREATE or a MERGE                         *)
(*   targets  the table that it is about: of these three, or of an UPDATE, *)
(*            a DELETE, a DROP; {} if it is a query                        *)
(*   reads    the stored tables that it reads                              *)
(*   ctes     the names that its WITH clauses define                       *)
(*   uses     its references to them, possibly in another case             *)
ASSUME LineageAssumption ==
    /\ LastPart \in [Names -> Names]
    /\ Statements \subseteq [writes: BOOLEAN, targets: SUBSET Names, reads: SUBSET Names,
                             ctes: SUBSET Names, uses: SUBSET Names]
    /\ Scripts \subseteq Seq(Statements)

VARIABLES
    todo,       \* the statements that are still to be looked at
    sources, sinks,
    written,    \* history: the tables that statements so far have written
    needed,     \* history: the tables that a statement reads, before the
                \* script has written them and not under the name of a CTE
    stray       \* history: names of what the script does not read: the
                \* target of an UPDATE or DELETE, a CTE in another case

codeVars == <<todo, sources, sinks>>
meaning == <<written, needed, stray>>
lineageVars == <<codeVars, meaning>>

LineageTypeOK ==
    /\ todo \in Seq(Statements)
    /\ sources \subseteq Names /\ sinks \subseteq Names
    /\ written \subseteq Names /\ needed \subseteq Names
    /\ stray \subseteq Names

LineageInit ==
    /\ todo \in Scripts
    /\ sources = {} /\ sinks = {}
    /\ written = {} /\ needed = {} /\ stray = {}

Mentions(s) == s.targets \cup s.reads \cup s.uses

SinksWith(s) == IF s.writes THEN sinks \cup s.targets ELSE sinks

\* Slips: a statement's own target is not yet a sink when its tables are
\* looked at; no name is taken for a CTE.
SinksBefore(s) == sinks
NoCtes(s) == {}

KnownSinks(s) == SinksWith(s)
CteNames(s) == s.ctes

Means(s) ==
    /\ written' = IF s.writes THEN written \cup s.targets ELSE written
    /\ needed' = needed \cup {n \in s.reads \ written' : LastPart[n] \notin s.ctes}
    /\ stray' = stray \cup {n \in s.uses : LastPart[n] \notin s.ctes}
                      \cup (IF s.writes THEN {} ELSE s.targets)

ParseStatement ==
    /\ todo # <<>>
    /\ LET s == Head(todo) IN
          /\ sinks' = SinksWith(s)
          /\ sources' = sources \cup {n \in Mentions(s) : n \notin KnownSinks(s)
                                                        /\ LastPart[n] \notin CteNames(s)}
          /\ Means(s)
    /\ todo' = Tail(todo)

LineageSpec == LineageInit /\ [][ParseStatement]_lineageVars

---------------------------------------------------------------------------
(* Properties *)

\* Every table that some statement reads before the script has written it
\* itself is a source, unless each such statement has a CTE of its name; and
\* nothing else is, but for the target of an UPDATE or DELETE and a CTE
\* referred to in another case.  A missing source is a sensor that does not wait, a
\* superfluous one a sensor that may wait for ever (extract_lineage).
SourcesAreReads == needed \subseteq sources /\ sources \subseteq needed \cup stray
=============================================================================
