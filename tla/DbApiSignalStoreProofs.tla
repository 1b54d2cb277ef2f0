----------------------- MODULE DbApiSignalStoreProofs -----------------------
(* Safety of DbApiSignalStore, for any number of connections, rows and calls, *)
(* over every kind of database that the two flags describe.                   *)
EXTENDS DbApiDeletes, TLAPS

\* The parts of the state that are not of one connection, and the domains of
\* the others.
ShapeInv ==
    /\ engine \in Engines /\ db \in [Rows -> AllValues]
    /\ \A r \in Rows : db[r] \in ValuesOf(r) \cup {Null}
    /\ DOMAIN own = Conns /\ DOMAIN pinned = Conns
    /\ broken \subseteq Conns
    /\ call \in [Conns -> Calls] /\ todo \in [Conns -> SUBSET Signals]
    /\ calls \in 0..MaxCalls
    /\ spoiled \in [Conns -> SUBSET Rows] /\ overtaken \in [Conns -> SUBSET Rows]

OwnInv(c) ==
    /\ DOMAIN own[c] \subseteq Rows
    /\ \A r \in DOMAIN own[c] : own[c][r] \in ValuesOf(r) \cup {Null}
    /\ pinned[c] = {} \/ \E d \in pinned[c] : pinned[c] = {d} /\ DOMAIN d = Rows

\* What a running call is about.
ArgumentInv(c) ==
    call[c].at # "idle" =>
        /\ call[c].row \in Rows /\ call[c].op \in {"replace", "remove"}
        /\ call[c].op = "replace" => call[c].value \in ValuesOf(call[c].row)
        /\ call[c].op = "remove" => call[c].value = Null /\ call[c].row \notin Pairs
        /\ call[c].at = "insert" => call[c].op = "replace"
        /\ call[c].at = "walk" => call[c].op = "remove" /\ call[c].row \in Signals

\* Which changes of the open transaction are the running call's own, and which
\* an earlier call has left.
MineInv(c) ==
    /\ spoiled[c] \subseteq DOMAIN own[c]
    /\ \A r \in DOMAIN own[c] \ spoiled[c] :
         /\ call[c].at \in {"insert", "commit"} /\ r \in Named(c)
         /\ call[c].at = "commit" => own[c][r] = call[c].value

\* delete has committed before it looks for dependents.
WalkInv(c) == call[c].at = "walk" => own[c] = NoChange /\ pinned[c] = {}

ConnInv(c) == OwnInv(c) /\ ArgumentInv(c) /\ MineInv(c) /\ WalkInv(c)
DbInv == ShapeInv /\ \A c \in Conns : ConnInv(c)

---------------------------------------------------------------------------
\* What a connection sees: its own changes on top of what is there.
LEMMA OverIs ==
    ASSUME NEW f, NEW g
    PROVE  /\ DOMAIN Over(f, g) = DOMAIN f \cup DOMAIN g
           /\ \A r \in DOMAIN f : Over(f, g)[r] = f[r]
           /\ \A r \in DOMAIN g \ DOMAIN f : Over(f, g)[r] = g[r]
BY DEF Over

\* Every row has values that are values.
LEMMA ValuesAreValues == \A r : ValuesOf(r) \cup {Null} \subseteq AllValues
BY DEF ValuesOf, AllValues

\* The rows that a running call names are rows.
LEMMA NamedAreRows == \A c \in Conns : ArgumentInv(c) /\ call[c].at # "idle" => Named(c) \subseteq Rows
BY DEF ArgumentInv, Named, Rows

\* What is committed, with the changes of a connection, is typed.
LEMMA CurrentIsTyped ==
    ASSUME DbInv, NEW c \in Conns
    PROVE  /\ Current(c) \in [Rows -> AllValues]
           /\ \A r \in Rows : Current(c)[r] \in ValuesOf(r) \cup {Null}
           /\ \A r \in DOMAIN own[c] : Current(c)[r] = own[c][r]
           /\ \A r \in Rows \ DOMAIN own[c] : Current(c)[r] = db[r]
<1>1. OwnInv(c) /\ ShapeInv
  BY DEF DbInv, ConnInv
<1>2. DOMAIN db = Rows
  BY <1>1 DEF ShapeInv
<1>3. /\ \A r \in DOMAIN own[c] : Current(c)[r] = own[c][r]
      /\ \A r \in Rows \ DOMAIN own[c] : Current(c)[r] = db[r]
  BY <1>1, <1>2, OverIs DEF Current
<1>4. \A r \in Rows : Current(c)[r] \in ValuesOf(r) \cup {Null}
  BY <1>1, <1>3 DEF ShapeInv, OwnInv
<1>5. Current(c) = [r \in Rows |-> Current(c)[r]]
  BY <1>1, <1>2 DEF Current, Over, OwnInv
<1> QED
  BY <1>3, <1>4, <1>5, ValuesAreValues

\* A step of one connection leaves the invariant of all others alone.
Others(c) ==
    \A d \in Conns \ {c} : /\ own'[d] = own[d] /\ pinned'[d] = pinned[d]
                           /\ call'[d] = call[d] /\ spoiled'[d] = spoiled[d]

LEMMA OneConnection ==
    ASSUME DbInv, NEW c \in Conns, Others(c), ShapeInv', ConnInv(c)'
    PROVE  DbInv'
<1>1. ASSUME NEW d \in Conns, d # c PROVE ConnInv(d)'
  BY <1>1 DEF DbInv, Others, ConnInv, OwnInv, ArgumentInv, MineInv, WalkInv, Named
<1> QED
  BY <1>1 DEF DbInv

\* The store begins with open connections, and no call.
LEMMA DbBegins == Init => DbInv
<1> SUFFICES ASSUME Init PROVE DbInv
  OBVIOUS
<1>1. ShapeInv
  BY DbAssumption DEF Init, ShapeInv, Calls, Idle, Ats, AllValues
<1>2. ASSUME NEW c \in Conns PROVE ConnInv(c)
  BY DEF Init, ConnInv, OwnInv, ArgumentInv, MineInv, WalkInv, Idle, NoChange
<1> QED
  BY <1>1, <1>2 DEF DbInv

---------------------------------------------------------------------------
(* One lemma per step of a call *)

\* An exception leaves the transaction as it was, or undone.
LEMMA RaiseStep ==
    ASSUME DbInv, NEW c \in Conns, Raise(c), broken' \subseteq Conns,
           own' = own \/ own' = [own EXCEPT ![c] = NoChange],
           DOMAIN pinned' = Conns, pinned'[c] \in {pinned[c], {}, {db}},
           \A d \in Conns \ {c} : pinned'[d] = pinned[d]
    PROVE  DbInv'
<1>1. ShapeInv /\ ConnInv(c)
  BY DEF DbInv
<1>2. /\ own'[c] \in {own[c], NoChange} /\ DOMAIN own' = Conns
      /\ \A d \in Conns \ {c} : own'[d] = own[d]
  BY <1>1 DEF ShapeInv
<1>3. DOMAIN own'[c] \subseteq Rows
  BY <1>1, <1>2 DEF ConnInv, OwnInv, NoChange
<1>4. /\ call'[c] = Idle /\ spoiled'[c] = DOMAIN own'[c]
      /\ \A d \in Conns \ {c} : call'[d] = call[d] /\ spoiled'[d] = spoiled[d]
  BY <1>1 DEF Raise, ShapeInv
<1>5. Others(c)
  BY <1>2, <1>4 DEF Others
<1>6. Idle \in Calls
  BY DEF Idle, Calls, Ats, AllValues
<1>7. ShapeInv'
  BY <1>1, <1>2, <1>3, <1>6 DEF ShapeInv, Raise
<1>8. OwnInv(c)'
  BY <1>1, <1>2 DEF ConnInv, OwnInv, NoChange, ShapeInv
<1>9. ArgumentInv(c)' /\ MineInv(c)' /\ WalkInv(c)'
  BY <1>4 DEF ArgumentInv, MineInv, WalkInv, Idle
<1> QED
  BY <1>5, <1>7, <1>8, <1>9, OneConnection DEF ConnInv

\* A call begins with what the arguments say.
LEMMA BeginStep ==
    ASSUME DbInv, NEW c \in Conns, NEW r \in Rows,
           (\E v \in AllValues : Replace(c, r, v)) \/ Remove(c, r)
    PROVE  DbInv'
<1>1. ShapeInv /\ ConnInv(c)
  BY DEF DbInv
<1>2. PICK op \in {"replace", "remove"}, v \in AllValues :
        /\ Begin(c, op, r, v)
        /\ op = "replace" => v \in ValuesOf(r)
        /\ op = "remove" => v = Null /\ r \notin Pairs
  BY DEF Replace, Remove, Accepted, AllValues
<1>3. /\ call' = [call EXCEPT ![c] = [op |-> op, row |-> r, value |-> v, at |-> "delete"]]
      /\ call'[c] = [op |-> op, row |-> r, value |-> v, at |-> "delete"]
      /\ call[c].at = "idle" /\ calls < MaxCalls /\ calls' = calls + 1
      /\ UNCHANGED <<engine, db, own, pinned, broken, overtaken, spoiled, todo>>
  BY <1>1, <1>2 DEF Begin, ShapeInv, txnVars
<1>4. call'[c] \in Calls
  BY <1>3 DEF Calls, Ats
<1>5. ShapeInv'
  BY <1>1, <1>3, <1>4, DbAssumption DEF ShapeInv
<1>6. Others(c)
  BY <1>1, <1>3 DEF Others, ShapeInv
<1>7. OwnInv(c)' /\ MineInv(c)' /\ WalkInv(c)'
  BY <1>1, <1>3 DEF ConnInv, OwnInv, MineInv, WalkInv
<1>8. ArgumentInv(c)'
  BY <1>2, <1>3 DEF ArgumentInv
<1> QED
  BY <1>5, <1>6, <1>7, <1>8, OneConnection DEF ConnInv

\* The running call goes to another place.
LEMMA GotoIs ==
    ASSUME ShapeInv, NEW c \in Conns, NEW at \in Ats, Goto(c, at)
    PROVE  /\ call' \in [Conns -> Calls]
           /\ call'[c].at = at /\ call'[c].op = call[c].op
           /\ call'[c].row = call[c].row /\ call'[c].value = call[c].value
           /\ \A d \in Conns \ {c} : call'[d] = call[d]
           /\ Named(c)' = Named(c)
BY DEF Goto, ShapeInv, Calls, Named

\* The DELETE adds only rows that the call names, as not there.
LEMMA DeleteStep ==
    ASSUME DbInv, NEW c \in Conns, Delete(c) \/ DeleteResumes(c)
    PROVE  DbInv'
<1>1. ShapeInv /\ OwnInv(c) /\ ArgumentInv(c) /\ MineInv(c) /\ call[c].at \in {"delete", "waiting"}
  BY DEF DbInv, ConnInv, Delete, DeleteResumes
<1>2. Named(c) \subseteq Rows
  BY <1>1, NamedAreRows
<1>3. PICK at \in {"waiting", "insert", "commit"} :
        /\ Goto(c, at) /\ at \in {"waiting", AfterDelete(c)}
        /\ UNCHANGED <<engine, db, pinned, broken, spoiled, todo, calls>>
        /\ overtaken' \in [Conns -> SUBSET Rows]
        /\ own' = own \/ (at = AfterDelete(c) /\ \E missed : DeleteRows(c, missed))
  BY <1>1 DEF ShapeInv, Delete, DeleteResumes, AfterDelete, DeleteRows
<1>4. at \in Ats
  BY DEF Ats
<1>5. /\ call' \in [Conns -> Calls]
      /\ call'[c].at = at /\ call'[c].op = call[c].op
      /\ call'[c].row = call[c].row /\ call'[c].value = call[c].value
      /\ \A d \in Conns \ {c} : call'[d] = call[d]
      /\ Named(c)' = Named(c)
  BY <1>1, <1>3, <1>4, GotoIs
<1>6. /\ DOMAIN own' = Conns /\ \A d \in Conns \ {c} : own'[d] = own[d]
      /\ DOMAIN own[c] \subseteq DOMAIN own'[c]
      /\ DOMAIN own'[c] \subseteq DOMAIN own[c] \cup Named(c)
      /\ own'[c] = own[c] \/ at = AfterDelete(c)
      /\ \A r \in DOMAIN own'[c] :
           own'[c][r] = Null \/ (r \in DOMAIN own[c] /\ own'[c][r] = own[c][r])
  <2>1. CASE own' = own
    BY <1>1, <2>1 DEF ShapeInv
  <2>2. ASSUME at = AfterDelete(c), NEW missed, DeleteRows(c, missed)
        PROVE  <1>6!:
    <3> DEFINE gone == [r \in {x \in Named(c) \ missed : Current(c)[x] # Null} |-> Null]
    <3>1. own' = [own EXCEPT ![c] = Over(gone, @)]
      BY <2>2 DEF DeleteRows
    <3>2. own'[c] = Over(gone, own[c]) /\ DOMAIN own' = Conns /\ \A d \in Conns \ {c} : own'[d] = own[d]
      BY <1>1, <3>1 DEF ShapeInv
    <3>3. DOMAIN gone \subseteq Named(c) /\ \A r \in DOMAIN gone : gone[r] = Null
      OBVIOUS
    <3> HIDE DEF gone
    <3>4. /\ DOMAIN own'[c] = DOMAIN gone \cup DOMAIN own[c]
          /\ \A r \in DOMAIN gone : own'[c][r] = gone[r]
          /\ \A r \in DOMAIN own[c] \ DOMAIN gone : own'[c][r] = own[c][r]
      BY <3>2 DEF Over
    <3> QED
      BY <2>2, <3>2, <3>3, <3>4
  <2> QED
    BY <1>3, <2>1, <2>2
<1>7. ShapeInv'
  BY <1>1, <1>3, <1>5, <1>6 DEF ShapeInv
<1>8. Others(c)
  BY <1>3, <1>5, <1>6 DEF Others
<1>9. OwnInv(c)'
  BY <1>1, <1>2, <1>3, <1>6 DEF OwnInv
<1>10. ArgumentInv(c)'
  BY <1>1, <1>3, <1>5 DEF ArgumentInv, AfterDelete
<1>11. MineInv(c)'
  <2>1. spoiled'[c] = spoiled[c] /\ DOMAIN own[c] = spoiled[c]
    BY <1>1, <1>3 DEF MineInv
  <2>2. ASSUME NEW r \in DOMAIN own'[c] \ spoiled'[c]
        PROVE  /\ at \in {"insert", "commit"} /\ r \in Named(c)
               /\ at = "commit" => own'[c][r] = call[c].value
    <3>1. r \in Named(c) /\ own'[c][r] = Null /\ at = AfterDelete(c)
      BY <1>6, <2>1, <2>2
    <3>2. at = "commit" => call[c].value = Null
      BY <1>1, <3>1 DEF AfterDelete, ArgumentInv
    <3> QED
      BY <3>1, <3>2 DEF AfterDelete
  <2> QED
    BY <1>5, <1>6, <2>1, <2>2 DEF MineInv
<1>12. WalkInv(c)'
  BY <1>3, <1>5 DEF WalkInv
<1> QED
  BY <1>7, <1>8, <1>9, <1>10, <1>11, <1>12, OneConnection DEF ConnInv

\* The INSERT adds the row of the call, as the call says.
LEMMA InsertStep ==
    ASSUME DbInv, NEW c \in Conns, Insert(c)
    PROVE  DbInv'
<1>1. ShapeInv /\ OwnInv(c) /\ ArgumentInv(c) /\ MineInv(c) /\ call[c].at = "insert"
  BY DEF DbInv, ConnInv, Insert
<1>2. /\ call' \in [Conns -> Calls]
      /\ call'[c].at = "commit" /\ call'[c].op = call[c].op
      /\ call'[c].row = call[c].row /\ call'[c].value = call[c].value
      /\ \A d \in Conns \ {c} : call'[d] = call[d]
      /\ Named(c)' = Named(c)
  BY <1>1, GotoIs DEF Insert, Ats
<1> DEFINE row == call[c].row
           put == [x \in {row} |-> call[c].value]
<1>3. /\ own'[c] = Over(put, own[c]) /\ DOMAIN own' = Conns
      /\ \A d \in Conns \ {c} : own'[d] = own[d]
      /\ UNCHANGED <<engine, db, pinned, broken, overtaken, spoiled, todo, calls>>
  BY <1>1 DEF Insert, ShapeInv
<1>4. DOMAIN put = {row} /\ put[row] = call[c].value
  OBVIOUS
<1>5. /\ DOMAIN own'[c] = DOMAIN own[c] \cup {row} /\ own'[c][row] = call[c].value
      /\ \A r \in DOMAIN own[c] \ {row} : own'[c][r] = own[c][r]
  <2> HIDE DEF put
  <2>1. /\ DOMAIN own'[c] = DOMAIN put \cup DOMAIN own[c]
        /\ \A r \in DOMAIN put : own'[c][r] = put[r]
        /\ \A r \in DOMAIN own[c] \ DOMAIN put : own'[c][r] = own[c][r]
    BY <1>3 DEF Over
  <2> HIDE DEF row
  <2> QED
    BY <1>4, <2>1
<1>6. /\ row \in Rows /\ call[c].op = "replace" /\ call[c].value \in ValuesOf(row)
      /\ Named(c) = {row}
  BY <1>1 DEF ArgumentInv, Named
<1>7. ShapeInv'
  BY <1>1, <1>2, <1>3 DEF ShapeInv
<1>8. Others(c)
  BY <1>2, <1>3 DEF Others
<1>9. OwnInv(c)'
  BY <1>1, <1>3, <1>5, <1>6 DEF OwnInv
<1>10. ArgumentInv(c)'
  BY <1>1, <1>2 DEF ArgumentInv
<1>11. MineInv(c)'
  BY <1>1, <1>2, <1>3, <1>5, <1>6 DEF MineInv
<1>12. WalkInv(c)'
  BY <1>2 DEF WalkInv
<1> QED
  BY <1>7, <1>8, <1>9, <1>10, <1>11, <1>12, OneConnection DEF ConnInv

\* After the commit nothing is open.
LEMMA CommitStep ==
    ASSUME DbInv, NEW c \in Conns, Commit(c)
    PROVE  DbInv'
<1>1. ShapeInv /\ ArgumentInv(c) /\ call[c].at = "commit"
  BY DEF DbInv, ConnInv, Commit
<1>2. /\ own'[c] = NoChange /\ pinned'[c] = {} /\ spoiled'[c] = {}
      /\ DOMAIN own' = Conns /\ DOMAIN pinned' = Conns /\ spoiled' \in [Conns -> SUBSET Rows]
      /\ \A d \in Conns \ {c} : own'[d] = own[d] /\ pinned'[d] = pinned[d] /\ spoiled'[d] = spoiled[d]
      /\ db' = Current(c) /\ UNCHANGED <<engine, broken, todo, calls>>
  BY <1>1 DEF Commit, Committed, ShapeInv
<1>3. /\ call' \in [Conns -> Calls] /\ \A d \in Conns \ {c} : call'[d] = call[d]
      /\ call'[c] = Idle \/ (/\ call'[c].at = "walk" /\ call'[c].op = "remove" /\ call[c].op = "remove"
                             /\ call[c].row \in Signals
                             /\ call'[c].row = call[c].row /\ call'[c].value = call[c].value)
  <2>1. CASE Goto(c, "walk") /\ call[c].op = "remove" /\ call[c].row \in Signals
    BY <1>1, <2>1, GotoIs DEF Ats
  <2>2. CASE call' = [call EXCEPT ![c] = Idle]
    BY <1>1, <2>2 DEF ShapeInv, Idle, Calls, Ats, AllValues
  <2> QED
    BY <2>1, <2>2 DEF Commit
<1>4. ShapeInv'
  <2>1. \A d \in Conns : Overtakes(c, d) \subseteq Rows
    BY DEF Overtakes, DbInv, ConnInv, OwnInv
  <2>2. overtaken' \in [Conns -> SUBSET Rows]
    BY <1>1, <2>1 DEF Commit, ShapeInv
  <2> QED
    BY <1>1, <1>2, <1>3, <2>2, CurrentIsTyped DEF ShapeInv
<1>5. Others(c)
  BY <1>2, <1>3 DEF Others
<1>6. OwnInv(c)' /\ MineInv(c)' /\ WalkInv(c)'
  BY <1>2 DEF OwnInv, MineInv, WalkInv, NoChange
<1>7. ArgumentInv(c)'
  BY <1>1, <1>3 DEF ArgumentInv, Idle
<1> QED
  BY <1>4, <1>5, <1>6, <1>7, OneConnection DEF ConnInv

\* delete goes on to a dependent, with nothing open.
LEMMA WalkStep ==
    ASSUME DbInv, NEW c \in Conns, Walk(c)
    PROVE  DbInv'
<1>1. /\ ShapeInv /\ OwnInv(c) /\ ArgumentInv(c) /\ MineInv(c) /\ WalkInv(c)
      /\ call[c].at = "walk"
  BY DEF DbInv, ConnInv, Walk
<1>2. /\ DOMAIN pinned' = Conns /\ pinned'[c] \in {pinned[c], {db}}
      /\ \A d \in Conns \ {c} : pinned'[d] = pinned[d]
      /\ UNCHANGED <<engine, db, own, broken, overtaken, spoiled, calls>>
  BY <1>1 DEF Walk, Select, ShapeInv
<1> DEFINE left == todo[c] \cup Downstream(c)
<1>3. left \subseteq Signals
  BY <1>1, DbAssumption DEF Downstream, ShapeInv
<1>4. /\ call' \in [Conns -> Calls] /\ todo' \in [Conns -> SUBSET Signals]
      /\ \A d \in Conns \ {c} : call'[d] = call[d]
      /\ \/ call'[c] = Idle
         \/ /\ call'[c].at = "delete" /\ call'[c].row \in Signals
            /\ call'[c].op = call[c].op /\ call'[c].value = call[c].value
  <2>1. CASE call' = [call EXCEPT ![c] = Idle] /\ UNCHANGED todo
    BY <1>1, <2>1 DEF ShapeInv, Idle, Calls, Ats, AllValues
  <2>2. ASSUME NEW d \in left, call' = [call EXCEPT ![c].row = d, ![c].at = "delete"],
               todo' = [todo EXCEPT ![c] = left \ {d}]
        PROVE  <1>4!:
    <3>1. call[c] \in Calls /\ d \in Rows
      BY <1>1, <1>3 DEF ShapeInv, Rows
    <3>2. call'[c] = [call[c] EXCEPT !.row = d, !.at = "delete"]
      BY <1>1, <2>2 DEF ShapeInv
    <3>3. call'[c] \in Calls
      BY <3>1, <3>2 DEF Calls, Ats
    <3>4. call' = [call EXCEPT ![c] = call'[c]]
      BY <1>1, <2>2, <3>2 DEF ShapeInv
    <3> QED
      BY <1>1, <1>3, <2>2, <3>1, <3>2, <3>3, <3>4 DEF ShapeInv, Calls
  <2> QED
    BY <2>1, <2>2 DEF Walk
<1>5. ShapeInv'
  BY <1>1, <1>2, <1>4 DEF ShapeInv
<1>6. Others(c)
  BY <1>2, <1>4 DEF Others
<1>7. OwnInv(c)'
  BY <1>1, <1>2 DEF OwnInv, ShapeInv
<1>8. MineInv(c)' /\ WalkInv(c)'
  BY <1>1, <1>2, <1>4 DEF MineInv, WalkInv, NoChange, Idle
<1>9. ArgumentInv(c)'
  <2>1. CASE call'[c] = Idle
    BY <2>1 DEF ArgumentInv, Idle
  <2>2. CASE call'[c].at = "delete" /\ call'[c].row \in Signals
              /\ call'[c].op = call[c].op /\ call'[c].value = call[c].value
    BY <1>1, <2>2, DbAssumption DEF ArgumentInv, Rows, ShapeInv
  <2> QED
    BY <1>4, <2>1, <2>2
<1> QED
  BY <1>5, <1>6, <1>7, <1>8, <1>9, OneConnection DEF ConnInv

---------------------------------------------------------------------------
\* Every step keeps the invariant.
LEMMA DbStep == DbInv /\ [Next]_vars => DbInv'
<1>1. ASSUME DbInv, UNCHANGED vars PROVE DbInv'
  BY <1>1 DEF DbInv, ShapeInv, ConnInv, OwnInv, ArgumentInv, MineInv, WalkInv, Named, vars, txnVars
<1>2. ASSUME DbInv, Next PROVE DbInv'
  <2>1. PICK c \in Conns :
          \/ \E r \in Rows : Remove(c, r) \/ \E v \in AllValues : Replace(c, r, v)
          \/ Delete(c) \/ DeleteResumes(c) \/ Insert(c) \/ BadArguments(c) \/ StatementFails(c)
          \/ Commit(c) \/ CommitFails(c) \/ Walk(c) \/ WalkFails(c)
          \/ Read(c) \/ Close(c)
    BY <1>2 DEF Next
  <2>2. CASE \E r \in Rows : Remove(c, r) \/ \E v \in AllValues : Replace(c, r, v)
    BY <1>2, <2>2, BeginStep
  <2>3. CASE Delete(c) \/ DeleteResumes(c)
    BY <1>2, <2>3, DeleteStep
  <2>4. CASE Insert(c)
    BY <1>2, <2>4, InsertStep
  <2>5. CASE BadArguments(c) \/ StatementFails(c) \/ CommitFails(c) \/ WalkFails(c)
    <3>1. broken \subseteq Conns
      BY <1>2 DEF DbInv, ShapeInv
    <3>2. /\ Raise(c) /\ broken' \subseteq Conns
          /\ own' = own \/ own' = [own EXCEPT ![c] = NoChange]
      BY <2>5, <3>1 DEF BadArguments, StatementFails, CommitFails, WalkFails
    <3>3. /\ DOMAIN pinned' = Conns /\ pinned'[c] \in {pinned[c], {}, {db}}
          /\ \A d \in Conns \ {c} : pinned'[d] = pinned[d]
      <4> DOMAIN pinned = Conns
        BY <1>2 DEF DbInv, ShapeInv
      <4>1. CASE Select(c)
        BY <4>1 DEF Select
      <4>2. CASE BadArguments(c) \/ StatementFails(c) \/ CommitFails(c)
        BY <4>2 DEF BadArguments, StatementFails, CommitFails
      <4> QED
        BY <2>5, <4>1, <4>2 DEF WalkFails
    <3> QED
      BY <1>2, <3>2, <3>3, RaiseStep
  <2>6. CASE Commit(c)
    BY <1>2, <2>6, CommitStep
  <2>7. CASE Walk(c)
    BY <1>2, <2>7, WalkStep
  <2>8. CASE Read(c)
    <3>1. ShapeInv /\ ConnInv(c) /\ call[c].at = "idle"
      BY <1>2, <2>8 DEF DbInv, Read
    <3>2. /\ DOMAIN pinned' = Conns /\ pinned'[c] \in {pinned[c], {db}}
          /\ \A d \in Conns \ {c} : pinned'[d] = pinned[d]
          /\ UNCHANGED <<engine, db, own, broken, overtaken, spoiled, call, todo, calls>>
      BY <2>8, <3>1 DEF Read, Select, ShapeInv
    <3>3. ShapeInv' /\ Others(c)
      BY <3>1, <3>2 DEF ShapeInv, Others
    <3>4. ConnInv(c)'
      BY <3>1, <3>2 DEF ConnInv, OwnInv, ArgumentInv, MineInv, WalkInv, Named, ShapeInv
    <3> QED
      BY <1>2, <3>3, <3>4, OneConnection
  <2>9. CASE Close(c)
    <3>1. ShapeInv
      BY <1>2 DEF DbInv
    <3>2. /\ own'[c] = NoChange /\ pinned'[c] = {} /\ spoiled'[c] = {} /\ call'[c] = Idle
          /\ Others(c)
      BY <2>9, <3>1 DEF Close, ShapeInv, Others
    <3>3. ShapeInv'
      BY <2>9, <3>1 DEF Close, ShapeInv, Idle, Calls, Ats, AllValues
    <3>4. ConnInv(c)'
      BY <3>2 DEF ConnInv, OwnInv, ArgumentInv, MineInv, WalkInv, Idle, NoChange
    <3> QED
      BY <1>2, <3>2, <3>3, <3>4, OneConnection
  <2> QED
    BY <2>1, <2>2, <2>3, <2>4, <2>5, <2>6, <2>7, <2>8, <2>9
<1> QED
  BY <1>1, <1>2

LEMMA DbInvariant == Spec => []DbInv
BY DbBegins, DbStep, PTL DEF Spec

---------------------------------------------------------------------------
\* The state keeps its types, and what a call that raised has left stays in
\* the open transaction till the next commit (DbApiSignalStore).
THEOREM DbTypeCorrect == Spec => []TypeOK
<1>1. DbInv => TypeOK
  BY DEF DbInv, ShapeInv, ConnInv, OwnInv, MineInv, TypeOK
<1> QED
  BY <1>1, DbInvariant, PTL

\* Whatever a connection has read before, and whatever snapshot that has
\* pinned, delete looks for dependents among those that are committed at that
\* moment, on every kind of database (delete, get_downstream).
THEOREM WalksAreCurrent == Spec => []WalkIsCurrent
<1>1. ASSUME DbInv, NEW c \in Conns, call[c].at = "walk" PROVE Visible(c) = db
  <2>1. own[c] = NoChange /\ pinned[c] = {} /\ db \in [Rows -> AllValues]
    BY <1>1 DEF DbInv, ShapeInv, ConnInv, WalkInv
  <2>2. Over(NoChange, db) = [r \in Rows |-> db[r]]
    BY <2>1 DEF Over, NoChange
  <2> QED
    BY <2>1, <2>2 DEF Visible
<1>2. DbInv => WalkIsCurrent
  BY <1>1 DEF WalkIsCurrent
<1> QED
  BY <1>2, DbInvariant, PTL

\* Nobody ever sees the gap between the DELETE and the INSERT of a replacement:
\* a row only changes by the commit of a call on it, to what the call says,
\* or because an earlier call of the connection raised and left it changed
\* (write, write_dq_result, register_dep, delete, delete_dq_results).
THEOREM OnlyCallsChangeRows == Spec => OnlyCalledOrSpoiled
<1> DEFINE Explained(r) ==
             \E c \in Conns :
                /\ call[c].at = "commit"
                /\ r \in spoiled[c] \/ (r \in Named(c) /\ db'[r] = call[c].value)
<1>1. DbInv /\ [Next]_vars => [\A r \in Rows : db'[r] # db[r] => Explained(r)]_vars
  <2> SUFFICES ASSUME DbInv, Next, NEW r \in Rows, db'[r] # db[r] PROVE Explained(r)
    OBVIOUS
  <2>1. PICK c \in Conns : Commit(c)
    BY DEF Next, Replace, Remove, Begin, Delete, DeleteResumes, DeleteRows, Insert, BadArguments,
           StatementFails, CommitFails, Walk, WalkFails, Read, Close, Raise
  <2>2. db' = Current(c) /\ call[c].at = "commit" /\ MineInv(c)
    BY <2>1 DEF Commit, Committed, DbInv, ConnInv
  <2>3. r \in DOMAIN own[c] /\ db'[r] = own[c][r]
    BY <2>2, CurrentIsTyped
  <2>4. r \in spoiled[c] \/ (r \in Named(c) /\ db'[r] = call[c].value)
    BY <2>2, <2>3 DEF MineInv
  <2> QED
    BY <2>2, <2>4
<1> QED
  BY <1>1, DbInvariant, PTL DEF Spec, OnlyCalledOrSpoiled

---------------------------------------------------------------------------
(* Who waits for whom *)

\* A row is changed by one open transaction at a time.
Exclusive == \A c, d \in Conns : c # d => DOMAIN own[c] \cap DOMAIN own[d] = {}

LEMMA ExclusiveStep == DbInv /\ Exclusive /\ [Next]_vars => Exclusive'
<1> SUFFICES ASSUME DbInv, Exclusive, Next PROVE Exclusive'
  BY DEF Exclusive, vars, txnVars
<1>0. DOMAIN own = Conns
  BY DEF DbInv, ShapeInv
<1>1. PICK c \in Conns :
        \/ \E r \in Rows : Remove(c, r) \/ \E v \in AllValues : Replace(c, r, v)
        \/ Delete(c) \/ DeleteResumes(c) \/ Insert(c) \/ BadArguments(c) \/ StatementFails(c)
        \/ Commit(c) \/ CommitFails(c) \/ Walk(c) \/ WalkFails(c)
        \/ Read(c) \/ Close(c)
  BY DEF Next
<1>2. /\ \A d \in Conns \ {c} : own'[d] = own[d]
      /\ DOMAIN own'[c] \subseteq DOMAIN own[c] \cup {r \in Named(c) : ~Locked(c, r)}
  <2>1. CASE own' = own
    BY <2>1
  <2>2. CASE own' = [own EXCEPT ![c] = NoChange]
    BY <1>0, <2>2 DEF NoChange
  <2>3. ASSUME ~Waits(c), NEW missed, DeleteRows(c, missed)
        PROVE  <1>2!:
    <3> DEFINE gone == [r \in {x \in Named(c) \ missed : Current(c)[x] # Null} |-> Null]
    <3>1. own' = [own EXCEPT ![c] = Over(gone, @)]
      BY <2>3 DEF DeleteRows
    <3>2. DOMAIN gone \subseteq {r \in Named(c) : ~Locked(c, r)}
      BY <2>3 DEF Waits
    <3> HIDE DEF gone
    <3>3. DOMAIN own'[c] = DOMAIN gone \cup DOMAIN own[c]
      BY <1>0, <3>1 DEF Over
    <3> QED
      BY <1>0, <3>1, <3>2, <3>3
  <2>4. CASE Insert(c)
    <3> DEFINE put == [r \in {call[c].row} |-> call[c].value]
    <3>1. own' = [own EXCEPT ![c] = Over(put, @)] /\ ~Waits(c) /\ call[c].at = "insert"
      BY <2>4 DEF Insert
    <3>2. call[c].op = "replace"
      BY <3>1 DEF DbInv, ConnInv, ArgumentInv
    <3>3. DOMAIN put \subseteq {r \in Named(c) : ~Locked(c, r)}
      BY <3>1, <3>2 DEF Waits, Named
    <3> HIDE DEF put
    <3>4. DOMAIN own'[c] = DOMAIN put \cup DOMAIN own[c]
      BY <1>0, <3>1 DEF Over
    <3> QED
      BY <1>0, <3>1, <3>3, <3>4
  <2>5. own' = own \/ own' = [own EXCEPT ![c] = NoChange] \/ Insert(c)
        \/ (~Waits(c) /\ \E missed : DeleteRows(c, missed))
    BY <1>1 DEF Remove, Replace, Begin, Delete, DeleteResumes, BadArguments, StatementFails,
                Commit, Committed, CommitFails, Walk, WalkFails, Read, Close, txnVars
  <2> QED
    BY <2>1, <2>2, <2>3, <2>4, <2>5
<1> QED
  BY <1>2 DEF Exclusive, Locked

\* No circle of calls ever waits for each other's rows: whoever holds what a
\* call waits for does not wait itself, or holds it for no call any more.
THEOREM NobodyWaitsForAWaiter == Spec => []HoldersGoOn
<1>1. Init => Exclusive
  BY DEF Init, Exclusive, NoChange
<1>2. ASSUME DbInv, Exclusive, NEW c \in Conns, NEW d \in Conns, c # d,
             NEW r \in Named(c) \cap DOMAIN own[d], r \notin spoiled[d]
      PROVE  call[d].at \in {"insert", "commit"} /\ ~Waiting(d)
  <2>1. call[d].at \in {"insert", "commit"} /\ r \in Named(d)
    BY <1>2 DEF DbInv, ConnInv, MineInv
  <2>2. ASSUME call[d].at = "insert" PROVE ~Waits(d)
    <3>1. Named(d) = {r}
      BY <1>2, <2>1, <2>2 DEF DbInv, ConnInv, ArgumentInv, Named
    <3> QED
      BY <1>2, <3>1 DEF Waits, Locked, Exclusive
  <2> QED
    BY <2>1, <2>2 DEF Waiting
<1>3. DbInv /\ Exclusive => HoldersGoOn
  BY <1>2 DEF HoldersGoOn
<1> QED
  BY <1>1, <1>3, ExclusiveStep, DbBegins, DbStep, PTL DEF Spec

---------------------------------------------------------------------------
(* What a delete() has done, and what it has still to do *)

\* The state that DbApiDeletes adds.
HistTypes ==
    /\ outcome \in [Conns -> Store!Outcomes] /\ root \in [Conns -> Signals]
    /\ deleted \in [Conns -> SUBSET Signals]
    /\ stable \in [Conns -> SUBSET Store!Dependencies]
    /\ seen \in [Conns -> SUBSET Store!Dependencies]

\* The key is the root, or a cascade leads to it from a key that is deleted.
Reached(c, k) ==
    k = root[c] \/ \E r \in seen[c] : r[3] = "cascade" /\ r[1] \in deleted[c] /\ r[2] = k

Complete(c) == root[c] \in deleted[c] /\ Store!Closed(deleted[c], stable[c])

\* All that the running delete will touch is reached, and its DELETE has met
\* the row, or there was none, or another has replaced it since.
TakesInv(c) ==
    Deleting(c) =>
        /\ Reached(c, call[c].row) /\ \A k \in todo[c] : Reached(c, k)
        /\ Registered(db) \subseteq seen[c]
        /\ overtaken[c] \subseteq deleted[c]
        /\ call[c].at = "commit" /\ call[c].row \notin DOMAIN own[c] =>
             db[call[c].row] = Null \/ call[c].row \in deleted[c]

\* Where a stable cascade leads from a deleted key is deleted or to do, unless
\* it leads from the key that the delete is at.
LeavesInv(c) ==
    /\ stable[c] \subseteq Registered(db)
    /\ Deleting(c) =>
         /\ root[c] \in deleted[c] \cup {call[c].row}
         /\ call[c].at = "walk" => call[c].row \in deleted[c]
         /\ \A r \in stable[c] : r[3] = "cascade" /\ r[1] \in deleted[c] =>
              r[1] = call[c].row \/ r[2] \in deleted[c] \cup todo[c] \cup {call[c].row}

DeleteInv(c) ==
    /\ outcome[c] = "running" <=> Deleting(c)
    /\ ~Deleting(c) => todo[c] = {}
    /\ call[c].at # "waiting" => overtaken[c] = {}
    /\ outcome[c] = "returned" => Complete(c)
    /\ TakesInv(c) /\ LeavesInv(c)

HistInv == DbInv /\ HistTypes /\ \A c \in Conns : DeleteInv(c)

\* Before the first call nothing is known.
LEMMA HistBegins == HInit => HistInv
<1> SUFFICES ASSUME HInit PROVE HistInv
  OBVIOUS
<1>1. DbInv /\ HistTypes
  BY DbBegins, DbAssumption DEF HInit, HistTypes, Store!Outcomes
<1>2. ASSUME NEW c \in Conns PROVE DeleteInv(c)
  BY DEF HInit, Init, DeleteInv, TakesInv, LeavesInv, Deleting, Idle
<1> QED
  BY <1>1, <1>2 DEF HistInv

\* What is registered are pairs of signals with a policy.
LEMMA RegisteredAre ==
    ASSUME NEW state
    PROVE  /\ \A p \in Pairs : state[p] # Null => <<p[1], p[2], state[p]>> \in Registered(state)
           /\ \A r \in Registered(state) :
                \E p \in Pairs : /\ state[p] # Null /\ r = <<p[1], p[2], state[p]>>
                                 /\ p = <<p[1], p[2]>> /\ p[1] \in Signals /\ p[2] \in Signals
BY DbAssumption DEF Registered

LEMMA RegisteredTyped ==
    ASSUME NEW state, \A p \in Pairs : state[p] \in ValuesOf(p) \cup {Null}
    PROVE  Registered(state) \subseteq Store!Dependencies
<1> SUFFICES ASSUME NEW p \in Pairs, state[p] # Null
             PROVE  <<p[1], p[2], state[p]>> \in Store!Dependencies
  BY DEF Registered
<1>1. p[1] \in Signals /\ p[2] \in Signals /\ state[p] \in {"notify", "cascade"}
  BY DbAssumption DEF ValuesOf
<1> QED
  BY <1>1 DEF Store!Dependencies, Store!Policies

\* A step that is none of this connection's and commits nothing.
Untouched(d) ==
    /\ own'[d] = own[d] /\ call'[d] = call[d] /\ todo'[d] = todo[d]
    /\ overtaken'[d] = overtaken[d] /\ outcome'[d] = outcome[d] /\ root'[d] = root[d]
    /\ deleted'[d] = deleted[d] /\ stable'[d] = stable[d] /\ seen'[d] = seen[d]

LEMMA UntouchedKeeps ==
    ASSUME NEW d \in Conns, DeleteInv(d), Untouched(d), db' = db
    PROVE  DeleteInv(d)'
BY DEF Untouched, DeleteInv, TakesInv, LeavesInv, Deleting, Reached, Complete

\* A step of a connection that commits nothing touches no other.
LEMMA OneDelete ==
    ASSUME HistInv, NEW c \in Conns, DbInv', HistTypes', db' = db,
           \A d \in Conns \ {c} : Untouched(d), DeleteInv(c)'
    PROVE  HistInv'
<1>1. ASSUME NEW d \in Conns, d # c PROVE DeleteInv(d)'
  BY <1>1, UntouchedKeeps DEF HistInv
<1> QED
  BY <1>1 DEF HistInv

\* delete begins with its key to do.
LEMMA CalledStep ==
    ASSUME HistInv, DbInv', NEW c \in Conns, NEW k \in Signals, Remove(c, k), DeleteCalled(c, k)
    PROVE  HistInv'
<1>1. ShapeInv /\ HistTypes /\ DeleteInv(c)
  BY DEF HistInv, DbInv
<1>2. /\ call'[c].at = "delete" /\ call'[c].row = k /\ call[c].at = "idle" /\ call'[c].op = "remove"
      /\ \A d \in Conns \ {c} : call'[d] = call[d]
      /\ UNCHANGED <<engine, db, own, pinned, broken, overtaken, spoiled, todo>>
  BY <1>1 DEF Remove, Begin, ShapeInv, txnVars
<1>3. /\ outcome'[c] = "running" /\ root'[c] = k /\ deleted'[c] = {}
      /\ stable'[c] = Registered(db) /\ seen'[c] = Registered(db)
      /\ \A d \in Conns \ {c} : /\ outcome'[d] = outcome[d] /\ root'[d] = root[d]
                                /\ deleted'[d] = deleted[d] /\ stable'[d] = stable[d]
                                /\ seen'[d] = seen[d]
  BY <1>1 DEF DeleteCalled, HistTypes
<1>4. HistTypes'
  <2>1. Registered(db) \subseteq Store!Dependencies
    BY <1>1, RegisteredTyped DEF ShapeInv, Rows
  <2> QED
    BY <1>1, <2>1 DEF DeleteCalled, HistTypes, Store!Outcomes
<1>5. \A d \in Conns \ {c} : Untouched(d)
  BY <1>2, <1>3 DEF Untouched
<1>6. DeleteInv(c)'
  <2>1. Deleting(c)' /\ ~Deleting(c) /\ overtaken'[c] = {} /\ todo'[c] = {}
    BY <1>1, <1>2 DEF Deleting, DeleteInv
  <2> QED
    BY <1>2, <1>3, <2>1 DEF DeleteInv, TakesInv, LeavesInv, Reached
<1> QED
  BY <1>2, <1>4, <1>5, <1>6, OneDelete

\* A delete that raises or dies is not heard of again.
LEMMA RaisedStep ==
    ASSUME HistInv, DbInv', NEW c \in Conns, CallEnds(c, "raised"),
           BadArguments(c) \/ StatementFails(c) \/ CommitFails(c) \/ WalkFails(c) \/ Close(c)
    PROVE  HistInv'
<1>1. ShapeInv /\ HistTypes /\ DeleteInv(c)
  BY DEF HistInv, DbInv
<1>2. /\ call' = [call EXCEPT ![c] = Idle] /\ todo' = [todo EXCEPT ![c] = {}]
      /\ overtaken' = [overtaken EXCEPT ![c] = {}] /\ db' = db
      /\ own' = own \/ own' = [own EXCEPT ![c] = NoChange]
  BY DEF BadArguments, StatementFails, CommitFails, WalkFails, Close, Raise
<1>3. ~Deleting(c)' /\ todo'[c] = {} /\ overtaken'[c] = {}
  BY <1>1, <1>2 DEF ShapeInv, Deleting, Idle
<1>4. /\ outcome'[c] = IF Deleting(c) THEN "raised" ELSE outcome[c]
      /\ HistTypes' /\ \A d \in Conns \ {c} : outcome'[d] = outcome[d]
      /\ UNCHANGED <<root, deleted, stable, seen>>
  BY <1>1, <1>3 DEF CallEnds, HistTypes, Store!Outcomes
<1>5. \A d \in Conns \ {c} : Untouched(d)
  BY <1>1, <1>2, <1>4 DEF Untouched, ShapeInv
<1>6. DeleteInv(c)'
  BY <1>1, <1>2, <1>3, <1>4 DEF DeleteInv, TakesInv, LeavesInv, Complete
<1> QED
  BY <1>2, <1>4, <1>5, <1>6, OneDelete

\* Calls that are no delete, and the steps of a delete between its commits.
LEMMA QuietStep ==
    ASSUME HistInv, DbInv', NEW c \in Conns, UNCHANGED histVars,
           \/ \E r \in Rows \ Signals : Remove(c, r)
           \/ \E r \in Rows, v \in AllValues : Replace(c, r, v)
           \/ Delete(c) \/ DeleteResumes(c) \/ Insert(c) \/ Read(c)
    PROVE  HistInv'
<1>1. ShapeInv /\ ArgumentInv(c) /\ HistTypes /\ DeleteInv(c)
  BY DEF HistInv, DbInv, ConnInv
<1>2. /\ HistTypes' /\ db' = db
      /\ UNCHANGED <<outcome, root, deleted, stable, seen>>
  BY <1>1 DEF HistTypes, histVars, Remove, Replace, Begin, Delete, DeleteResumes, DeleteRows, Insert, Read
<1>3. CASE (\E r \in Rows \ Signals : Remove(c, r)) \/ \E r \in Rows, v \in AllValues : Replace(c, r, v)
  <2>1. /\ call[c].at = "idle" /\ \A d \in Conns \ {c} : call'[d] = call[d]
        /\ call'[c].op # "remove" \/ call'[c].row \notin Signals
        /\ call'[c].at = "delete" /\ UNCHANGED <<own, overtaken, todo>>
    BY <1>1, <1>3 DEF Remove, Replace, Begin, ShapeInv, txnVars
  <2>2. DeleteInv(c)'
    BY <1>1, <1>2, <2>1 DEF DeleteInv, TakesInv, LeavesInv, Deleting, Complete
  <2> QED
    BY <1>2, <2>1, <2>2, OneDelete DEF Untouched
<1>4. CASE Insert(c) \/ Read(c)
  <2>1. /\ ~Deleting(c) /\ \A d \in Conns \ {c} : call'[d] = call[d] /\ own'[d] = own[d]
        /\ ~Deleting(c)' /\ UNCHANGED <<overtaken, todo>>
        /\ call'[c].at # "waiting" /\ call[c].at # "waiting"
    BY <1>1, <1>4 DEF Insert, Read, Goto, ShapeInv, Deleting, ArgumentInv, Calls
  <2>2. DeleteInv(c)'
    BY <1>1, <1>2, <2>1 DEF DeleteInv, TakesInv, LeavesInv, Complete
  <2> QED
    BY <1>2, <2>1, <2>2, OneDelete DEF Untouched
<1>5. CASE Delete(c) \/ DeleteResumes(c)
  <2>1. PICK at \in {"waiting", "insert", "commit"}, missed \in SUBSET overtaken[c] :
          /\ Goto(c, at) /\ at \in {"waiting", AfterDelete(c)}
          /\ at = "waiting" => own' = own /\ overtaken' = overtaken /\ overtaken[c] = {}
          /\ at # "waiting" => DeleteRows(c, missed) /\ overtaken' = [overtaken EXCEPT ![c] = {}]
          /\ todo' = todo
    <3>1. CASE Delete(c)
      <4>1. overtaken[c] = {} /\ overtaken' = overtaken /\ todo' = todo
        BY <1>1, <3>1 DEF DeleteInv, Delete
      <4>2. overtaken' = [overtaken EXCEPT ![c] = {}]
        BY <1>1, <4>1 DEF ShapeInv
      <4> QED
        BY <3>1, <4>1, <4>2 DEF Delete, AfterDelete
    <3>2. CASE DeleteResumes(c)
      BY <3>2 DEF DeleteResumes, AfterDelete
    <3> QED
      BY <1>5, <3>1, <3>2
  <2>2. /\ call'[c].at = at /\ call'[c].op = call[c].op /\ call'[c].row = call[c].row
        /\ \A d \in Conns \ {c} : call'[d] = call[d]
    BY <1>1, <2>1, GotoIs DEF Ats
  <2>3. \A d \in Conns \ {c} : Untouched(d)
    BY <1>1, <1>2, <2>1, <2>2 DEF Untouched, ShapeInv, DeleteRows
  <2>4. Deleting(c)' <=> Deleting(c)
    BY <1>5, <2>2 DEF Deleting, Delete, DeleteResumes
  <2>5. ASSUME Deleting(c), at = "commit", call[c].row \notin DOMAIN own'[c]
        PROVE  db[call[c].row] = Null \/ call[c].row \in deleted[c]
    <3> DEFINE row == call[c].row
               gone == [r \in {x \in Named(c) \ missed : Current(c)[x] # Null} |-> Null]
    <3>1. Named(c) = {row} /\ row \in Rows
      BY <2>5, DbAssumption DEF Deleting, Named, Rows
    <3>2. own'[c] = Over(gone, own[c])
      BY <1>1, <2>1, <2>5 DEF DeleteRows, ShapeInv
    <3>3. DOMAIN own'[c] = DOMAIN gone \cup DOMAIN own[c]
      BY <3>2, OverIs
    <3>4. row \notin DOMAIN own[c] /\ (row \in missed \/ Current(c)[row] = Null)
      BY <2>5, <3>1, <3>3
    <3>5. Current(c)[row] = db[row]
      BY <3>1, <3>4, CurrentIsTyped DEF HistInv
    <3> QED
      BY <1>1, <2>1, <2>5, <3>4, <3>5 DEF DeleteInv, TakesInv
  <2>6. overtaken'[c] = IF at = "waiting" THEN overtaken[c] ELSE {}
    BY <1>1, <2>1 DEF ShapeInv
  <2>7. DeleteInv(c)'
    <3>1. TakesInv(c)'
      BY <1>1, <1>2, <2>1, <2>2, <2>4, <2>5, <2>6 DEF DeleteInv, TakesInv, Reached
    <3>2. LeavesInv(c)' /\ (~Deleting(c) => todo'[c] = {})
      BY <1>1, <1>2, <2>1, <2>2, <2>4 DEF DeleteInv, LeavesInv
    <3> QED
      BY <1>1, <1>2, <2>1, <2>2, <2>4, <2>6, <3>1, <3>2 DEF DeleteInv, Complete
  <2> QED
    BY <1>2, <2>3, <2>7, OneDelete
<1> QED
  BY <1>3, <1>4, <1>5

\* delete goes on to where the key that it was at leads, or is complete.
LEMMA WalksStep ==
    ASSUME HistInv, DbInv', NEW c \in Conns, Walk(c), CallEnds(c, "returned")
    PROVE  HistInv'
<1>1. ShapeInv /\ ArgumentInv(c) /\ WalkInv(c) /\ HistTypes /\ DeleteInv(c) /\ call[c].at = "walk"
  BY DEF HistInv, DbInv, ConnInv, Walk
<1> DEFINE row == call[c].row
           left == todo[c] \cup Downstream(c)
<1>2. /\ db' = db /\ own' = own /\ overtaken' = overtaken
      /\ UNCHANGED <<root, deleted, stable, seen>>
      /\ \A d \in Conns \ {c} : /\ call'[d] = call[d] /\ todo'[d] = todo[d]
                                /\ outcome'[d] = outcome[d]
      /\ HistTypes'
  BY <1>1 DEF Walk, CallEnds, ShapeInv, HistTypes, Store!Outcomes
<1>3. \A d \in Conns \ {c} : Untouched(d)
  BY <1>2 DEF Untouched
<1>4. Visible(c) = db
  <2>1. Over(NoChange, db) = [r \in Rows |-> db[r]]
    BY <1>1 DEF Over, NoChange, ShapeInv
  <2> QED
    BY <1>1, <2>1 DEF Visible, WalkInv, ShapeInv
<1>5. \A k \in Signals : k \in Downstream(c) <=> <<row, k, "cascade">> \in Registered(db)
  <2>1. ASSUME NEW k \in Signals, k \in Downstream(c) PROVE <<row, k, "cascade">> \in Registered(db)
    <3>1. PICK p \in Pairs : p[1] = row /\ p[2] = k /\ db[p] = "cascade"
      BY <1>4, <2>1 DEF Downstream
    <3>2. <<p[1], p[2], db[p]>> \in Registered(db)
      BY <3>1, RegisteredAre, DbAssumption
    <3> QED
      BY <3>1, <3>2
  <2>2. ASSUME NEW k \in Signals, <<row, k, "cascade">> \in Registered(db) PROVE k \in Downstream(c)
    <3>1. PICK p \in Pairs : <<row, k, "cascade">> = <<p[1], p[2], db[p]>>
      BY <2>2 DEF Registered
    <3> QED
      BY <1>4, <3>1 DEF Downstream
  <2> QED
    BY <2>1, <2>2
<1>6. left \subseteq Signals
  BY <1>1, DbAssumption DEF Downstream, ShapeInv
<1>7. \A r \in stable[c] : r[3] = "cascade" /\ r[1] = row => r[2] \in left
  <2> SUFFICES ASSUME NEW r \in stable[c], r[3] = "cascade", r[1] = row PROVE r[2] \in Downstream(c)
    OBVIOUS
  <2>1. r \in Registered(db)
    BY <1>1 DEF DeleteInv, LeavesInv
  <2>2. PICK p \in Pairs : /\ r = <<p[1], p[2], db[p]>> /\ p[2] \in Signals
    BY <2>1, RegisteredAre
  <2>3. r = <<row, r[2], "cascade">> /\ r[2] \in Signals
    BY <2>2
  <2> QED
    BY <1>5, <2>1, <2>3
<1>8. Deleting(c) /\ row \in deleted[c] /\ outcome[c] = "running"
  BY <1>1 DEF Deleting, ArgumentInv, DeleteInv, LeavesInv
<1>9. CASE left = {} /\ call' = [call EXCEPT ![c] = Idle] /\ UNCHANGED todo
  <2>1. call'[c].at = "idle" /\ outcome'[c] = "returned" /\ ~Deleting(c)' /\ todo'[c] = {}
    BY <1>1, <1>8, <1>9 DEF ShapeInv, HistTypes, CallEnds, Deleting, Idle
  <2>2. Complete(c)
    BY <1>1, <1>7, <1>8, <1>9 DEF DeleteInv, LeavesInv, Complete, Store!Closed
  <2>3. DeleteInv(c)'
    BY <1>1, <1>2, <2>1, <2>2 DEF DeleteInv, TakesInv, LeavesInv, Complete
  <2> QED
    BY <1>2, <1>3, <2>3, OneDelete
<1>10. ASSUME NEW k \in left, call' = [call EXCEPT ![c].row = k, ![c].at = "delete"],
              todo' = [todo EXCEPT ![c] = left \ {k}]
       PROVE  HistInv'
  <2>1. /\ call'[c].at = "delete" /\ call'[c].row = k /\ call'[c].op = call[c].op
        /\ todo'[c] = left \ {k} /\ k \in Signals
    BY <1>1, <1>6, <1>10 DEF ShapeInv, Calls
  <2>2. Deleting(c)' /\ outcome'[c] = "running" /\ overtaken'[c] = {} /\ overtaken[c] = {}
    BY <1>1, <1>2, <1>8, <2>1 DEF HistTypes, CallEnds, Deleting, DeleteInv
  <2>3. \A x \in left : Reached(c, x)
    <3>1. ASSUME NEW x \in Downstream(c) PROVE Reached(c, x)
      <4>1. <<row, x, "cascade">> \in seen[c]
        BY <1>1, <1>5, <1>6, <1>8, <3>1 DEF DeleteInv, TakesInv
      <4> QED
        BY <1>8, <4>1 DEF Reached
    <3> QED
      BY <1>1, <1>8, <3>1 DEF DeleteInv, TakesInv
  <2>4. TakesInv(c)'
    BY <1>1, <1>2, <1>8, <2>1, <2>2, <2>3 DEF DeleteInv, TakesInv, Reached
  <2>5. LeavesInv(c)'
    <3> HIDE DEF left
    <3>1. ASSUME NEW r \in stable[c], r[3] = "cascade", r[1] \in deleted[c]
          PROVE  r[2] \in deleted[c] \cup left
      BY <1>1, <1>7, <1>8, <3>1 DEF DeleteInv, LeavesInv, left
    <3> QED
      BY <1>1, <1>2, <1>8, <2>1, <2>2, <3>1 DEF DeleteInv, LeavesInv
  <2> QED
    BY <1>2, <1>3, <2>2, <2>4, <2>5, OneDelete DEF DeleteInv
<1> QED
  BY <1>9, <1>10 DEF Walk

\* A commit is the delete's own, or takes away what others wait to delete.
LEMMA CommittedStep ==
    ASSUME HistInv, DbInv', NEW c \in Conns, Commit(c), DeleteCommitted(c)
    PROVE  HistInv'
<1>1. ShapeInv /\ ArgumentInv(c) /\ HistTypes /\ call[c].at = "commit"
  BY DEF HistInv, DbInv, ConnInv, Commit
<1>2. /\ db' = Current(c) /\ \A d \in Conns \ {c} : own'[d] = own[d] /\ call'[d] = call[d]
      /\ todo' = todo
      /\ \A d \in Conns : /\ overtaken'[d] = overtaken[d] \cup Overtakes(c, d)
                          /\ deleted'[d] = deleted[d] \cup DeletedBy(c, d)
      /\ UNCHANGED <<outcome, root>>
      /\ \/ Deleting(c) /\ Deleting(c)' /\ call'[c].at = "walk" /\ call'[c].row = call[c].row
         \/ ~Deleting(c) /\ call'[c] = Idle
  BY <1>1 DEF Commit, Committed, Goto, DeleteCommitted, ShapeInv, Deleting, Calls
<1>3. ASSUME NEW d \in Conns PROVE DeletedBy(c, d) \subseteq Signals
  BY DEF DeletedBy, Replaced, Deleting
<1>4. HistTypes'
  <2>1. Registered(db') \subseteq Store!Dependencies
    BY RegisteredTyped DEF DbInv, ShapeInv, Rows
  <2> QED
    BY <1>1, <1>3, <2>1 DEF HistTypes, DeleteCommitted
<1>5. /\ \A d \in Conns : stable'[d] \subseteq stable[d] /\ seen[d] \subseteq seen'[d]
      /\ \A d \in Conns : stable[d] \subseteq Registered(db) => stable'[d] \subseteq Registered(db')
      /\ \A d \in Conns : Registered(db) \subseteq seen[d] => Registered(db') \subseteq seen'[d]
  BY <1>1 DEF DeleteCommitted, HistTypes
<1>6. ASSUME NEW d \in Conns, NEW k, Reached(d, k) PROVE Reached(d, k)'
  BY <1>2, <1>5, <1>6 DEF Reached
<1>7. ASSUME NEW d \in Conns, ~Deleting(d)
      PROVE  deleted'[d] = deleted[d] /\ (Complete(d) => Complete(d)')
  <2>1. deleted'[d] = deleted[d]
    BY <1>2, <1>7 DEF DeletedBy
  <2> QED
    BY <1>2, <1>5, <2>1 DEF Complete, Store!Closed
<1>8. ASSUME NEW d \in Conns, d # c PROVE DeleteInv(d)'
  <2>1. DeleteInv(d) /\ (Deleting(d)' <=> Deleting(d)) /\ call'[d] = call[d]
    BY <1>2, <1>8 DEF HistInv, Deleting
  <2>2. Deleting(d) => Named(d) = {call[d].row} /\ call[d].row \in Rows
    BY DbAssumption DEF Deleting, Named, Rows
  <2>3. Deleting(d) => DeletedBy(c, d) = Replaced(c, d) /\ Overtakes(c, d) \subseteq Replaced(c, d)
    BY <1>8, <2>2 DEF DeletedBy, Overtakes, Replaced
  <2>4. ASSUME Deleting(d), call[d].at = "commit", call[d].row \notin DOMAIN own[d]
        PROVE  db'[call[d].row] = Null \/ call[d].row \in deleted'[d]
    <3>1. CASE call[d].row \in DOMAIN own[c]
      <4>1. db'[call[d].row] = own[c][call[d].row]
        BY <1>2, <3>1, CurrentIsTyped DEF HistInv
      <4> QED
        BY <1>2, <1>8, <2>3, <2>4, <3>1, <4>1 DEF Replaced
    <3>2. CASE call[d].row \notin DOMAIN own[c]
      <4>1. db'[call[d].row] = db[call[d].row]
        BY <1>2, <2>2, <2>4, <3>2, CurrentIsTyped DEF HistInv
      <4> QED
        BY <1>2, <2>1, <2>4, <4>1 DEF DeleteInv, TakesInv
    <3> QED
      BY <3>1, <3>2
  <2>5. TakesInv(d)'
    BY <1>2, <1>5, <1>6, <1>8, <2>1, <2>3, <2>4 DEF DeleteInv, TakesInv
  <2>6. LeavesInv(d)'
    <3>1. ASSUME Deleting(d) PROVE DeletedBy(c, d) \subseteq {call[d].row}
      BY <2>3, <3>1 DEF Replaced
    <3> QED
      BY <1>2, <1>5, <2>1, <3>1 DEF DeleteInv, LeavesInv
  <2>7. call[d].at # "waiting" => overtaken'[d] = {}
    BY <1>2, <2>1 DEF DeleteInv, Overtakes
  <2> QED
    BY <1>2, <1>7, <2>1, <2>5, <2>6, <2>7 DEF DeleteInv
<1>9. DeleteInv(c)'
  <2>1. DeleteInv(c) /\ overtaken'[c] = {}
    BY <1>1, <1>2 DEF HistInv, DeleteInv, Overtakes
  <2>2. CASE ~Deleting(c) /\ call'[c] = Idle
    <3>1. ~Deleting(c)'
      BY <2>2 DEF Deleting, Idle
    <3> QED
      BY <1>2, <1>5, <1>7, <2>1, <2>2, <3>1 DEF DeleteInv, TakesInv, LeavesInv
  <2>3. CASE Deleting(c) /\ Deleting(c)' /\ call'[c].at = "walk" /\ call'[c].row = call[c].row
    <3>1. deleted'[c] = deleted[c] \cup {call[c].row}
      BY <1>2, <2>3 DEF DeletedBy
    <3>2. TakesInv(c)'
      BY <1>2, <1>5, <1>6, <2>1, <2>3, <3>1 DEF DeleteInv, TakesInv
    <3>3. LeavesInv(c)'
      BY <1>2, <1>5, <2>1, <2>3, <3>1 DEF DeleteInv, LeavesInv
    <3> QED
      BY <1>2, <2>1, <2>3, <3>2, <3>3 DEF DeleteInv
  <2> QED
    BY <1>2, <2>2, <2>3
<1> QED
  BY <1>4, <1>8, <1>9 DEF HistInv

\* The history stops no step of the store, and every step keeps the invariant.
LEMMA HistNextIsNext == HNext => Next
BY DEF HNext, Next, Rows

LEMMA HistStep == HistInv /\ [HNext]_hvars => HistInv'
<1>1. ASSUME HistInv, UNCHANGED hvars PROVE HistInv'
  <2>1. DbInv'
    BY <1>1, DbStep DEF HistInv, hvars
  <2>2. ASSUME NEW d \in Conns PROVE DeleteInv(d)'
    BY <1>1, UntouchedKeeps DEF HistInv, Untouched, hvars, vars, txnVars, histVars
  <2> QED
    BY <1>1, <2>1, <2>2 DEF HistInv, HistTypes, hvars, histVars
<1>2. ASSUME HistInv, HNext PROVE HistInv'
  <2>1. DbInv'
    BY <1>2, HistNextIsNext, DbStep DEF HistInv
  <2> QED
    BY <1>2, <2>1, CalledStep, CommittedStep, WalksStep, RaisedStep, QuietStep DEF HNext
<1> QED
  BY <1>1, <1>2

LEMMA HistInvariant == HSpec => []HistInv
BY HistBegins, HistStep, PTL DEF HSpec

\* Others may write and register as they like while a delete walks: when it
\* returns, it has deleted all that the dependencies which stood reach from its
\* key, whatever the number of connections and keys and whatever they form.
THEOREM DeletesWalkAll == HSpec => []DeleteWalksAll
<1>1. HistInv => DeleteWalksAll
  BY DEF HistInv, DeleteInv, Complete, DeleteWalksAll
<1> QED
  BY <1>1, HistInvariant, PTL

---------------------------------------------------------------------------
(* Each step is a step of SignalStore, or invisible *)

\* The history is of every behaviour that it is about.
LEMMA HistoriesOfTheStore == HSpec => Spec
<1>1. HInit => Init
  BY DEF HInit
<1>2. [HNext]_hvars => [Next]_vars
  BY HistNextIsNext DEF hvars
<1> QED
  BY <1>1, <1>2, PTL DEF HSpec, Spec

\* A commit with nothing spoiled changes what the store shows by one row.
LEMMA CommitOfStore ==
    ASSUME HistInv, NEW c \in Conns, Commit(c), DeleteCommitted(c), spoiled[c] = {}
    PROVE  Store!Next \/ UNCHANGED Store!vars
<1>1. /\ ShapeInv /\ OwnInv(c) /\ ArgumentInv(c) /\ MineInv(c) /\ HistTypes
      /\ call[c].at = "commit" /\ db' = Current(c)
      /\ \A d \in Conns : DeleteInv(d)
  BY DEF HistInv, DbInv, ConnInv, Commit, Committed
<1> DEFINE row == call[c].row
<1>2. \A r \in DOMAIN own[c] : r \in Named(c) /\ r \in Rows /\ db'[r] = own[c][r] /\ own[c][r] = call[c].value
  BY <1>1, CurrentIsTyped DEF HistInv, MineInv, OwnInv
<1>3. \A r \in Rows \ DOMAIN own[c] : db'[r] = db[r]
  BY <1>1, CurrentIsTyped DEF HistInv
<1>4. /\ \A d \in Conns : deleted'[d] = deleted[d] \cup DeletedBy(c, d)
      /\ deleted' = [d \in Conns |-> deleted[d] \cup DeletedBy(c, d)]
      /\ UNCHANGED <<outcome, root>>
  BY DEF DeleteCommitted
<1>5. deleted = [d \in Conns |-> deleted[d]] /\ stable = [d \in Conns |-> stable[d]]
      /\ seen = [d \in Conns |-> seen[d]]
  BY <1>1 DEF HistTypes
<1>6. ASSUME \A p \in Pairs : db'[p] = db[p]
      PROVE  UNCHANGED <<Registered(db), stable, seen>>
  <2>1. Registered(db') = Registered(db)
    BY <1>6 DEF Registered
  <2> QED
    BY <2>1 DEF DeleteCommitted
<1>7. ASSUME \A k \in Signals : db'[k] = db[k]
      PROVE  Present(db') = Present(db)
  BY <1>7 DEF Present
<1>8. ASSUME \A d \in Conns : DeletedBy(c, d) \subseteq deleted[d]
      PROVE  deleted' = deleted
  BY <1>4, <1>5, <1>8
<1>9. CASE row \in Signals /\ call[c].op = "replace"
  <2>1. Named(c) = {row} /\ row \notin Pairs /\ ~Deleting(c) /\ call[c].value # Null
    BY <1>1, <1>9, DbAssumption DEF Named, Deleting, ArgumentInv, ValuesOf
  <2>2. \A p \in Pairs : db'[p] = db[p]
    BY <1>2, <1>3, <2>1 DEF Rows
  <2>3. CASE row \notin DOMAIN own[c]
    <3>1. \A d \in Conns : DeletedBy(c, d) = {}
      BY <1>2, <2>1, <2>3 DEF DeletedBy, Replaced
    <3>2. \A k \in Signals : db'[k] = db[k]
      BY <1>2, <1>3, <2>1, <2>3 DEF Rows
    <3> QED
      BY <1>4, <1>6, <1>7, <1>8, <2>2, <3>1, <3>2 DEF Store!vars
  <2>4. CASE row \in DOMAIN own[c]
    <3> DEFINE overtakenBy == {d \in Conns : row \in DeletedBy(c, d)}
    <3>1. \A d \in Conns : DeletedBy(c, d) = IF d \in overtakenBy THEN {row} ELSE {}
      BY <1>2, <2>1 DEF DeletedBy, Replaced
    <3>2. \A d \in overtakenBy : outcome[d] = "running" /\ Store!Reaches(d, row)
      BY <1>1, <2>1 DEF DeletedBy, Replaced, DeleteInv, TakesInv, Reached, Store!Reaches
    <3>3. Present(db') = Present(db) \cup {row}
      BY <1>2, <1>3, <1>9, <2>1, <2>4 DEF Present, Rows
    <3>4. Store!Write(row, overtakenBy)
      BY <1>4, <1>6, <2>2, <3>1, <3>2, <3>3 DEF Store!Write, Store!Running
    <3> QED
      BY <1>9, <3>4 DEF Store!Next
  <2> QED
    BY <2>3, <2>4
<1>10. CASE row \in Signals /\ call[c].op = "remove"
  <2>1. Named(c) = {row} /\ row \notin Pairs /\ Deleting(c) /\ call[c].value = Null
    BY <1>1, <1>10, DbAssumption DEF Named, Deleting, ArgumentInv
  <2>2. \A p \in Pairs : db'[p] = db[p]
    BY <1>2, <1>3, <2>1 DEF Rows
  <2>3. \A d \in Conns : DeletedBy(c, d) = IF d = c THEN {row} ELSE {}
    BY <1>2, <2>1 DEF DeletedBy, Replaced
  <2>4. deleted' = [deleted EXCEPT ![c] = @ \cup {row}]
    BY <1>4, <1>5, <2>3
  <2>5. CASE db'[row] = Null
    <3>1. Present(db') = Present(db) \ {row}
      BY <1>2, <1>3, <1>10, <2>1, <2>5 DEF Present, Rows
    <3>2. outcome[c] = "running" /\ Store!Reaches(c, row)
      BY <1>1, <2>1 DEF DeleteInv, TakesInv, Reached, Store!Reaches
    <3>3. Store!Invalidate(c, row)
      BY <1>4, <1>6, <2>2, <2>4, <3>1, <3>2 DEF Store!Invalidate, Store!Running
    <3> QED
      BY <1>10, <3>3 DEF Store!Next
  <2>6. CASE db'[row] # Null
    <3>1. row \notin DOMAIN own[c]
      BY <1>2, <2>1, <2>6
    <3>2. \A k \in Signals : db'[k] = db[k]
      BY <1>2, <1>3, <2>1, <3>1 DEF Rows
    <3>3. row \in deleted[c]
      BY <1>1, <1>10, <2>1, <2>6, <3>1, <3>2 DEF DeleteInv, TakesInv
    <3> QED
      BY <1>4, <1>6, <1>7, <1>8, <2>2, <2>3, <3>2, <3>3 DEF Store!vars
  <2> QED
    BY <2>5, <2>6
<1>11. CASE row \in Results
  <2>1. Named(c) \subseteq Results /\ ~Deleting(c)
    BY <1>11, DbAssumption DEF Named, Deleting
  <2>2. (\A k \in Signals : db'[k] = db[k]) /\ \A p \in Pairs : db'[p] = db[p]
    BY <1>2, <1>3, <2>1, DbAssumption DEF Rows
  <2>3. \A d \in Conns : DeletedBy(c, d) = {}
    BY <1>2, <2>1, DbAssumption DEF DeletedBy, Replaced, Deleting
  <2> QED
    BY <1>4, <1>6, <1>7, <1>8, <2>2, <2>3 DEF Store!vars
<1>12. CASE row \in Pairs
  <2>1. /\ call[c].op = "replace" /\ Named(c) = {row} /\ ~Deleting(c) /\ row \notin Signals
        /\ call[c].value \in {"notify", "cascade"} /\ call[c].value # Null
    BY <1>1, <1>12, DbAssumption DEF Named, Deleting, ArgumentInv, ValuesOf
  <2>2. \A k \in Signals : db'[k] = db[k]
    BY <1>2, <1>3, <2>1 DEF Rows
  <2>3. \A d \in Conns : DeletedBy(c, d) = {}
    BY <1>2, <2>1 DEF DeletedBy, Replaced, Deleting
  <2>4. deleted' = deleted /\ Present(db') = Present(db)
    BY <1>7, <1>8, <2>2, <2>3
  <2>5. CASE Registered(db') = Registered(db)
    BY <1>4, <2>4, <2>5 DEF DeleteCommitted, Store!vars
  <2>6. CASE Registered(db') # Registered(db)
    <3>1. row \in DOMAIN own[c]
      BY <1>2, <1>3, <1>6, <2>1, <2>6 DEF Rows
    <3>2. db'[row] = call[c].value /\ \A p \in Pairs \ {row} : db'[p] = db[p]
      BY <1>2, <1>3, <2>1, <3>1 DEF Rows
    <3>3. PICK u \in Signals, d \in Signals : row = <<u, d>>
      BY <1>12, DbAssumption
    <3>4. Registered(db') = {r \in Registered(db) : r[1] # u \/ r[2] # d} \cup {<<u, d, call[c].value>>}
      <4> DEFINE new == <<u, d, call[c].value>>
      <4>1. new \in Registered(db')
        BY <1>12, <2>1, <3>2, <3>3, RegisteredAre
      <4>2. ASSUME NEW r \in Registered(db'), r # new
            PROVE  r \in Registered(db) /\ (r[1] # u \/ r[2] # d)
        <5>1. PICK p \in Pairs : /\ db'[p] # Null /\ r = <<p[1], p[2], db'[p]>>
                                /\ p = <<p[1], p[2]>>
          BY <4>2, RegisteredAre
        <5>2. p # row
          BY <3>2, <3>3, <4>2, <5>1
        <5> QED
          BY <3>2, <3>3, <5>1, <5>2, RegisteredAre
      <4>3. ASSUME NEW r \in Registered(db), r[1] # u \/ r[2] # d
            PROVE  r \in Registered(db')
        <5>1. PICK p \in Pairs : db[p] # Null /\ r = <<p[1], p[2], db[p]>>
          BY <4>3, RegisteredAre
        <5>2. p # row
          BY <3>3, <4>3, <5>1
        <5> QED
          BY <3>2, <5>1, <5>2, RegisteredAre
      <4>4. \A r \in Registered(db') : r \in {x \in Registered(db) : x[1] # u \/ x[2] # d} \cup {new}
        BY <4>2
      <4> QED
        BY <4>1, <4>3, <4>4
    <3>5. /\ stable' = [x \in Conns |-> stable[x] \cap Registered(db')]
          /\ seen' = [x \in Conns |-> seen[x] \cup Registered(db')]
      BY <2>6 DEF DeleteCommitted
    <3>6. Store!RegisterDep(u, d, call[c].value)
      BY <1>4, <2>4, <3>4, <3>5 DEF Store!RegisterDep
    <3> QED
      BY <2>1, <3>6 DEF Store!Next, Store!Policies
  <2> QED
    BY <2>5, <2>6
<1>13. row \in Signals \cup Results \cup Pairs /\ call[c].op \in {"replace", "remove"}
  BY <1>1 DEF ArgumentInv, Rows
<1> QED
  BY <1>9, <1>10, <1>11, <1>12, <1>13

\* The step or the stutter of SignalStore that each step is.
LEMMA StepOfDbStore ==
    ASSUME HistInv, HNext
    PROVE  Store!Next \/ UNCHANGED Store!vars \/ \E c \in Conns : Commit(c) /\ spoiled[c] # {}
<1>1. ShapeInv /\ HistTypes
  BY DEF HistInv, DbInv
<1>2. PICK c \in Conns :
        \/ \E k \in Signals : Remove(c, k) /\ DeleteCalled(c, k)
        \/ Commit(c) /\ DeleteCommitted(c)
        \/ Walk(c) /\ CallEnds(c, "returned")
        \/ /\ BadArguments(c) \/ StatementFails(c) \/ CommitFails(c) \/ WalkFails(c) \/ Close(c)
           /\ CallEnds(c, "raised")
        \/ /\ \/ \E r \in Rows \ Signals : Remove(c, r)
              \/ \E r \in Rows, v \in AllValues : Replace(c, r, v)
              \/ Delete(c) \/ DeleteResumes(c) \/ Insert(c) \/ Read(c)
           /\ UNCHANGED histVars
  BY DEF HNext
<1>3. DeleteInv(c)
  BY DEF HistInv
<1>4. CASE \E k \in Signals : Remove(c, k) /\ DeleteCalled(c, k)
  <2>1. PICK k \in Signals : Remove(c, k) /\ DeleteCalled(c, k)
    BY <1>4
  <2>2. db' = db /\ ~Deleting(c)
    BY <2>1 DEF Remove, Begin, Deleting
  <2>3. Store!Delete(c, k)
    BY <1>3, <2>1, <2>2 DEF DeleteCalled, DeleteInv, Store!Delete, Store!Running
  <2> QED
    BY <2>3 DEF Store!Next
<1>5. CASE Commit(c) /\ DeleteCommitted(c)
  BY <1>5, CommitOfStore
<1>6. CASE Walk(c) /\ CallEnds(c, "returned")
  <2>1. db' = db /\ UNCHANGED <<root, deleted, stable, seen>>
    BY <1>6 DEF Walk, CallEnds
  <2>2. CASE Deleting(c) /\ ~Deleting(c)'
    <3>1. outcome' = [outcome EXCEPT ![c] = "returned"] /\ outcome'[c] = "returned"
      BY <1>1, <1>6, <2>2 DEF CallEnds, HistTypes
    <3>2. DeleteInv(c)'
      BY <1>6, HistStep DEF HistInv, HNext
    <3>3. Complete(c)
      BY <2>1, <3>1, <3>2 DEF DeleteInv, Complete
    <3>4. Store!Return(c)
      BY <1>3, <2>1, <2>2, <3>1, <3>3 DEF DeleteInv, Complete, Store!Return, Store!Running, Store!Done
    <3> QED
      BY <3>4 DEF Store!Next
  <2>3. CASE ~(Deleting(c) /\ ~Deleting(c)')
    BY <1>1, <1>6, <2>1, <2>3 DEF CallEnds, HistTypes, Store!vars
  <2> QED
    BY <2>2, <2>3
<1>7. CASE /\ BadArguments(c) \/ StatementFails(c) \/ CommitFails(c) \/ WalkFails(c) \/ Close(c)
           /\ CallEnds(c, "raised")
  <2>1. db' = db /\ UNCHANGED <<root, deleted, stable, seen>>
    BY <1>7 DEF BadArguments, StatementFails, CommitFails, WalkFails, Close, Raise, CallEnds
  <2>2. CASE Deleting(c) /\ ~Deleting(c)'
    <3>1. Store!GiveUp(c)
      BY <1>3, <1>7, <2>1, <2>2 DEF CallEnds, DeleteInv, Store!GiveUp, Store!Running
    <3> QED
      BY <3>1 DEF Store!Next
  <2>3. CASE ~(Deleting(c) /\ ~Deleting(c)')
    BY <1>1, <1>7, <2>1, <2>3 DEF CallEnds, HistTypes, Store!vars
  <2> QED
    BY <2>2, <2>3
<1>8. CASE /\ \/ \E r \in Rows \ Signals : Remove(c, r)
              \/ \E r \in Rows, v \in AllValues : Replace(c, r, v)
              \/ Delete(c) \/ DeleteResumes(c) \/ Insert(c) \/ Read(c)
           /\ UNCHANGED histVars
  <2>1. db' = db
    BY <1>8 DEF Remove, Replace, Begin, Delete, DeleteResumes, DeleteRows, Insert, Read
  <2> QED
    BY <1>8, <2>1 DEF histVars, Store!vars
<1> QED
  BY <1>2, <1>4, <1>5, <1>6, <1>7, <1>8

\* However the statements of any number of connections interleave, on every
\* database of the model, the store keeps the promises of signals/base.py,
\* but for the commit that takes along what a call that raised has left.
THEOREM DbApiIsSignalStoreUnspoiled == HSpec => ImplementsStoreUnspoiled
<1>1. HInit => Store!Init
  <2> SUFFICES ASSUME HInit PROVE Store!Init
    OBVIOUS
  <2>1. \A p \in Pairs : db[p] \in ValuesOf(p) \cup {Null}
    BY DEF HInit, Init, Rows
  <2>2. Registered(db) \subseteq Store!Dependencies
    BY <2>1, RegisteredTyped
  <2>3. Store!OnePolicy(Registered(db))
    <3>1. ASSUME NEW r \in Registered(db), NEW q \in Registered(db), r[1] = q[1], r[2] = q[2]
          PROVE  r = q
      <4>1. PICK m \in Pairs : r = <<m[1], m[2], db[m]>> /\ m = <<m[1], m[2]>>
        BY RegisteredAre
      <4>2. PICK n \in Pairs : q = <<n[1], n[2], db[n]>> /\ n = <<n[1], n[2]>>
        BY RegisteredAre
      <4> QED
        BY <3>1, <4>1, <4>2
    <3> QED
      BY <3>1 DEF Store!OnePolicy
  <2>4. Present(db) \in SUBSET Signals /\ root \in [Conns -> Signals]
    BY DbAssumption DEF Present, HInit
  <2> QED
    BY <2>2, <2>3, <2>4 DEF HInit, Store!Init
<1>2. HistInv /\ [HNext]_hvars =>
        [\/ Store!Next \/ UNCHANGED Store!vars
         \/ \E c \in Conns : Commit(c) /\ spoiled[c] # {}]_hvars
  BY StepOfDbStore
<1> QED
  BY <1>1, <1>2, HistInvariant, PTL DEF HSpec, ImplementsStoreUnspoiled
=============================================================================
