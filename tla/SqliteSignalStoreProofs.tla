----------------------- MODULE SqliteSignalStoreProofs -----------------------
(* Safety of SqliteSignalStore: what a delete() has done when it is over, for *)
(* any keys and dependencies, any number of callers, writers and registrars.  *)
EXTENDS SqliteSignalStore, SequenceTheorems, TLAPS

\* Some activation of the call is about to delete the row of k, or is still to
\* come to the dependency row r.
WillDelete(c, k) == \E i \in 1..Len(stack[c]) : stack[c][i].at = "row" /\ stack[c][i].key = k
WillMeet(c, r) ==
    \E i \in 1..Len(stack[c]) :
        stack[c][i].key = r[1] /\ (stack[c][i].at = "fetch" \/ r \in stack[c][i].todo)

\* Only the top activation has not reached its loop; what an activation has
\* passed, it has done.
StackInv(c) ==
    /\ outcome[c] = "running" <=> stack[c] # <<>>
    /\ outcome[c] # "none" => stable[c] \subseteq deps /\ deps \subseteq seen[c]
    /\ \A i \in 1..Len(stack[c]) :
         /\ i < Len(stack[c]) => stack[c][i].at = "loop"
         /\ stack[c][i].at # "row" => stack[c][i].key \in deleted[c]
         /\ \A r \in stack[c][i].todo : r[1] = stack[c][i].key /\ r \in seen[c]

\* What is not done yet is still to be met.
DoneInv(c) ==
    outcome[c] \in {"running", "returned"} =>
        /\ root[c] \in deleted[c] \/ WillDelete(c, root[c])
        /\ \A r \in stable[c] : r[3] = "cascade" /\ r[1] \in deleted[c] =>
             r[2] \in deleted[c] \/ WillDelete(c, r[2]) \/ WillMeet(c, r)

\* The walk stays within every closed set around its root.
ReachInv(c) ==
    outcome[c] # "none" =>
        \A keys \in SUBSET Keys :
            root[c] \in keys /\ Closed(keys, seen[c]) =>
                /\ deleted[c] \subseteq keys
                /\ \A i \in 1..Len(stack[c]) : stack[c][i].key \in keys

CallbackInv(c) ==
    HasCallback /\ outcome[c] \in {"running", "returned"} =>
        /\ \A r \in stable[c] : r[3] = "notify" /\ r[1] \in deleted[c] =>
             <<r[1], r[2]>> \in notified[c] \/ WillMeet(c, r)
        /\ \A e \in notified[c] : e[1] \in deleted[c] /\ <<e[1], e[2], "notify">> \in seen[c]

CallInv(c) == StackInv(c) /\ DoneInv(c) /\ ReachInv(c) /\ CallbackInv(c)
StoreInv == TypeOK /\ \A c \in Callers : CallInv(c)

---------------------------------------------------------------------------
(* Facts about rows and stacks *)

\* A dependency row is a pair of keys and a policy.
LEMMA RowTypes ==
    ASSUME NEW r \in Rows
    PROVE  /\ r[1] \in Keys /\ r[2] \in Keys /\ r[3] \in Policies
           /\ <<r[1], r[2]>> \in MayDepend /\ r = <<r[1], r[2], r[3]>>
<1>1. PICK e \in MayDepend, p \in Policies : r = <<e[1], e[2], p>>
  BY DEF Rows
<1>2. e \in Keys \X Keys
  BY StoreAssumption
<1> QED
  BY <1>1, <1>2

\* The top activation of a running call.
LEMMA TopIs ==
    ASSUME TypeOK, NEW c \in Callers, Running(c)
    PROVE  /\ Len(stack[c]) \in Nat \ {0} /\ Len(stack[c]) \in 1..Len(stack[c])
           /\ stack[c] \in Seq(Frames)
           /\ Top(c) \in Frames /\ Top(c) = stack[c][Len(stack[c])]
           /\ \A i \in 1..Len(stack[c]) : stack[c][i] \in Frames
BY DEF TypeOK, Running, Top

\* The top activation moves on, all others stay.
LEMMA SetTopEffect ==
    ASSUME TypeOK, NEW c \in Callers, Running(c), NEW frame \in Frames, SetTop(c, frame)
    PROVE  /\ stack' \in [Callers -> Seq(Frames)]
           /\ Len(stack'[c]) = Len(stack[c]) /\ stack'[c] # <<>>
           /\ stack'[c][Len(stack[c])] = frame
           /\ \A i \in 1..Len(stack[c]) : i # Len(stack[c]) => stack'[c][i] = stack[c][i]
           /\ \A d \in Callers \ {c} : stack'[d] = stack[d]
<1>1. stack'[c] = [stack[c] EXCEPT ![Len(stack[c])] = frame]
  BY TopIs DEF SetTop, TypeOK
<1> QED
  BY <1>1, TopIs DEF SetTop, TypeOK, Running

Pushes(c, frame, k) ==
    stack' = [stack EXCEPT ![c] = Append(SubSeq(@, 1, Len(@) - 1), frame) \o <<Activation(k)>>]

\* The call recurs: the top activation moves on and another one is above it.
LEMMA PushEffect ==
    ASSUME TypeOK, NEW c \in Callers, Running(c), NEW frame \in Frames, NEW k \in Keys,
           Pushes(c, frame, k)
    PROVE  /\ stack' \in [Callers -> Seq(Frames)]
           /\ Len(stack'[c]) = Len(stack[c]) + 1 /\ stack'[c] # <<>>
           /\ stack'[c][Len(stack[c]) + 1] = Activation(k)
           /\ stack'[c][Len(stack[c])] = frame
           /\ \A i \in 1..Len(stack[c]) : i # Len(stack[c]) => stack'[c][i] = stack[c][i]
           /\ \A d \in Callers \ {c} : stack'[d] = stack[d]
<1> DEFINE n == Len(stack[c])
           low == SubSeq(stack[c], 1, n - 1)
           mid == Append(low, frame)
<1>0. Activation(k) \in Frames
  BY DEF Activation, Frames
<1>1. n \in Nat \ {0} /\ stack[c] \in Seq(Frames)
  BY TopIs
<1>2. low \in Seq(Frames) /\ Len(low) = n - 1 /\ \A i \in 1..(n - 1) : low[i] = stack[c][i]
  BY <1>1
<1>3. /\ mid \in Seq(Frames) /\ Len(mid) = n /\ mid[n] = frame
      /\ \A i \in 1..(n - 1) : mid[i] = stack[c][i]
  BY <1>1, <1>2
<1>4. stack'[c] = mid \o <<Activation(k)>>
  BY DEF TypeOK, Pushes
<1>5. /\ stack'[c] \in Seq(Frames) /\ Len(stack'[c]) = n + 1 /\ stack'[c][n + 1] = Activation(k)
      /\ \A i \in 1..n : stack'[c][i] = mid[i]
  <2> DEFINE tip == <<Activation(k)>>
  <2>1. tip \in Seq(Frames) /\ Len(tip) = 1 /\ tip[1] = Activation(k)
    BY <1>0
  <2> HIDE DEF mid, tip
  <2>2. /\ mid \o tip \in Seq(Frames)
        /\ Len(mid \o tip) = Len(mid) + Len(tip)
        /\ \A i \in 1..(Len(mid) + Len(tip)) :
             (mid \o tip)[i] = IF i <= Len(mid) THEN mid[i] ELSE tip[i - Len(mid)]
    BY <1>3, <2>1, ConcatProperties, Zenon
  <2>3. stack'[c] = mid \o tip
    BY <1>4 DEF tip
  <2> DEFINE joined == mid \o tip
  <2> HIDE DEF joined
  <2>4. /\ Len(joined) = n + 1
        /\ \A i \in 1..(n + 1) : joined[i] = IF i <= n THEN mid[i] ELSE tip[i - n]
    BY <1>3, <2>1, <2>2 DEF joined
  <2>5. joined[n + 1] = Activation(k) /\ \A i \in 1..n : joined[i] = mid[i]
    BY <1>1, <2>1, <2>4
  <2> QED
    BY <2>2, <2>3, <2>4, <2>5 DEF joined
<1>6. \A i \in 1..n : i # n => stack'[c][i] = stack[c][i]
  BY <1>1, <1>3, <1>5
<1>7. stack'[c][n] = frame /\ stack'[c] # <<>>
  BY <1>1, <1>3, <1>5
<1>8. \A d \in Callers \ {c} : stack'[d] = stack[d]
  BY DEF TypeOK, Pushes
<1>9. stack' \in [Callers -> Seq(Frames)]
  BY <1>5 DEF TypeOK, Pushes
<1> QED
  BY <1>5, <1>6, <1>7, <1>8, <1>9

\* The top activation returns.
LEMMA PopEffect ==
    ASSUME TypeOK, NEW c \in Callers, Running(c),
           stack' = [stack EXCEPT ![c] = SubSeq(@, 1, Len(@) - 1)]
    PROVE  /\ stack' \in [Callers -> Seq(Frames)]
           /\ Len(stack'[c]) = Len(stack[c]) - 1
           /\ stack'[c] = <<>> <=> Len(stack[c]) = 1
           /\ \A i \in 1..(Len(stack[c]) - 1) : stack'[c][i] = stack[c][i]
           /\ \A d \in Callers \ {c} : stack'[d] = stack[d]
<1>1. /\ Len(stack[c]) \in Nat \ {0} /\ stack[c] \in Seq(Frames)
      /\ stack'[c] = SubSeq(stack[c], 1, Len(stack[c]) - 1)
  BY TopIs DEF TypeOK
<1>2. /\ stack'[c] \in Seq(Frames) /\ Len(stack'[c]) = Len(stack[c]) - 1
      /\ \A i \in 1..(Len(stack[c]) - 1) : stack'[c][i] = stack[c][i]
  BY <1>1
<1>3. stack'[c] = <<>> <=> Len(stack[c]) = 1
  <2> DEFINE m == Len(stack'[c])
             n == Len(stack[c])
  <2>1. n \in Nat \ {0} /\ m = n - 1
    BY <1>1, <1>2
  <2>2. stack'[c] = <<>> => m = 0
    BY EmptySeq
  <2>3. stack'[c] # <<>> => m # 0
    BY <1>2, EmptySeq
  <2> HIDE DEF m, n
  <2>4. m = 0 <=> n = 1
    BY <2>1
  <2> QED
    BY <2>2, <2>3, <2>4 DEF n
<1> QED
  BY <1>2, <1>3 DEF TypeOK

\* A call that nothing happens to stays as it was.
LEMMA Untouched ==
    ASSUME NEW d \in Callers, CallInv(d), deps' = deps,
           stack'[d] = stack[d], outcome'[d] = outcome[d], root'[d] = root[d],
           deleted'[d] = deleted[d], notified'[d] = notified[d],
           stable'[d] = stable[d], seen'[d] = seen[d]
    PROVE  CallInv(d)'
BY DEF CallInv, StackInv, DoneInv, ReachInv, CallbackInv, WillDelete, WillMeet

---------------------------------------------------------------------------
(* The steps of a call *)

\* DELETE: the key is gone, its dependents are still to be fetched.
LEMMA DeleteRowStep ==
    ASSUME TypeOK, NEW c \in Callers, CallInv(c), DeleteRow(c)
    PROVE  /\ CallInv(c)' /\ stack' \in [Callers -> Seq(Frames)]
           /\ Len(stack'[c]) = Len(stack[c])
           /\ \A d \in Callers \ {c} : stack'[d] = stack[d]
<1> DEFINE n == Len(stack[c])
           k == Top(c).key
           top == [Top(c) EXCEPT !.at = "fetch"]
<1>1. /\ Running(c) /\ n \in Nat \ {0} /\ Top(c) \in Frames /\ Top(c) = stack[c][n] /\ k \in Keys
      /\ stack[c][n].at = "row" /\ stack[c][n].key = k
      /\ top \in Frames /\ top.key = k /\ top.at = "fetch" /\ top.todo = stack[c][n].todo
  BY TopIs DEF DeleteRow, Frames
<1>2. /\ stack' \in [Callers -> Seq(Frames)] /\ Len(stack'[c]) = n /\ stack'[c] # <<>>
      /\ stack'[c][n] = top
      /\ \A i \in 1..n : i # n => stack'[c][i] = stack[c][i]
      /\ \A d \in Callers \ {c} : stack'[d] = stack[d]
  BY <1>1, SetTopEffect DEF DeleteRow
<1>3. /\ deleted'[c] = deleted[c] \cup {k}
      /\ UNCHANGED <<deps, outcome, root, notified, stable, seen>>
      /\ outcome[c] = "running"
  BY <1>1 DEF DeleteRow, windowVars, CallInv, StackInv, Running, TypeOK
<1> HIDE DEF n, k, top
<1>4. /\ Len(stack[c]) = n
      /\ \A i \in 1..n : stack'[c][i].key = stack[c][i].key /\ stack'[c][i].todo = stack[c][i].todo
      /\ \A i \in 1..n : i < n => stack'[c][i].at = stack[c][i].at /\ stack[c][i].at = "loop"
      /\ stack'[c][n].at = "fetch"
  BY <1>1, <1>2 DEF n, CallInv, StackInv
<1>5. StackInv(c)'
  BY <1>1, <1>2, <1>3, <1>4 DEF CallInv, StackInv
<1>6. \A q : WillDelete(c, q) => q \in deleted'[c]
  BY <1>1, <1>3, <1>4 DEF WillDelete
<1>7. \A r : WillMeet(c, r) => WillMeet(c, r)'
  BY <1>1, <1>2, <1>4 DEF WillMeet
<1>8. \A r : r[1] = k => WillMeet(c, r)'
  BY <1>1, <1>2, <1>4 DEF WillMeet
<1>9. DoneInv(c)'
  BY <1>3, <1>6, <1>7, <1>8 DEF CallInv, DoneInv
<1>10. ReachInv(c)'
  BY <1>1, <1>2, <1>3, <1>4 DEF CallInv, ReachInv
<1>11. CallbackInv(c)'
  BY <1>3, <1>7, <1>8 DEF CallInv, CallbackInv
<1> QED
  BY <1>2, <1>5, <1>9, <1>10, <1>11 DEF CallInv, n

\* get_downstream: the rows of the key are still to be met.
LEMMA GetDownstreamStep ==
    ASSUME TypeOK, NEW c \in Callers, CallInv(c), GetDownstream(c)
    PROVE  /\ CallInv(c)' /\ stack' \in [Callers -> Seq(Frames)]
           /\ Len(stack'[c]) = Len(stack[c])
           /\ \A d \in Callers \ {c} : stack'[d] = stack[d]
<1> DEFINE n == Len(stack[c])
           k == Top(c).key
           rows == {r \in deps : r[1] = k}
           top == [Top(c) EXCEPT !.at = "loop", !.todo = rows]
<1>1. /\ Running(c) /\ n \in Nat \ {0} /\ Top(c) \in Frames /\ Top(c) = stack[c][n] /\ k \in Keys
      /\ stack[c][n].at = "fetch" /\ stack[c][n].key = k
      /\ top \in Frames /\ top.key = k /\ top.at = "loop" /\ top.todo = rows
  BY TopIs DEF GetDownstream, Frames, TypeOK
<1>2. /\ stack' \in [Callers -> Seq(Frames)] /\ Len(stack'[c]) = n /\ stack'[c] # <<>>
      /\ stack'[c][n] = top
      /\ \A i \in 1..n : i # n => stack'[c][i] = stack[c][i]
      /\ \A d \in Callers \ {c} : stack'[d] = stack[d]
  BY <1>1, SetTopEffect DEF GetDownstream
<1>3. /\ UNCHANGED <<deps, outcome, root, deleted, notified, stable, seen>>
      /\ outcome[c] = "running" /\ stable[c] \subseteq deps /\ deps \subseteq seen[c]
  BY <1>1 DEF GetDownstream, windowVars, CallInv, StackInv, Running, TypeOK
<1> HIDE DEF n, k, top
<1>4. /\ Len(stack[c]) = n
      /\ \A i \in 1..n : stack'[c][i].key = stack[c][i].key
      /\ \A i \in 1..n : i < n => stack'[c][i] = stack[c][i] /\ stack[c][i].at = "loop"
      /\ stack'[c][n].at = "loop" /\ stack'[c][n].todo = rows
  BY <1>1, <1>2 DEF n, CallInv, StackInv
<1>5. StackInv(c)'
  BY <1>1, <1>2, <1>3, <1>4 DEF CallInv, StackInv
<1>6. \A q : ~WillDelete(c, q)
  BY <1>1, <1>4 DEF WillDelete
<1>7. \A r \in stable[c] : WillMeet(c, r) => WillMeet(c, r)'
  BY <1>1, <1>2, <1>3, <1>4 DEF WillMeet
<1>8. DoneInv(c)'
  BY <1>3, <1>6, <1>7 DEF CallInv, DoneInv
<1>9. ReachInv(c)'
  <2>1. Len(stack'[c]) = n
    BY <1>2
  <2> QED
    BY <1>3, <1>4, <2>1 DEF CallInv, ReachInv
<1>10. CallbackInv(c)'
  BY <1>3, <1>7 DEF CallInv, CallbackInv
<1> QED
  BY <1>2, <1>5, <1>8, <1>9, <1>10 DEF CallInv, n

\* A row with policy "cascade": the activation above will delete its dependent.
LEMMA CascadeStep ==
    ASSUME TypeOK, NEW c \in Callers, CallInv(c), NEW r \in Rows, Cascade(c, r)
    PROVE  /\ CallInv(c)' /\ stack' \in [Callers -> Seq(Frames)]
           /\ Len(stack'[c]) <= MaxDepth
           /\ \A d \in Callers \ {c} : stack'[d] = stack[d]
<1> DEFINE n == Len(stack[c])
           top == Rest(c, r)
<1>1. /\ Running(c) /\ n \in Nat \ {0} /\ Top(c) \in Frames /\ Top(c) = stack[c][n]
      /\ stack[c][n].at = "loop" /\ r \in stack[c][n].todo /\ r[3] = "cascade"
      /\ top \in Frames /\ top.key = stack[c][n].key /\ top.at = "loop"
      /\ top.todo = stack[c][n].todo \ {r} /\ n < MaxDepth /\ r[2] \in Keys
  BY TopIs, RowTypes DEF Cascade, Cascades, Rest, Frames
<1>2. /\ stack' \in [Callers -> Seq(Frames)] /\ Len(stack'[c]) = n + 1 /\ stack'[c] # <<>>
      /\ stack'[c][n] = top /\ stack'[c][n + 1] = Activation(r[2])
      /\ \A i \in 1..n : i # n => stack'[c][i] = stack[c][i]
      /\ \A d \in Callers \ {c} : stack'[d] = stack[d]
  <2>1. Pushes(c, top, r[2])
    BY DEF Cascade, Walk, Pushes
  <2> HIDE DEF top
  <2> QED
    BY <1>1, <2>1, PushEffect
<1>3. /\ UNCHANGED <<deps, outcome, root, deleted, notified, stable, seen>>
      /\ outcome[c] = "running"
  BY <1>1 DEF Cascade, windowVars, CallInv, StackInv, Running, TypeOK
<1> HIDE DEF n, top
<1>4. /\ Len(stack[c]) = n
      /\ \A i \in 1..n : stack'[c][i].key = stack[c][i].key /\ stack[c][i].at = "loop"
                        /\ stack'[c][i].at = "loop"
      /\ \A i \in 1..n : i < n => stack'[c][i].todo = stack[c][i].todo
      /\ stack'[c][n].todo = stack[c][n].todo \ {r}
      /\ stack'[c][n + 1].key = r[2] /\ stack'[c][n + 1].at = "row"
      /\ stack'[c][n + 1].todo = {}
  <2>1. \A i \in 1..n : stack[c][i].at = "loop"
    BY <1>1 DEF n, CallInv, StackInv
  <2> QED
    BY <1>1, <1>2, <2>1 DEF n, Activation
<1>5. stack[c][n].key = r[1] /\ r \in seen[c] /\ r[1] \in deleted[c]
  BY <1>1, <1>4 DEF CallInv, StackInv
<1>6. StackInv(c)'
  <2>1. \A i \in 1..(n + 1) :
          /\ i < n + 1 => stack'[c][i].at = "loop"
          /\ stack'[c][i].at # "row" => stack'[c][i].key \in deleted[c]
          /\ \A q \in stack'[c][i].todo : q[1] = stack'[c][i].key /\ q \in seen[c]
    BY <1>1, <1>4 DEF CallInv, StackInv
  <2> QED
    BY <1>2, <1>3, <2>1 DEF CallInv, StackInv
<1>7. \A q : ~WillDelete(c, q)
  BY <1>4 DEF WillDelete
<1>8. WillDelete(c, r[2])' /\ \A q : q # r /\ WillMeet(c, q) => WillMeet(c, q)'
  <2>1. WillDelete(c, r[2])'
    BY <1>1, <1>2, <1>4 DEF WillDelete
  <2>2. ASSUME NEW q, q # r, WillMeet(c, q) PROVE WillMeet(c, q)'
    BY <1>1, <1>2, <1>4, <2>2 DEF WillMeet
  <2> QED
    BY <2>1, <2>2
<1>9. DoneInv(c)'
  BY <1>3, <1>7, <1>8 DEF CallInv, DoneInv
<1>10. ReachInv(c)'
  <2> SUFFICES ASSUME NEW keys \in SUBSET Keys, root[c] \in keys, Closed(keys, seen[c])
               PROVE  deleted[c] \subseteq keys /\ \A i \in 1..(n + 1) : stack'[c][i].key \in keys
    BY <1>2, <1>3 DEF ReachInv
  <2>1. deleted[c] \subseteq keys /\ \A i \in 1..n : stack[c][i].key \in keys
    BY <1>3, <1>4 DEF CallInv, ReachInv
  <2>2. r[2] \in keys
    BY <1>1, <1>5, <2>1 DEF Closed
  <2> QED
    BY <1>1, <1>4, <2>1, <2>2
<1>11. CallbackInv(c)'
  <2>1. r[3] # "notify"
    BY <1>1
  <2> QED
    BY <1>3, <1>8, <2>1 DEF CallInv, CallbackInv
<1>12. Len(stack'[c]) <= MaxDepth
  BY <1>1, <1>2, StoreAssumption
<1> QED
  BY <1>2, <1>6, <1>9, <1>10, <1>11, <1>12 DEF CallInv

\* A row with policy "notify": the callback has been told of the pair.
LEMMA NotifyStep ==
    ASSUME TypeOK, NEW c \in Callers, CallInv(c), NEW r \in Rows, Notify(c, r)
    PROVE  /\ CallInv(c)' /\ stack' \in [Callers -> Seq(Frames)]
           /\ Len(stack'[c]) = Len(stack[c])
           /\ \A d \in Callers \ {c} : stack'[d] = stack[d]
           /\ notified' \in [Callers -> SUBSET MayDepend]
           /\ \A d \in Callers \ {c} : notified'[d] = notified[d]
<1> DEFINE n == Len(stack[c])
           top == Rest(c, r)
<1>1. /\ Running(c) /\ n \in Nat \ {0} /\ Top(c) \in Frames /\ Top(c) = stack[c][n]
      /\ stack[c][n].at = "loop" /\ r \in stack[c][n].todo /\ r[3] = "notify"
      /\ top \in Frames /\ top.key = stack[c][n].key /\ top.at = "loop"
      /\ top.todo = stack[c][n].todo \ {r}
  BY TopIs DEF Notify, Rest, Frames
<1>2. /\ stack' \in [Callers -> Seq(Frames)] /\ Len(stack'[c]) = n /\ stack'[c] # <<>>
      /\ stack'[c][n] = top
      /\ \A i \in 1..n : i # n => stack'[c][i] = stack[c][i]
      /\ \A d \in Callers \ {c} : stack'[d] = stack[d]
  BY <1>1, SetTopEffect DEF Notify
<1>3. /\ UNCHANGED <<deps, outcome, root, deleted, stable, seen>>
      /\ outcome[c] = "running"
  BY <1>1 DEF Notify, windowVars, CallInv, StackInv, Running, TypeOK
<1>4. /\ notified' \in [Callers -> SUBSET MayDepend]
      /\ \A d \in Callers \ {c} : notified'[d] = notified[d]
      /\ HasCallback => notified'[c] = notified[c] \cup {<<r[1], r[2]>>}
  BY RowTypes DEF Notify, CallsBack, TypeOK
<1> HIDE DEF n, top
<1>5. /\ Len(stack[c]) = n
      /\ \A i \in 1..n : stack'[c][i].key = stack[c][i].key /\ stack[c][i].at = "loop"
                        /\ stack'[c][i].at = "loop"
      /\ \A i \in 1..n : i < n => stack'[c][i].todo = stack[c][i].todo
      /\ stack'[c][n].todo = stack[c][n].todo \ {r}
  <2>1. \A i \in 1..n : stack[c][i].at = "loop"
    BY <1>1 DEF n, CallInv, StackInv
  <2> QED
    BY <1>1, <1>2, <2>1 DEF n
<1>6. r \in seen[c] /\ r[1] \in deleted[c]
  BY <1>1, <1>5 DEF CallInv, StackInv
<1>7. StackInv(c)'
  <2>1. \A i \in 1..n :
          /\ stack'[c][i].key \in deleted[c]
          /\ \A q \in stack'[c][i].todo : q[1] = stack'[c][i].key /\ q \in seen[c]
    BY <1>1, <1>5 DEF CallInv, StackInv
  <2> QED
    BY <1>2, <1>3, <1>5, <2>1 DEF CallInv, StackInv
<1>8. \A q : ~WillDelete(c, q)
  BY <1>5 DEF WillDelete
<1>9. ASSUME NEW q, q # r, WillMeet(c, q) PROVE WillMeet(c, q)'
  BY <1>1, <1>2, <1>5, <1>9 DEF WillMeet
<1>10. DoneInv(c)'
  <2>1. r[3] # "cascade"
    BY <1>1
  <2> QED
    BY <1>3, <1>8, <1>9, <2>1 DEF CallInv, DoneInv
<1>11. ReachInv(c)'
  <2>1. Len(stack'[c]) = n
    BY <1>2
  <2> QED
    BY <1>3, <1>5, <2>1 DEF CallInv, ReachInv
<1>12. CallbackInv(c)'
  <2>1. <<r[1], r[2], "notify">> = r
    BY <1>1, RowTypes
  <2> QED
    BY <1>3, <1>4, <1>6, <1>9, <2>1 DEF CallInv, CallbackInv
<1> QED
  BY <1>2, <1>4, <1>7, <1>10, <1>11, <1>12 DEF CallInv, n

\* An activation whose rows are all met returns.
LEMMA ReturnUpStep ==
    ASSUME TypeOK, NEW c \in Callers, CallInv(c), ReturnUp(c)
    PROVE  /\ CallInv(c)' /\ stack' \in [Callers -> Seq(Frames)]
           /\ Len(stack'[c]) = Len(stack[c]) - 1
           /\ outcome' \in [Callers -> Outcomes]
           /\ \A d \in Callers \ {c} : stack'[d] = stack[d] /\ outcome'[d] = outcome[d]
<1> DEFINE n == Len(stack[c])
<1>1. /\ Running(c) /\ n \in Nat \ {0} /\ Top(c) = stack[c][n]
      /\ stack[c][n].at = "loop" /\ stack[c][n].todo = {}
  BY TopIs DEF ReturnUp
<1>2. /\ stack' \in [Callers -> Seq(Frames)] /\ Len(stack'[c]) = n - 1
      /\ stack'[c] = <<>> <=> n = 1
      /\ \A i \in 1..(n - 1) : stack'[c][i] = stack[c][i]
      /\ \A d \in Callers \ {c} : stack'[d] = stack[d]
  BY <1>1, PopEffect DEF ReturnUp
<1>3. /\ UNCHANGED <<deps, root, deleted, notified, stable, seen>>
      /\ outcome[c] = "running"
      /\ outcome'[c] = IF n = 1 THEN "returned" ELSE "running"
      /\ outcome' \in [Callers -> Outcomes]
      /\ \A d \in Callers \ {c} : outcome'[d] = outcome[d]
  BY <1>1 DEF ReturnUp, windowVars, CallInv, StackInv, Running, TypeOK, Outcomes
<1> HIDE DEF n
<1>4. Len(stack[c]) = n
  BY DEF n
<1>5. StackInv(c)'
  BY <1>1, <1>2, <1>3, <1>4 DEF CallInv, StackInv
<1>6. \A q : ~WillDelete(c, q)
  BY <1>1, <1>4 DEF WillDelete, CallInv, StackInv
<1>7. \A q : WillMeet(c, q) => WillMeet(c, q)'
  BY <1>1, <1>2, <1>4 DEF WillMeet
<1>8. DoneInv(c)'
  BY <1>3, <1>6, <1>7 DEF CallInv, DoneInv
<1>9. ReachInv(c)'
  <2> SUFFICES ASSUME NEW keys \in SUBSET Keys, root[c] \in keys, Closed(keys, seen[c])
               PROVE  deleted[c] \subseteq keys /\ \A i \in 1..(n - 1) : stack'[c][i].key \in keys
    BY <1>2, <1>3 DEF ReachInv
  <2>1. deleted[c] \subseteq keys /\ \A i \in 1..n : stack[c][i].key \in keys
    BY <1>3, <1>4 DEF CallInv, ReachInv
  <2> QED
    BY <1>1, <1>2, <2>1
<1>10. CallbackInv(c)'
  BY <1>3, <1>7 DEF CallInv, CallbackInv
<1> QED
  BY <1>2, <1>3, <1>5, <1>8, <1>9, <1>10 DEF CallInv, n

\* An exception ends the call where it is.
LEMMA UnwindStep ==
    ASSUME TypeOK, NEW c \in Callers, CallInv(c), Running(c),
           NEW how \in {"recursion", "raised"}, Unwind(c, how)
    PROVE  CallInv(c)'
<1>1. /\ stack'[c] = <<>> /\ Len(stack'[c]) = 0 /\ outcome'[c] = how
      /\ UNCHANGED <<deps, root, deleted, notified, stable, seen>>
      /\ outcome[c] = "running"
  BY DEF Unwind, windowVars, TypeOK, CallInv, StackInv, Running
<1>2. StackInv(c)' /\ DoneInv(c)' /\ CallbackInv(c)'
  BY <1>1 DEF CallInv, StackInv, DoneInv, CallbackInv
<1>3. ReachInv(c)'
  BY <1>1 DEF CallInv, ReachInv
<1> QED
  BY <1>2, <1>3 DEF CallInv

\* A call begins.
LEMMA DeleteBegins ==
    ASSUME TypeOK, NEW c \in Callers, NEW k \in Keys, Delete(c, k)
    PROVE  CallInv(c)'
<1>1. /\ stack'[c] = <<Activation(k)>> /\ outcome'[c] = "running" /\ root'[c] = k
      /\ deleted'[c] = {} /\ notified'[c] = {} /\ stable'[c] = deps /\ seen'[c] = deps
      /\ deps' = deps
  BY DEF Delete, TypeOK
<1>2. /\ Len(stack'[c]) = 1 /\ stack'[c] # <<>>
      /\ stack'[c][1].at = "row" /\ stack'[c][1].key = k /\ stack'[c][1].todo = {}
  BY <1>1 DEF Activation
<1>3. StackInv(c)'
  BY <1>1, <1>2 DEF StackInv
<1>4. DoneInv(c)' /\ CallbackInv(c)'
  BY <1>1, <1>2 DEF DoneInv, CallbackInv, WillDelete
<1>5. ReachInv(c)'
  BY <1>1, <1>2 DEF ReachInv
<1> QED
  BY <1>3, <1>4, <1>5 DEF CallInv

\* A registration changes which rows stood all the time, and which at some time.
LEMMA RegisterStep ==
    ASSUME TypeOK, NEW c \in Callers, CallInv(c), NEW u, NEW d, NEW policy, RegisterDep(u, d, policy)
    PROVE  CallInv(c)'
<1>1. /\ stable'[c] = stable[c] \cap deps' /\ seen'[c] = seen[c] \cup deps'
      /\ UNCHANGED <<stack, outcome, root, deleted, notified>>
  BY DEF RegisterDep, callVars
<1>2. StackInv(c)'
  BY <1>1 DEF CallInv, StackInv
<1>3. DoneInv(c)' /\ CallbackInv(c)'
  BY <1>1 DEF CallInv, DoneInv, CallbackInv, WillDelete, WillMeet
<1>4. \A keys : Closed(keys, seen'[c]) => Closed(keys, seen[c])
  BY <1>1 DEF Closed
<1>5. ReachInv(c)'
  BY <1>1, <1>4 DEF CallInv, ReachInv
<1> QED
  BY <1>2, <1>3, <1>5 DEF CallInv

---------------------------------------------------------------------------
(* The invariant *)

\* REPLACE keeps one policy for a pair of keys.
LEMMA ReplacedRows ==
    ASSUME TypeOK, NEW e \in MayDepend, NEW p \in Policies
    PROVE  Replaced(e[1], e[2], p) \subseteq Rows /\ KeyedRows(Replaced(e[1], e[2], p))
<1>1. <<e[1], e[2], p>> \in Rows
  BY DEF Rows
<1>2. Replaced(e[1], e[2], p) \subseteq Rows
  BY <1>1 DEF Replaced, TypeOK
<1>3. ASSUME NEW r \in Replaced(e[1], e[2], p), NEW q \in Replaced(e[1], e[2], p),
             r[1] = q[1], r[2] = q[2]
      PROVE  r = q
  <2> DEFINE new == <<e[1], e[2], p>>
  <2>1. (r \in deps /\ (r[1] # e[1] \/ r[2] # e[2])) \/ r = new
    BY DEF Replaced
  <2>2. (q \in deps /\ (q[1] # e[1] \/ q[2] # e[2])) \/ q = new
    BY DEF Replaced
  <2>3. new[1] = e[1] /\ new[2] = e[2]
    OBVIOUS
  <2> HIDE DEF new
  <2> QED
    BY <1>3, <2>1, <2>2, <2>3 DEF TypeOK, KeyedRows
<1> QED
  BY <1>2, <1>3 DEF KeyedRows

LEMMA StoreBegins == Init => StoreInv
<1> SUFFICES ASSUME Init PROVE StoreInv
  OBVIOUS
<1>1. (CHOOSE k \in Keys : TRUE) \in Keys
  BY StoreAssumption
<1>2. TypeOK
  <2>1. stack \in [Callers -> Seq(Frames)] /\ \A c \in Callers : Len(stack[c]) <= MaxDepth
    BY StoreAssumption DEF Init
  <2>2. root \in [Callers -> Keys]
    BY <1>1 DEF Init
  <2> QED
    BY <2>1, <2>2, StoreAssumption DEF Init, TypeOK, Outcomes
<1>3. ASSUME NEW c \in Callers PROVE CallInv(c)
  <2>1. stack[c] = <<>> /\ Len(stack[c]) = 0 /\ outcome[c] = "none"
    BY DEF Init
  <2> QED
    BY <2>1 DEF CallInv, StackInv, DoneInv, ReachInv, CallbackInv
<1> QED
  BY <1>2, <1>3 DEF StoreInv

\* An exception that leaves a call keeps the invariant.
LEMMA UnwindKeeps ==
    ASSUME StoreInv, NEW c \in Callers, Running(c),
           NEW how \in {"recursion", "raised"}, Unwind(c, how)
    PROVE  StoreInv'
<1>0. TypeOK /\ \A d \in Callers : CallInv(d)
  BY DEF StoreInv
<1>1. CallInv(c)'
  BY <1>0, UnwindStep
<1>2. TypeOK'
  BY <1>0, StoreAssumption DEF TypeOK, Unwind, windowVars, Outcomes
<1>3. ASSUME NEW d \in Callers \ {c} PROVE CallInv(d)'
  <2>1. stack'[d] = stack[d] /\ outcome'[d] = outcome[d]
    BY <1>0 DEF Unwind, TypeOK
  <2> QED
    BY <1>0, <2>1, Untouched DEF Unwind, windowVars
<1> QED
  BY <1>1, <1>2, <1>3 DEF StoreInv

\* Every step of a call keeps its own invariant and leaves the other calls alone.
LEMMA AdvanceStep ==
    ASSUME StoreInv, NEW c \in Callers, Advance(c)
    PROVE  StoreInv'
<1>0. TypeOK /\ CallInv(c) /\ \A d \in Callers : CallInv(d)
  BY DEF StoreInv
<1>1. CASE DeleteRow(c)
  <2>1. /\ CallInv(c)' /\ stack' \in [Callers -> Seq(Frames)]
        /\ Len(stack'[c]) = Len(stack[c])
        /\ \A d \in Callers \ {c} : stack'[d] = stack[d]
    BY <1>0, <1>1, DeleteRowStep
  <2>2. Top(c).key \in Keys
    BY <1>0, <1>1, TopIs DEF DeleteRow, Frames
  <2>3. TypeOK'
    BY <1>0, <1>1, <2>1, <2>2 DEF TypeOK, DeleteRow, windowVars
  <2>4. ASSUME NEW d \in Callers \ {c} PROVE CallInv(d)'
    <3>1. deleted'[d] = deleted[d]
      BY <1>0, <1>1 DEF DeleteRow, TypeOK
    <3> QED
      BY <1>0, <1>1, <2>1, <3>1, Untouched DEF DeleteRow, windowVars
  <2> QED
    BY <2>1, <2>3, <2>4 DEF StoreInv
<1>2. CASE GetDownstream(c)
  <2>1. /\ CallInv(c)' /\ stack' \in [Callers -> Seq(Frames)]
        /\ Len(stack'[c]) = Len(stack[c])
        /\ \A d \in Callers \ {c} : stack'[d] = stack[d]
    BY <1>0, <1>2, GetDownstreamStep
  <2>2. TypeOK'
    BY <1>0, <1>2, <2>1 DEF TypeOK, GetDownstream, windowVars
  <2>3. ASSUME NEW d \in Callers \ {c} PROVE CallInv(d)'
    BY <1>0, <1>2, <2>1, Untouched DEF GetDownstream, windowVars
  <2> QED
    BY <2>1, <2>2, <2>3 DEF StoreInv
<1>3. ASSUME NEW r \in Rows, Cascade(c, r) PROVE StoreInv'
  <2>1. /\ CallInv(c)' /\ stack' \in [Callers -> Seq(Frames)]
        /\ Len(stack'[c]) <= MaxDepth
        /\ \A d \in Callers \ {c} : stack'[d] = stack[d]
    BY <1>0, <1>3, CascadeStep
  <2>2. UNCHANGED <<signals, deps, changes, outcome, root, deleted, notified, stable, seen>>
    BY <1>3 DEF Cascade, windowVars
  <2>3. TypeOK'
    BY <1>0, <2>1, <2>2 DEF TypeOK
  <2>4. ASSUME NEW d \in Callers \ {c} PROVE CallInv(d)'
    BY <1>0, <2>1, <2>2, Untouched
  <2> QED
    BY <2>1, <2>3, <2>4 DEF StoreInv
<1>4. ASSUME NEW r \in Rows, Notify(c, r) PROVE StoreInv'
  <2>1. /\ CallInv(c)' /\ stack' \in [Callers -> Seq(Frames)]
        /\ Len(stack'[c]) = Len(stack[c])
        /\ \A d \in Callers \ {c} : stack'[d] = stack[d]
        /\ notified' \in [Callers -> SUBSET MayDepend]
        /\ \A d \in Callers \ {c} : notified'[d] = notified[d]
    BY <1>0, <1>4, NotifyStep
  <2>2. UNCHANGED <<signals, deps, changes, outcome, root, deleted, stable, seen>>
    BY <1>4 DEF Notify, windowVars
  <2>3. TypeOK'
    BY <1>0, <2>1, <2>2 DEF TypeOK
  <2>4. ASSUME NEW d \in Callers \ {c} PROVE CallInv(d)'
    BY <1>0, <2>1, <2>2, Untouched
  <2> QED
    BY <2>1, <2>3, <2>4 DEF StoreInv
<1>5. CASE ReturnUp(c)
  <2>1. /\ CallInv(c)' /\ stack' \in [Callers -> Seq(Frames)]
        /\ Len(stack'[c]) = Len(stack[c]) - 1
        /\ outcome' \in [Callers -> Outcomes]
        /\ \A d \in Callers \ {c} : stack'[d] = stack[d] /\ outcome'[d] = outcome[d]
    BY <1>0, <1>5, ReturnUpStep
  <2>2. UNCHANGED <<signals, deps, changes, root, deleted, notified, stable, seen>>
    BY <1>5 DEF ReturnUp, windowVars
  <2>3. TypeOK'
    <3>1. \A d \in Callers : Len(stack'[d]) <= MaxDepth
      <4>1. Len(stack[c]) \in Nat /\ Len(stack[c]) <= MaxDepth /\ MaxDepth \in Nat
        BY <1>0, StoreAssumption DEF TypeOK
      <4>2. Len(stack'[c]) <= MaxDepth
        BY <2>1, <4>1
      <4>3. ASSUME NEW d \in Callers \ {c} PROVE Len(stack'[d]) <= MaxDepth
        BY <1>0, <2>1 DEF TypeOK
      <4> QED
        BY <4>2, <4>3
    <3> QED
      BY <1>0, <2>1, <2>2, <3>1 DEF TypeOK
  <2>4. ASSUME NEW d \in Callers \ {c} PROVE CallInv(d)'
    BY <1>0, <2>1, <2>2, Untouched
  <2> QED
    BY <2>1, <2>3, <2>4 DEF StoreInv
<1>6. CASE RecursionError(c)
  <2>1. Running(c) /\ Unwind(c, "recursion")
    BY <1>6 DEF RecursionError
  <2> QED
    BY <1>0, <2>1, UnwindKeeps
<1> QED
  BY <1>1, <1>2, <1>3, <1>4, <1>5, <1>6 DEF Advance

LEMMA StoreStep == StoreInv /\ [Next]_vars => StoreInv'
<1> SUFFICES ASSUME StoreInv, [Next]_vars PROVE StoreInv'
  OBVIOUS
<1>0. TypeOK /\ \A d \in Callers : CallInv(d)
  BY DEF StoreInv
<1>1. ASSUME NEW k \in Keys, Write(k) PROVE StoreInv'
  <2>1. UNCHANGED <<deps, changes, stack, outcome, root, deleted, notified, stable, seen>>
    BY <1>1 DEF Write, callVars, windowVars
  <2>2. TypeOK'
    BY <1>0, <1>1, <2>1 DEF TypeOK, Write
  <2>3. ASSUME NEW d \in Callers PROVE CallInv(d)'
    BY <1>0, <2>1, Untouched
  <2> QED
    BY <2>2, <2>3 DEF StoreInv
<1>2. ASSUME NEW e \in MayDepend, NEW p \in Policies, RegisterDep(e[1], e[2], p) PROVE StoreInv'
  <2>1. deps' \subseteq Rows /\ KeyedRows(deps')
    BY <1>0, <1>2, ReplacedRows DEF RegisterDep
  <2>2. TypeOK'
    BY <1>0, <1>2, <2>1, StoreAssumption DEF TypeOK, RegisterDep, callVars, KeyedRows
  <2>3. ASSUME NEW d \in Callers PROVE CallInv(d)'
    BY <1>0, <1>2, RegisterStep
  <2> QED
    BY <2>2, <2>3 DEF StoreInv
<1>3. ASSUME NEW c \in Callers, NEW k \in Keys, Delete(c, k) PROVE StoreInv'
  <2>1. CallInv(c)'
    BY <1>0, <1>3, DeleteBegins
  <2>2. TypeOK'
    <3>1. <<Activation(k)>> \in Seq(Frames) /\ Len(<<Activation(k)>>) = 1
      BY DEF Activation, Frames
    <3> QED
      BY <1>0, <1>3, <3>1, StoreAssumption DEF TypeOK, Delete, Outcomes
  <2>3. ASSUME NEW d \in Callers \ {c} PROVE CallInv(d)'
    <3>1. /\ deps' = deps /\ stack'[d] = stack[d] /\ outcome'[d] = outcome[d] /\ root'[d] = root[d]
          /\ deleted'[d] = deleted[d] /\ notified'[d] = notified[d]
          /\ stable'[d] = stable[d] /\ seen'[d] = seen[d]
      BY <1>0, <1>3 DEF Delete, TypeOK
    <3> QED
      BY <1>0, <3>1, Untouched
  <2> QED
    BY <2>1, <2>2, <2>3 DEF StoreInv
<1>4. ASSUME NEW c \in Callers, Advance(c) PROVE StoreInv'
  BY <1>4, AdvanceStep
<1>5. ASSUME NEW c \in Callers, Fail(c) PROVE StoreInv'
  BY <1>5, UnwindKeeps DEF Fail
<1>6. CASE UNCHANGED vars
  <2>1. UNCHANGED <<signals, deps, changes, stack, outcome, root, deleted, notified, stable, seen>>
    BY <1>6 DEF vars, callVars, windowVars
  <2>2. TypeOK'
    BY <1>0, <2>1 DEF TypeOK
  <2>3. ASSUME NEW d \in Callers PROVE CallInv(d)'
    BY <1>0, <2>1, Untouched
  <2> QED
    BY <2>2, <2>3 DEF StoreInv
<1> QED
  BY <1>1, <1>2, <1>3, <1>4, <1>5, <1>6 DEF Next

LEMMA StoreInvariant == Spec => []StoreInv
<1> QED
  BY StoreBegins, StoreStep, PTL DEF Spec

---------------------------------------------------------------------------
(* Theorems *)

\* Every reachable state is well typed; a pair of keys has one policy (the
\* primary key of tollkeeper_signal_deps), and no call nests deeper than the
\* interpreter allows.
THEOREM StoreTypeCorrect == Spec => []TypeOK
<1>1. StoreInv => TypeOK
  BY DEF StoreInv
<1> QED
  BY <1>1, StoreInvariant, PTL

\* A call that is over has no activation, so nothing is left to be done.
LEMMA OverMeansDone ==
    ASSUME StoreInv, NEW c \in Callers, outcome[c] = "returned"
    PROVE  Len(stack[c]) = 0 /\ (\A k : ~WillDelete(c, k)) /\ \A r : ~WillMeet(c, r)
<1>1. stack[c] = <<>>
  BY DEF StoreInv, CallInv, StackInv
<1> QED
  BY <1>1 DEF WillDelete, WillMeet

\* A delete() that returned has deleted its key and every dependent whose
\* cascade stood during the whole call, whatever others did meanwhile.
THEOREM DeletesAreComplete == Spec => []DeleteIsComplete
<1>1. StoreInv => DeleteIsComplete
  BY OverMeansDone DEF StoreInv, CallInv, DoneInv, DeleteIsComplete, Complete, Closed
<1> QED
  BY <1>1, StoreInvariant, PTL

\* No delete(), not even one that raised half way, deletes a key that no
\* cascade leads to.
THEOREM DeletesAreExact == Spec => []DeleteIsExact
<1>1. StoreInv => DeleteIsExact
  BY DEF StoreInv, CallInv, ReachInv, DeleteIsExact
<1> QED
  BY <1>1, StoreInvariant, PTL

\* A delete() that returned has called back about every dependent to notify of
\* the keys it deleted, and about no other pair.
THEOREM NotificationsAreComplete == Spec => []NotifyIsComplete
<1>1. StoreInv => NotifyIsComplete
  BY OverMeansDone DEF StoreInv, CallInv, CallbackInv, NotifyIsComplete
<1> QED
  BY <1>1, StoreInvariant, PTL

---------------------------------------------------------------------------
(* The store implements the abstract one *)

\* The row that is deleted next is the root's, or a cascade has led to it.
Front(c) == Running(c) /\ Top(c).at = "row" => Store!Reaches(c, Top(c).key)
Fronts == \A c \in Callers : Front(c)

\* What a call may get to only grows.
LEMMA FrontStays ==
    ASSUME NEW d \in Callers, Front(d), stack'[d] = stack[d], root'[d] = root[d],
           deleted[d] \subseteq deleted'[d], seen[d] \subseteq seen'[d]
    PROVE  Front(d)'
BY DEF Front, Running, Top, Store!Reaches

\* Where the top activation is past its DELETE there is nothing to show.
LEMMA NoFront == ASSUME NEW c \in Callers, Running(c)' => Top(c)'.at # "row" PROVE Front(c)'
BY DEF Front

LEMMA FrontStep == StoreInv /\ Fronts /\ [Next]_vars => Fronts'
<1> SUFFICES ASSUME StoreInv, Fronts, [Next]_vars PROVE Fronts'
  OBVIOUS
<1>0. TypeOK /\ \A d \in Callers : Front(d) /\ StackInv(d)
  BY DEF StoreInv, CallInv, Fronts
<1>1. ASSUME NEW k \in Keys, Write(k) PROVE Fronts'
  BY <1>0, <1>1, FrontStays DEF Write, callVars, windowVars, Fronts
<1>2. ASSUME NEW e \in MayDepend, NEW p \in Policies, RegisterDep(e[1], e[2], p) PROVE Fronts'
  BY <1>0, <1>2, FrontStays DEF RegisterDep, callVars, Fronts
<1>3. ASSUME NEW c \in Callers, NEW k \in Keys, Delete(c, k) PROVE Fronts'
  <2>1. stack'[c] = <<Activation(k)>> /\ root'[c] = k
    BY <1>0, <1>3 DEF Delete, TypeOK
  <2>2. Front(c)'
    BY <2>1 DEF Front, Top, Activation, Store!Reaches
  <2>3. ASSUME NEW d \in Callers \ {c} PROVE Front(d)'
    <3>1. stack'[d] = stack[d] /\ root'[d] = root[d] /\ deleted'[d] = deleted[d] /\ seen'[d] = seen[d]
      BY <1>0, <1>3 DEF Delete, TypeOK
    <3> QED
      BY <1>0, <3>1, FrontStays
  <2> QED
    BY <2>2, <2>3 DEF Fronts
<1>4. ASSUME NEW c \in Callers, Advance(c) \/ Fail(c) PROVE Fronts'
  <2>1. UNCHANGED <<root, seen>> /\ \A d \in Callers : deleted[d] \subseteq deleted'[d]
    BY <1>0, <1>4 DEF Advance, DeleteRow, GetDownstream, Cascade, Notify, ReturnUp, RecursionError,
                      Fail, Unwind, windowVars, TypeOK
  <2>2. \A d \in Callers \ {c} : stack'[d] = stack[d]
    BY <1>0, <1>4 DEF Advance, DeleteRow, GetDownstream, Cascade, Notify, ReturnUp, RecursionError,
                      Fail, Unwind, SetTop, TypeOK
  <2>3. Front(c)'
    <3>1. ASSUME NEW at \in {"fetch", "loop"}, NEW frame \in Frames, frame.at = at, Running(c), SetTop(c, frame)
          PROVE  Front(c)'
      <4>1. Len(stack'[c]) = Len(stack[c]) /\ stack'[c][Len(stack[c])] = frame
        BY <1>0, <3>1, SetTopEffect
      <4> QED
        BY <3>1, <4>1, NoFront DEF Top
    <3>2. CASE DeleteRow(c)
      <4> DEFINE frame == [Top(c) EXCEPT !.at = "fetch"]
      <4>1. Running(c) /\ SetTop(c, frame) /\ frame \in Frames /\ frame.at = "fetch"
        BY <1>0, <3>2, TopIs DEF DeleteRow, Frames
      <4> QED
        BY <3>1, <4>1
    <3>3. CASE GetDownstream(c)
      <4> DEFINE frame == [Top(c) EXCEPT !.at = "loop", !.todo = {r \in deps : r[1] = Top(c).key}]
      <4>1. Running(c) /\ SetTop(c, frame) /\ frame \in Frames /\ frame.at = "loop"
        BY <1>0, <3>3, TopIs DEF GetDownstream, Frames, TypeOK
      <4> QED
        BY <3>1, <4>1
    <3>4. ASSUME NEW r \in Rows, Notify(c, r) PROVE Front(c)'
      <4>1. Running(c) /\ SetTop(c, Rest(c, r)) /\ Rest(c, r) \in Frames /\ Rest(c, r).at = "loop"
        BY <1>0, <3>4, TopIs DEF Notify, Rest, Frames
      <4> QED
        BY <3>1, <4>1
    <3>5. ASSUME NEW r \in Rows, Cascade(c, r) PROVE Front(c)'
      <4> DEFINE top == Rest(c, r)
                 n == Len(stack[c])
      <4>1. /\ Running(c) /\ Top(c) = stack[c][n] /\ n \in 1..n
            /\ top \in Frames /\ r \in Top(c).todo /\ Top(c).at = "loop"
            /\ r[3] = "cascade" /\ r[2] \in Keys
        BY <1>0, <3>5, TopIs, RowTypes DEF Cascade, Cascades, Rest, Frames
      <4>2. Pushes(c, top, r[2])
        BY <3>5 DEF Cascade, Walk, Pushes
      <4>3. r \in seen[c] /\ r[1] \in deleted[c]
        BY <1>0, <4>1 DEF StackInv
      <4> HIDE DEF top
      <4>4. Len(stack'[c]) = n + 1 /\ stack'[c][n + 1] = Activation(r[2])
        BY <1>0, <4>1, <4>2, PushEffect
      <4>5. Top(c)'.key = r[2]
        BY <4>4 DEF Top, Activation
      <4> QED
        BY <2>1, <4>1, <4>3, <4>5 DEF Front, Store!Reaches
    <3>6. CASE ReturnUp(c)
      <4> DEFINE n == Len(stack[c])
      <4>1. Running(c) /\ n \in Nat \ {0}
        BY <1>0, <3>6, TopIs DEF ReturnUp
      <4>2. /\ Len(stack'[c]) = n - 1 /\ (stack'[c] = <<>> <=> n = 1)
            /\ \A i \in 1..(n - 1) : stack'[c][i] = stack[c][i]
        BY <1>0, <3>6, <4>1, PopEffect DEF ReturnUp
      <4>3. \A i \in 1..n : i < n => stack[c][i].at = "loop"
        BY <1>0 DEF StackInv
      <4> HIDE DEF n
      <4>4. ASSUME n # 1 PROVE stack'[c][n - 1].at = "loop"
        BY <4>1, <4>2, <4>3, <4>4
      <4>5. Running(c)' => Top(c)'.at = "loop"
        BY <4>2, <4>4 DEF Running, Top
      <4> QED
        BY <4>5, NoFront
    <3>7. CASE RecursionError(c) \/ Fail(c)
      <4>1. stack'[c] = <<>>
        BY <1>0, <3>7 DEF RecursionError, Fail, Unwind, TypeOK
      <4> QED
        BY <4>1, NoFront DEF Running
    <3> QED
      BY <1>4, <3>2, <3>3, <3>4, <3>5, <3>6, <3>7 DEF Advance
  <2>4. ASSUME NEW d \in Callers \ {c} PROVE Front(d)'
    BY <1>0, <2>1, <2>2, FrontStays
  <2> QED
    BY <2>3, <2>4 DEF Fronts
<1>5. CASE UNCHANGED vars
  BY <1>0, <1>5, FrontStays DEF vars, callVars, windowVars, Fronts
<1> QED
  BY <1>1, <1>2, <1>3, <1>4, <1>5 DEF Next

\* How the abstract store sees the end of a call.
Seen(o) == IF o = "recursion" THEN "raised" ELSE o
SeenOutcome == [c \in Callers |-> Seen(outcome[c])]

LEMMA SeenIs ==
    ASSUME TypeOK, NEW c \in Callers
    PROVE  /\ SeenOutcome[c] = "running" <=> outcome[c] = "running"
           /\ Store!Running(c) <=> outcome[c] = "running"
BY DEF SeenOutcome, Seen, Store!Running

\* One call ends, or begins.
LEMMA SeenChanges ==
    ASSUME TypeOK, NEW c \in Callers, NEW o \in Outcomes, outcome' = [outcome EXCEPT ![c] = o]
    PROVE  SeenOutcome' = [SeenOutcome EXCEPT ![c] = Seen(o)]
BY DEF SeenOutcome, Seen, TypeOK

LEMMA StepOfStore ==
    ASSUME StoreInv, Fronts, [Next]_vars
    PROVE  Store!Next \/ UNCHANGED <<signals, deps, SeenOutcome, root, deleted, notified, stable, seen>>
<1> DEFINE same == UNCHANGED <<signals, deps, SeenOutcome, root, deleted, notified, stable, seen>>
<1>0. TypeOK /\ \A d \in Callers : CallInv(d) /\ StackInv(d) /\ Front(d)
  BY DEF StoreInv, CallInv, Fronts
<1>1. ASSUME NEW k \in Keys, Write(k) PROVE Store!Next
  <2>1. deleted' = [c \in Callers |-> deleted[c]]
    BY <1>0, <1>1 DEF Write, callVars, TypeOK
  <2>2. Store!Write(k, {})
    BY <1>1, <2>1 DEF Write, Store!Write, callVars, windowVars
  <2> QED
    BY <2>2 DEF Store!Next
<1>2. ASSUME NEW e \in MayDepend, NEW p \in Policies, RegisterDep(e[1], e[2], p) PROVE Store!Next
  <2>1. Store!RegisterDep(e[1], e[2], p)
    BY <1>2 DEF RegisterDep, Replaced, Store!RegisterDep, callVars
  <2>2. e[1] \in Keys /\ e[2] \in Keys /\ p \in Store!Policies
    BY StoreAssumption DEF Policies, Store!Policies
  <2> QED
    BY <2>1, <2>2 DEF Store!Next
<1>3. ASSUME NEW c \in Callers, NEW k \in Keys, Delete(c, k) PROVE Store!Next
  <2>1. outcome[c] # "running" /\ outcome' = [outcome EXCEPT ![c] = "running"]
    BY <1>0, <1>3 DEF Delete, Running, StackInv
  <2>2. SeenOutcome' = [SeenOutcome EXCEPT ![c] = "running"] /\ ~Store!Running(c)
    BY <1>0, <2>1, SeenIs, SeenChanges DEF Outcomes, Seen
  <2>3. Store!Delete(c, k)
    BY <1>3, <2>2 DEF Delete, Store!Delete, SeenOutcome, Seen
  <2> QED
    BY <2>3 DEF Store!Next
<1>4. ASSUME NEW c \in Callers, DeleteRow(c) PROVE Store!Next
  <2>1. Running(c) /\ Top(c).at = "row" /\ Top(c).key \in Keys /\ outcome[c] = "running"
    BY <1>0, <1>4, TopIs DEF DeleteRow, StackInv, Running, Frames
  <2>2. Store!Reaches(c, Top(c).key) /\ Store!Running(c)
    BY <1>0, <2>1, SeenIs DEF Front
  <2>3. SeenOutcome' = SeenOutcome
    BY <1>4 DEF DeleteRow, SeenOutcome
  <2>4. Store!Invalidate(c, Top(c).key)
    BY <1>4, <2>2, <2>3 DEF DeleteRow, Store!Invalidate, windowVars, SeenOutcome, Seen
  <2> QED
    BY <2>1, <2>4 DEF Store!Next
<1>5. ASSUME NEW c \in Callers, GetDownstream(c) PROVE same
  BY <1>5 DEF GetDownstream, windowVars, SeenOutcome
<1>6. ASSUME NEW c \in Callers, NEW r \in Rows, Cascade(c, r) PROVE same
  BY <1>6 DEF Cascade, windowVars, SeenOutcome
<1>7. ASSUME NEW c \in Callers, NEW r \in Rows, Notify(c, r) PROVE Store!Next \/ same
  <2>1. /\ Running(c) /\ outcome[c] = "running" /\ Top(c) = stack[c][Len(stack[c])]
        /\ Len(stack[c]) \in 1..Len(stack[c]) /\ r \in Top(c).todo /\ Top(c).at = "loop"
    BY <1>0, <1>7, TopIs DEF Notify, StackInv, Running
  <2>2. r \in seen[c] /\ r[1] \in deleted[c] /\ r = <<r[1], r[2], "notify">>
        /\ r[1] \in Keys /\ r[2] \in Keys
    BY <1>0, <1>7, <2>1, RowTypes DEF StackInv, Notify
  <2>3. UNCHANGED <<signals, deps, outcome, root, deleted, stable, seen>>
    BY <1>7 DEF Notify, windowVars
  <2>4. SeenOutcome' = SeenOutcome
    BY <2>3 DEF SeenOutcome
  <2>5. CASE HasCallback
    <3>1. Store!Tell(c, r[1], r[2])
      BY <1>0, <1>7, <2>1, <2>2, <2>3, <2>4, <2>5, SeenIs
         DEF Notify, CallsBack, Store!Tell, Store!MayTell, SeenOutcome, Seen
    <3> QED
      BY <2>2, <3>1 DEF Store!Next
  <2>6. CASE ~HasCallback
    BY <1>7, <2>3, <2>4, <2>6 DEF Notify, CallsBack
  <2> QED
    BY <2>5, <2>6
<1>8. ASSUME NEW c \in Callers, ReturnUp(c) PROVE Store!Next \/ same
  <2>1. /\ Running(c) /\ outcome[c] = "running"
        /\ UNCHANGED <<signals, deps, root, deleted, notified, stable, seen>>
    BY <1>0, <1>8 DEF ReturnUp, StackInv, Running, windowVars
  <2>2. CASE Len(stack[c]) = 1
    <3>1. outcome' = [outcome EXCEPT ![c] = "returned"] /\ outcome'[c] = "returned"
      BY <1>0, <1>8, <2>2 DEF ReturnUp, TypeOK
    <3>2. SeenOutcome' = [SeenOutcome EXCEPT ![c] = "returned"] /\ Store!Running(c)
      BY <1>0, <2>1, <3>1, SeenIs, SeenChanges DEF Outcomes, Seen
    <3>3. StoreInv'
      BY <1>8, AdvanceStep DEF Advance
    <3>4. Store!Done(c)
      <4>1. (\A k : ~WillDelete(c, k)') /\ \A r : ~WillMeet(c, r)'
        <5>1. stack'[c] = <<>>
          BY <3>1, <3>3 DEF StoreInv, CallInv, StackInv
        <5> QED
          BY <5>1 DEF WillDelete, WillMeet
      <4>2. DoneInv(c)' /\ CallbackInv(c)'
        BY <3>3 DEF StoreInv, CallInv
      <4> QED
        BY <2>1, <3>1, <4>1, <4>2 DEF DoneInv, CallbackInv, Store!Done, Store!Closed
    <3>5. Store!Return(c)
      BY <2>1, <3>2, <3>4 DEF Store!Return, SeenOutcome, Seen
    <3> QED
      BY <3>5 DEF Store!Next
  <2>3. CASE Len(stack[c]) # 1
    BY <1>8, <2>1, <2>3 DEF ReturnUp, SeenOutcome
  <2> QED
    BY <2>2, <2>3
<1>9. ASSUME NEW c \in Callers, RecursionError(c) \/ Fail(c) PROVE Store!Next
  <2>1. PICK how \in {"recursion", "raised"} : Running(c) /\ Unwind(c, how)
    BY <1>9 DEF RecursionError, Fail
  <2>2. outcome[c] = "running" /\ outcome' = [outcome EXCEPT ![c] = how]
    BY <1>0, <2>1 DEF StackInv, Running, Unwind
  <2>3. SeenOutcome' = [SeenOutcome EXCEPT ![c] = "raised"] /\ Store!Running(c)
    BY <1>0, <2>2, SeenIs, SeenChanges DEF Outcomes, Seen
  <2>4. Store!GiveUp(c)
    BY <2>1, <2>3 DEF Unwind, Store!GiveUp, SeenOutcome, Seen, windowVars
  <2> QED
    BY <2>4 DEF Store!Next
<1>10. CASE UNCHANGED vars
  BY <1>10 DEF vars, callVars, windowVars, SeenOutcome
<1> QED
  BY <1>1, <1>2, <1>3, <1>4, <1>5, <1>6, <1>7, <1>8, <1>9, <1>10 DEF Next, Advance

\* SqliteSignalStore implements SignalStore, for any keys, any dependencies and
\* any number of callers, writers and registrars.
THEOREM SqliteIsSignalStore == Spec => ImplementsStore
<1>1. Init => Fronts
  BY DEF Init, Fronts, Front, Running
<1>2. Init => Store!Init
  <2> SUFFICES ASSUME Init PROVE Store!Init
    OBVIOUS
  <2>1. TypeOK
    BY StoreBegins DEF StoreInv
  <2>2. deps \in SUBSET Store!Dependencies /\ Store!OnePolicy(deps)
    <3>1. Store!OnePolicy(deps) /\ deps \subseteq Rows
      BY <2>1 DEF TypeOK, KeyedRows, Store!OnePolicy
    <3>2. ASSUME NEW r \in deps PROVE r \in Store!Dependencies
      <4>1. r \in Rows
        BY <3>1
      <4>2. r[1] \in Keys /\ r[2] \in Keys /\ r[3] \in Policies /\ r = <<r[1], r[2], r[3]>>
        BY <4>1, RowTypes
      <4>3. <<r[1], r[2], r[3]>> \in Keys \X Keys \X Policies
        BY <4>2
      <4> QED
        BY <4>2, <4>3 DEF Store!Dependencies, Policies, Store!Policies
    <3> QED
      BY <3>1, <3>2
  <2>3. SeenOutcome = [c \in Callers |-> "none"]
    BY DEF Init, SeenOutcome, Seen
  <2> QED
    BY <2>1, <2>2, <2>3 DEF Init, TypeOK, Store!Init, SeenOutcome, Seen
<1>3. StoreInv /\ Fronts /\ [Next]_vars => [Store!Next]_Store!vars
  BY StepOfStore DEF Store!vars, SeenOutcome, Seen
<1> QED
  BY <1>1, <1>2, <1>3, StoreBegins, StoreStep, FrontStep, PTL DEF Spec, ImplementsStore, Store!Spec
=============================================================================
