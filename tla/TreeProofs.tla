----------------------------- MODULE TreeProofs -----------------------------
(***************************************************************************)
(* What every step of the process trees preserves, proved once for the two *)
(* users of ProcessTree: the read queries and the process manager.         *)
(***************************************************************************)
EXTENDS ProcessTree, TLAPS

\* What happens to a tree once it runs: all of ProcessTree but the start.
TreeMove(p) ==
    \/ \E how \in Endings : LeaderExit(p, how)
    \/ Fork(p)
    \/ Detach(p)
    \/ ChildExit(p)
    \/ \E keep \in SUBSET {"leader", "child"} : Signal(p, keep)
    \/ Waited(p)

\* A tree that was not started has nobody, the status of a leader is known exactly when it has
\* ended, and only an ended leader was waited for.
TreeOrdered(p) ==
    /\ pid[p] = NoPid => alive[p] = {} /\ status[p] = "none" /\ ~reaped[p]
    /\ pid[p] # NoPid => (status[p] = "none" <=> "leader" \in alive[p])
    /\ reaped[p] => "leader" \notin alive[p]

TreeInv == TreeTypeOK /\ \A p \in Procs : TreeOrdered(p)

\* What is gone stays gone: an ended leader's status, an empty group, an empty tree, a wait that
\* returned.
TreeEvolves(q) ==
    /\ pid'[q] = pid[q]
    /\ "leader" \notin alive[q] => "leader" \notin alive'[q] /\ status'[q] = status[q]
    /\ InGroup(q) = {} => InGroup(q)' = {}
    /\ alive[q] = {} => alive'[q] = {}
    /\ reaped[q] => reaped'[q]

\* The trees of the initial states.
LEMMA TreeInitial == TreeInit => TreeInv
BY TreeAssumption DEF TreeInit, TreeInv, TreeTypeOK, TreeOrdered

\* Nothing happens to the trees.
LEMMA TreeStutter ==
  ASSUME TreeInv, UNCHANGED treeVars
  PROVE  TreeInv' /\ \A q \in Procs : TreeEvolves(q) /\ InGroup(q)' = InGroup(q)
BY DEF treeVars, TreeInv, TreeTypeOK, TreeOrdered, TreeEvolves, InGroup

\* fork and exec change the tree they start, and no other.
LEMMA ExecStep ==
  ASSUME TreeInv, NEW p \in Procs, pid[p] = NoPid, Exec(p)
  PROVE  /\ TreeInv'
         /\ \A q \in Procs \ {p} : TreeEvolves(q) /\ UNCHANGED <<pid[q], alive[q], status[q], reaped[q]>>
         /\ pid'[p] # NoPid /\ alive'[p] = {"leader"} /\ UNCHANGED <<status, reaped>>
<1> USE DEF TreeInv
<1>1. PICK g \in Pids : pid' = [pid EXCEPT ![p] = g]
  BY DEF Exec, FreePids
<1>2. alive' = [alive EXCEPT ![p] = {"leader"}] /\ UNCHANGED <<status, reaped>>
  BY DEF Exec
<1>3. TreeTypeOK'
  BY <1>1, <1>2 DEF TreeTypeOK, Members
<1>4. /\ pid'[p] = g /\ alive'[p] = {"leader"}
      /\ \A q \in Procs \ {p} : pid'[q] = pid[q] /\ alive'[q] = alive[q]
  BY <1>1, <1>2 DEF TreeTypeOK
<1>5. \A q \in Procs \ {p} : InGroup(q)' = InGroup(q)
  BY <1>4 DEF InGroup
<1>6. ASSUME NEW q \in Procs PROVE TreeOrdered(q)'
  BY <1>2, <1>4, TreeAssumption DEF TreeOrdered
<1>7. ASSUME NEW q \in Procs \ {p} PROVE TreeEvolves(q) /\ UNCHANGED <<pid[q], alive[q], status[q], reaped[q]>>
  BY <1>2, <1>4, <1>5 DEF TreeEvolves
<1> QED
  BY <1>2, <1>3, <1>4, <1>6, <1>7, TreeAssumption

\* kill(-g) reaches every member of the group, of whatever tree has that number, but the ones in
\* keep.
LEMMA SignalStep ==
  ASSUME TreeInv, NEW p \in Procs, NEW keep \in SUBSET {"leader", "child"}, Signal(p, keep)
  PROVE  /\ TreeInv'
         /\ \A q \in Procs : TreeEvolves(q)
         /\ keep = {} => InGroup(p)' = {}
<1> USE DEF TreeInv
<1> DEFINE T == GroupOf(pid[p])
           dead == {"leader", "child"} \ keep
<1>1. /\ alive' = [q \in Procs |-> IF q \in T THEN alive[q] \ dead ELSE alive[q]]
      /\ status' = [q \in Procs |-> IF q \in T /\ "leader" \in alive[q] \cap dead
                                    THEN "signal" ELSE status[q]]
      /\ UNCHANGED <<pid, reaped>>
  BY DEF Signal
<1>2. InGroup(p) # {} => p \in T
  BY DEF GroupOf
<1>3. \A q \in Procs : q \in T => pid[q] = pid[p] /\ (alive[q] # {} \/ pid[q] # NoPid)
  BY DEF GroupOf, InGroup, Zombie
<1> HIDE DEF T
<1>4. TreeTypeOK'
  <2>1. \A q \in Procs : alive'[q] \in SUBSET Members /\ status'[q] \in Endings \cup {"none", "signal"}
    BY <1>1 DEF TreeTypeOK
  <2> QED
    BY <1>1, <2>1 DEF TreeTypeOK
<1>5. ASSUME NEW q \in Procs PROVE TreeOrdered(q)' /\ TreeEvolves(q)
  <2>0. TreeOrdered(q) /\ pid'[q] = pid[q] /\ reaped'[q] = reaped[q]
    BY <1>1
  <2>1. CASE q \notin T
    <3>1. alive'[q] = alive[q] /\ status'[q] = status[q]
      BY <1>1, <2>1
    <3> QED
      BY <2>0, <3>1 DEF TreeOrdered, TreeEvolves, InGroup
  <2>2. CASE q \in T /\ "leader" \in alive[q] \cap dead
    <3>1. alive'[q] = alive[q] \ dead /\ status'[q] = "signal"
      BY <1>1, <2>2
    <3> QED
      BY <2>0, <2>2, <3>1 DEF TreeOrdered, TreeEvolves, InGroup
  <2>3. CASE q \in T /\ "leader" \notin alive[q] \cap dead
    <3>1. alive'[q] = alive[q] \ dead /\ status'[q] = status[q]
      BY <1>1, <2>3
    <3> QED
      BY <2>0, <2>3, <3>1 DEF TreeOrdered, TreeEvolves, InGroup
  <2> QED
    BY <2>1, <2>2, <2>3
<1>6. keep = {} => InGroup(p)' = {}
  BY <1>1, <1>2 DEF InGroup
<1> QED
  BY <1>4, <1>5, <1>6

\* A signal that finds no group finds nobody of the tree either.
LEMMA NoGroupNobody ==
  ASSUME NEW p \in Procs, GroupOf(pid[p]) = {}
  PROVE  InGroup(p) = {}
BY DEF GroupOf

\* Every other step.
LEMMA MoveStep ==
  ASSUME TreeInv, NEW p \in Procs, TreeMove(p)
  PROVE  TreeInv' /\ \A q \in Procs : TreeEvolves(q)
<1> USE DEF TreeInv
<1>0. pid \in [Procs -> Pids \cup {NoPid}] /\ alive \in [Procs -> SUBSET Members]
  BY DEF TreeTypeOK
<1>1. ASSUME NEW how \in Endings, LeaderExit(p, how) PROVE TreeInv' /\ \A q \in Procs : TreeEvolves(q)
  <2>1. TreeTypeOK'
    BY <1>1 DEF LeaderExit, TreeTypeOK
  <2>2. how # "none"
    BY TreeAssumption
  <2>3. ASSUME NEW q \in Procs PROVE TreeOrdered(q)' /\ TreeEvolves(q)
    BY <1>1, <2>2 DEF LeaderExit, TreeTypeOK, TreeOrdered, TreeEvolves, InGroup
  <2> QED
    BY <2>1, <2>3
<1>2. ASSUME NEW new \in SUBSET Members, alive' = [alive EXCEPT ![p] = new],
             "leader" \in new <=> "leader" \in alive[p],
             InGroup(p) = {} => new \cap {"leader", "child"} = {}, alive[p] # {},
             UNCHANGED <<pid, status, reaped>>
      PROVE  TreeInv' /\ \A q \in Procs : TreeEvolves(q)
  <2>1. TreeTypeOK'
    BY <1>2 DEF TreeTypeOK
  <2>2. alive'[p] = new /\ \A q \in Procs \ {p} : alive'[q] = alive[q]
    BY <1>0, <1>2
  <2>3. ASSUME NEW q \in Procs \ {p} PROVE TreeOrdered(q)' /\ TreeEvolves(q)
    BY <1>2, <2>2 DEF TreeOrdered, TreeEvolves, InGroup
  <2>4. TreeOrdered(p)' /\ TreeEvolves(p)
    BY <1>2, <2>2 DEF TreeOrdered, TreeEvolves, InGroup
  <2> QED
    BY <2>1, <2>3, <2>4
<1>3. CASE Fork(p)
  <2>1. /\ alive' = [alive EXCEPT ![p] = alive[p] \cup {"child"}] /\ "leader" \in alive[p]
        /\ UNCHANGED <<pid, status, reaped>>
    BY <1>3 DEF Fork
  <2>2. alive[p] \cup {"child"} \in SUBSET Members /\ InGroup(p) # {}
    BY <1>0, <2>1 DEF Members, InGroup
  <2> QED
    BY <1>2, <2>1, <2>2
<1>4. CASE Detach(p)
  <2>1. /\ alive' = [alive EXCEPT ![p] = (alive[p] \ {"child"}) \cup {"detached"}]
        /\ "child" \in alive[p] /\ UNCHANGED <<pid, status, reaped>>
    BY <1>4 DEF Detach
  <2>2. (alive[p] \ {"child"}) \cup {"detached"} \in SUBSET Members /\ InGroup(p) # {}
    BY <1>0, <2>1 DEF Members, InGroup
  <2> QED
    BY <1>2, <2>1, <2>2
<1>5. CASE ChildExit(p)
  <2>1. PICK m \in alive[p] \ {"leader"} : /\ alive' = [alive EXCEPT ![p] = alive[p] \ {m}]
                                          /\ UNCHANGED <<pid, status, reaped>>
    BY <1>5 DEF ChildExit
  <2>2. /\ alive[p] \ {m} \in SUBSET Members
        /\ InGroup(p) = {} => (alive[p] \ {m}) \cap {"leader", "child"} = {}
    BY <1>0 DEF Members, InGroup
  <2> QED
    BY <1>2, <2>1, <2>2
<1>6. CASE \E keep \in SUBSET {"leader", "child"} : Signal(p, keep)
  BY <1>6, SignalStep
<1>7. CASE Waited(p)
  <2>1. TreeTypeOK'
    BY <1>7 DEF Waited, TreeTypeOK
  <2>2. ASSUME NEW q \in Procs PROVE TreeOrdered(q)' /\ TreeEvolves(q)
    BY <1>7 DEF Waited, Zombie, TreeTypeOK, TreeOrdered, TreeEvolves, InGroup
  <2> QED
    BY <2>1, <2>2
<1> QED
  BY <1>1, <1>3, <1>4, <1>5, <1>6, <1>7 DEF TreeMove
=============================================================================
