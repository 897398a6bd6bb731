------------------------------ MODULE OrgTree ------------------------------
(***************************************************************************)
(* The reporting tree (employees.service.ts, buildTree).  An employee's    *)
(* manager is another employee, one that the query leaves out              *)
(* (soft-deleted), or nobody.  Nodes are kept by employee: their order is  *)
(* that of the query, and names are left out.                              *)
(***************************************************************************)
EXTENDS Integers, Sequences, FiniteSets

Nobody == 0

\* Faulty variant: the manager as it is stored.
StoredManager(managers, e) == managers[e]

\* A manager who is not among the employees counts as nobody.
Parent(managers, e) == IF managers[e] \in DOMAIN managers THEN managers[e] ELSE Nobody

ChildrenOf(managers, parent) == {e \in DOMAIN managers : Parent(managers, e) = parent}

\* toNode of an employee, after those who were seen before.  An employee is among the
\* children of one parent only, so that those seen before in the whole walk that could come
\* up again are the ones above.
toNode(managers) ==
  LET reports[n \in (DOMAIN managers) \X SUBSET DOMAIN managers] ==
        LET seen == n[2] \cup {n[1]}
        IN [c \in ChildrenOf(managers, n[1]) \ seen |-> reports[<<c, seen>>]]
  IN reports

buildTree(managers) == [e \in ChildrenOf(managers, Nobody) |-> toNode(managers)[<<e, {}>>]]

-----------------------------------------------------------------------------
(* Reference.                                                              *)

\* The places of a tree, level by level: the line from the top, and who reports to its end.
Levels(tree, depth) ==
  LET level[n \in 0..depth] ==
        IF n = 0 THEN {[line |-> <<Nobody>>, reports |-> tree]}
        ELSE UNION {{[line |-> Append(p.line, e), reports |-> p.reports[e]] :
                       e \in DOMAIN p.reports} : p \in level[n - 1]}
  IN level

\* The lines of all the people in the tree of so many employees.
Lines(tree, employees) ==
  LET depth == Cardinality(employees)
  IN {p.line : p \in UNION {Levels(tree, depth)[n] : n \in 1..depth}}

\* Going up from e ends, and not in a circle: there is no group of employees that it does
\* not leave.
ChainEnds(managers, e) ==
  ~\E group \in SUBSET DOMAIN managers : e \in group /\ \A x \in group : managers[x] \in group

\* The tree shows everybody whose line of managers ends, once, under their manager if that
\* is an employee and at the top if not, and nobody else.
ShowsEverybodyOnce(managers, tree) ==
  LET lines == Lines(tree, DOMAIN managers)
      Shown(line) == line[Len(line)]
      Above(line) == line[Len(line) - 1]
  IN /\ \A line, other \in lines : Shown(line) = Shown(other) => line = other
     /\ {<<Shown(line), Above(line)>> : line \in lines}
          = {<<e, Parent(managers, e)>> : e \in {x \in DOMAIN managers : ChainEnds(managers, x)}}
=============================================================================
