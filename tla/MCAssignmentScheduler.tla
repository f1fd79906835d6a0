----------------------- MODULE MCAssignmentScheduler ------------------------
(***************************************************************************)
(* Plans of two or three assignments: a root with a child inside its scope *)
(* beside another root, overlapping workers, a parked root with a child,   *)
(* an audited pair of roots with a live grant, and two serial plans, with  *)
(* and without a hierarchy.                                                *)
(***************************************************************************)
EXTENDS AssignmentScheduler

a == <<"a">>
b == <<"b">>
c == <<"c">>
ax == <<"a", "x">>
MCPaths == {a, b, c, ax}
MCForeign == {b}

Turns == {"good", "shape"}

Assignment(paths, parent) ==
  [paths |-> paths, parent |-> parent, live |-> FALSE, parked |-> FALSE,
   turns |-> Turns, audits |-> {}]
Audited(job) == [job EXCEPT !.audits = AuditResults]
Live(job) == [job EXCEPT !.live = TRUE]
Parked(job) == [job EXCEPT !.parked = TRUE]
Showing(job, turns) == [job EXCEPT !.turns = turns]

Family ==
  [width |-> 2, semantic |-> "block",
   jobs |-> <<Live(Showing(Assignment(<<a>>, 0), {"good", "validation_failed", "uncontained"})),
              Assignment(<<ax>>, 1), Assignment(<<b>>, 0)>>]
Workers ==
  [width |-> 2, semantic |-> "off",
   jobs |-> <<Assignment(<<a>>, 0), Assignment(<<ax>>, 0),
              Showing(Assignment(<<b>>, 0), {"good"})>>]
Chain ==
  [width |-> 1, semantic |-> "warn",
   jobs |-> <<Audited(Showing(Assignment(<<a>>, 0), ChildResults)), Assignment(<<ax>>, 1),
              Assignment(<<b>>, 0)>>]
ParkedRoot ==
  [width |-> 2, semantic |-> "warn",
   jobs |-> <<Parked(Assignment(<<a>>, 0)), Assignment(<<ax>>, 1), Assignment(<<b>>, 0)>>]
Flat ==
  [width |-> 1, semantic |-> "block",
   jobs |-> <<Showing(Assignment(<<a, b>>, 0), ChildResults), Showing(Assignment(<<c>>, 0), ChildResults)>>]
Pair ==
  [width |-> 2, semantic |-> "off",
   jobs |-> <<Audited(Live(Assignment(<<a>>, 0))), Showing(Assignment(<<b, c>>, 0), {"good", "uncontained"})>>]

Trio ==
  [width |-> 3, semantic |-> "off",
   jobs |-> <<Showing(Assignment(<<a>>, 0), {"good"}), Showing(Assignment(<<b>>, 0), {"good"}),
              Showing(Assignment(<<c>>, 0), {"good"})>>]
ThreeRoots == {Trio}

AllPlans == {Family, Workers, Chain, ParkedRoot, Flat, Pair}
=============================================================================
