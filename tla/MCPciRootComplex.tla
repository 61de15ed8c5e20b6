-------------------------- MODULE MCPciRootComplex --------------------------
EXTENDS PciRootComplex, TLC

\* Page 0 is memory, page 1 memory above it, page 2 the I/O space.
MCDram == {1}
MCHdm == {2}

Low(x, y) == [base |-> x, limit |-> y, baseUpper |-> 0, limitUpper |-> 0]
High(x, y) == [base |-> x, limit |-> y, baseUpper |-> 1, limitUpper |-> 1]
IO(x, y) == [base |-> x, limit |-> y, baseUpper |-> 2, limitUpper |-> 2]

Assign(m, p, i, d) ==
  [win |-> [w \in Windows |-> CASE w = "mem" -> m [] w = "pref" -> p [] w = "io" -> i],
   bars |-> d]

\* Windows of every kind, one that crosses into the upper page, one at the
\* place of the initial I/O window, and windows that are not used.  The
\* registers of the CXL device are in a window of its link in the first plan.
MCPlans ==
  {<<Assign(Low(3, 3), Disabled("pref"), IO(1, 1), {3}),
     Assign(Low(4, 4), High(0, 1), Disabled("io"), {})>>,
   <<Assign(Disabled("mem"), High(3, 3), Disabled("io"), {9}),
     Assign(Disabled("mem"), [High(5, 0) EXCEPT !.baseUpper = 0],
            IO(0, 1), {})>>}

Symmetry == Permutations(Reqs)
=============================================================================
