-------------------------- MODULE MCCircuitSolver ---------------------------
(* Circuits of CircuitSolver for TLC.                                      *)
EXTENDS CircuitSolver, TLC

\* IF(AND(4, 5), NOT(6), 7)
IfNode == 1..7
IfType == <<"IF", "AND", "NOT", "LEAF", "LEAF", "LEAF", "LEAF">>
IfArgs == <<(<<2, 3, 7>>), <<4, 5>>, <<6>>, << >>, << >>, << >>, << >> >>
IfThreshold == [n \in IfNode |-> 0]

\* GT1(LT1(4), OR(5, 6)), and a second circuit, the leaf 7
GtNode == 1..7
GtType == <<"GT", "LT", "OR", "LEAF", "LEAF", "LEAF", "LEAF">>
GtArgs == <<(<<2, 3>>), <<4>>, <<5, 6>>, << >>, << >>, << >>, << >> >>
GtThreshold == <<1, 1, 0, 0, 0, 0, 0>>

\* AND(NOT(3), 4)
NotNode == 1..4
NotType == <<"AND", "NOT", "LEAF", "LEAF">>
NotArgs == <<(<<2, 4>>), <<3>>, << >>, << >> >>
NotThreshold == [n \in NotNode |-> 0]

=============================================================================
