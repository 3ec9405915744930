------------------------------ MODULE MCGateway ------------------------------
(***************************************************************************)
(* Two tabs of one instructor, whose student has no stream.                *)
(***************************************************************************)
EXTENDS Gateway

CONSTANTS r1, tabA, tabB, prof, alice

MCRequests == {r1}
MCUsers == {prof, alice}
MCTabs == {tabA, tabB}
MCUserOf == [b \in MCTabs |-> prof]
MCStudentOf == [r \in MCRequests |-> alice]
MCInstructorOf == [r \in MCRequests |-> prof]
=============================================================================
