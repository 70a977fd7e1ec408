------------------------ MODULE MCProviderInvocation ------------------------
(* A reader from the start, or one that resumes after the first event.      *)
EXTENDS ProviderInvocation

MCCursors == {-1, 0}
MCFirst == {-1}
=============================================================================
