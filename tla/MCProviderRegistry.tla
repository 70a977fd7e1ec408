------------------------- MODULE MCProviderRegistry -------------------------
(* A driver that cancels but does not resume, and one that resumes durably   *)
(* but does not cancel; what `cancel_invocation` requires, and a resume.     *)
EXTENDS ProviderRegistry, TLC

CONSTANTS native_cancel, session_resume

Report(cancels, resumes) == native_cancel :> cancels @@ session_resume :> resumes
MCOffers == {Report(1, 0), Report(0, 2)}
MCRequirements == {native_cancel :> 1, session_resume :> 1}
=============================================================================
