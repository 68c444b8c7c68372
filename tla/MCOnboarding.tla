----------------------------- MODULE MCOnboarding -----------------------------
(***************************************************************************)
(* Onboarding under names that do not meet those of RunnerLink, so that    *)
(* what is proved of a runner's link can be proved in one place with whom  *)
(* the backend tells what the runner says.                                 *)
(***************************************************************************)
CONSTANTS Users, NoUser, Claims, NoClaim, Tries, MaxPolls, Production, MaxFaults
VARIABLES session, deleted, members, claim, audience, runner, owner, gate, boot, dialog,
          try, socket, faults

Board == INSTANCE Onboarding
BoardSpec == Board!Spec

\* The user who paired a runner hears it (approveEntry, findByTokenHash, attach).
PairedUserHears == Board!PairedUserHears
\* A page at the end of the guide does not wait for ever (RunnerInstallGuide).
GuideFindsRunner == Board!GuideFindsRunner
=============================================================================
