------------------------------- MODULE Accounts -------------------------------
(* What the services that know people and their credentials promise together: *)
(* browser sessions (SignIn), the first login (Onboarding), the members of a   *)
(* tenant (TeamAuthority) and SMTP credentials (Credentials).                  *)
EXTENDS SignIn, Onboarding, TeamAuthority, Credentials

\* Sessions and users are made once for what they answer to.
SignInsAreOnce == FlowYieldsOneSession /\ OnboardedOnce

\* Members and credentials act with the authority they have now.
AuthorityIsCurrent == AuthorityStands /\ CredentialsHold
===============================================================================
