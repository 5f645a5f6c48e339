----------------------------- MODULE MCOnboarding -----------------------------
(***************************************************************************)
(* Onboarding on small instances.                                          *)
(***************************************************************************)
EXTENDS Onboarding, TLC

\* Nothing yet, a draft, an account of a migration, or one opened either way.
MCPasts == {<<>>, <<"in_progress">>, <<"not_started">>, <<"completed">>, <<"skipped">>}
=============================================================================
