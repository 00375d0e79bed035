---------------------------- MODULE MCOnboarding ----------------------------
(* Instances of OnboardingPage for TLC. *)
EXTENDS OnboardingPage, TLC

MCSymmetry == Permutations(Messages) \cup Permutations(Uploads) \cup Permutations(Finals)
=============================================================================
