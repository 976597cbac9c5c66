----------------------------- MODULE MCUpdater -----------------------------
(* Finite values for the constants of Updater. *)
EXTENDS Updater, TLC

\* A strict bundle, a lenient one, and one that validate() must reject.
MCPolicies ==
    {[maxImageBytes |-> 1, minHealthyProbes |-> 2, maxAttempts |-> 2,
      allowReinstall |-> FALSE],
     [maxImageBytes |-> 2, minHealthyProbes |-> 1, maxAttempts |-> 1,
      allowReinstall |-> TRUE],
     [maxImageBytes |-> 2, minHealthyProbes |-> 0, maxAttempts |-> 1,
      allowReinstall |-> FALSE]}

\* Only the strict bundle (for runs whose property is about the default).
MCStrict ==
    {[maxImageBytes |-> 2, minHealthyProbes |-> 1, maxAttempts |-> 1,
      allowReinstall |-> FALSE]}

\* Tasks are interchangeable; used by safety runs only.
CallerSymmetry == Permutations(Callers)
=============================================================================
