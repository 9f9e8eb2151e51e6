----------------------------- MODULE MCBatchRun -----------------------------
(* BatchRun on three profiles, for TLC.                                    *)
EXTENDS BatchRun

MCCatalogue == <<"rust", "agda", "lint">>

Everything == Executables

On(auto, found, argv, fix, actions, explicit, installed) ==
    [auto |-> auto, found |-> found, argv |-> argv, fix |-> fix, actions |-> actions,
     explicit |-> explicit, installed |-> installed]

\* Not configured, with and without a project of its kind; configured with all its
\* commands, or with one of them missing, empty, blank or not installed.
MCSettings ==
    { On(FALSE, TRUE, "absent", "absent", "absent", TRUE, Everything),
      On(FALSE, FALSE, "absent", "absent", "absent", TRUE, Everything),
      On(TRUE, FALSE, "tool", "tool", "server", FALSE, Everything),
      On(TRUE, FALSE, "tool", "empty", "off", TRUE, Everything),
      On(TRUE, TRUE, "empty", "tool", "invalid", TRUE, Everything),
      On(TRUE, TRUE, "tool", "blank", "absent", TRUE, {"argv"}),
      On(FALSE, TRUE, "absent", "tool", "absent", TRUE, {"fix", "server"}) }
=============================================================================
