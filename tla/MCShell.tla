------------------------------- MODULE MCShell -------------------------------
EXTENDS Shell, TLC

CONSTANTS short, long, job, amp, list, leave, blank

MCKind == (short :> "foreground") @@ (long :> "long") @@ (job :> "background") @@ (amp :> "lone")
          @@ (list :> "builtin") @@ (leave :> "exit") @@ (blank :> "spaces")
=============================================================================
