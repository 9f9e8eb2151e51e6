---------------------------- MODULE MCLspSession ----------------------------
EXTENDS LspSession

An(k, p, kind, docs) == [key |-> k, preferred |-> p, kind |-> kind, docs |-> docs]

\* Nothing, a direct edit, a command, an edit that has to be resolved first, and
\* a preferred command beside an edit.
MCAnswers ==
    { {},
      {An("a", FALSE, "edit", Docs)},
      {An("b", FALSE, "command", {})},
      {An("a", FALSE, "unresolved", Docs)},
      {An("a", FALSE, "edit", Docs), An("b", TRUE, "command", {})} }
=============================================================================
