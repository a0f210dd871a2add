------------------------------ MODULE MC_Screens ------------------------------
(* An instance of Screens.  From every screen the user goes to one that    *)
(* reads, or whose requests change, some of the same lists.                *)
EXTENDS Screens

Both(p, q) == {<<p, q>>, <<q, p>>}

Neighbours ==
  Both("dashboard", "projects") \cup Both("projects", "cases")
    \cup Both("cases", "case") \cup Both("environments", "runs")
    \cup Both("runs", "run") \cup Both("members", "credentials")
    \cup Both("account", "projects") \cup Both("pages", "cases")
    \cup Both("xray", "projects")

(* An installation nobody has used, one with a workspace, and workspaces   *)
(* with an account, with a bound repository, and with a run under way.     *)
Used == {"workspaces", "environments"}

EveryStart ==
  ({"projects", "members"} \X {{}})
    \cup ({"projects", "cases", "case", "environments", "members", "credentials",
          "account", "pages", "xray"} \X {Used})
    \cup {<<"account", Used \cup {"account"}>>, <<"xray", Used \cup {"binding"}>>}
    \cup {<<"runs", Used \cup {"runs", "run"}>>}

Followed == {"runs", "run"}
===============================================================================
