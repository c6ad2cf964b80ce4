------------------------ MODULE MCCampaignAggregate -------------------------
(* Instances of CampaignAggregate small enough for TLC. *)
EXTENDS CampaignAggregate, TLC

CONSTANTS ana, bob, mia, c1, c2, c3, deck

Cmd(o, u, t, x)       == [op |-> o, by |-> u, target |-> t, to |-> x, flag |-> "same"]
Person(o, u, t, x, f) == [op |-> o, by |-> u, target |-> t, to |-> x, flag |-> f]

\* ana is the primary owner, bob an editor or a second owner, mia the manager.
\* One patch promotes bob and gives him the flag, one gives it to an owner, one
\* only takes it away, one demotes who has it.
Mixed == {Cmd("upload", bob, bob, ""), Cmd("link", ana, ana, ""), Cmd("unlink", bob, bob, ""),
          Cmd("edit", bob, bob, ""),
          Cmd("move", ana, ana, "planned"), Cmd("move", mia, mia, "archived"), Cmd("move", mia, mia, "draft"),
          Person("update", mia, bob, "owner", "set"), Person("update", mia, bob, "same", "set"),
          Person("update", mia, ana, "same", "clear"), Person("update", mia, ana, "viewer", "same"),
          Person("update", ana, bob, "viewer", "same"),
          Person("add", ana, bob, "viewer", "clear"), Person("add", mia, mia, "owner", "set"),
          Cmd("remove", ana, bob, ""), Cmd("remove", mia, ana, "")}

Team(r) == [u \in Users |-> CASE u = ana -> "owner" [] u = bob -> r [] OTHER -> "none"]

BoardsDef == {[status |-> "draft", role |-> Team("editor"), primary |-> ana],
              [status |-> "planned", role |-> Team("owner"), primary |-> ana]}

Symmetry == Permutations(Calls)
=============================================================================
