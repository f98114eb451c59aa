----------------------------- MODULE MCMultiTurn -----------------------------
(***************************************************************************)
(* Two ranks with two requests and one.  The schedulers are those the      *)
(* documentation describes: step returns ids with their mask, ids alone,   *)
(* or only the next request with a user message; MathTips returns log-     *)
(* probabilities of its own too.                                           *)
(***************************************************************************)
EXTENDS MultiTurn

TwoAndOne == <<2, 1>>

Setup(driver, returns, edits) ==
  [driver |-> driver, ids |-> "ids" \in returns, mask |-> "mask" \in returns,
   logps |-> "logps" \in returns, continues |-> "ids" \in returns, edits |-> edits]

Masked == {"ids", "mask"}
OnServer == {Setup("server", Masked, {"add"}), Setup("server", {"ids"}, {"add"})}
MathTips == Setup("colocate", Masked \cup {"logps"}, {"tip"})
IdsAlone == {Setup("colocate", {"ids"}, {"add"}), Setup("colocate", {"ids"}, {"cut"}),
            Setup("colocate", {"ids", "logps"}, {"tip"})}
Documented ==
  OnServer \cup IdsAlone \cup
  {MathTips, Setup("colocate", Masked, {"keep", "add"}), Setup("colocate", Masked, {"keep", "cut"}),
   Setup("colocate", {}, {"keep"})}
=============================================================================
