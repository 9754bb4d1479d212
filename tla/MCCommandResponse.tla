------------------------- MODULE MCCommandResponse -------------------------
(* Small instances of CommandResponse for TLC. *)
EXTENDS CommandResponse, TLC

CONSTANTS c1, c2, c3, c4, c5

FourCommands == {c1, c2, c3, c4}
FiveCommands == {c1, c2, c3, c4, c5}

\* The behaviours in which Kubescape answers every request and no scan fails.
NoErrors == \A c \in Commands : status[c] # "error" /\ job[c] # "fail"
ErrorFreeSpec == Init /\ [][Next /\ NoErrors']_vars /\ Fairness

\* The behaviours in which the commands are submitted in the order of their names, and the
\* answers to the first three, which are all alike, come in that order: commands that are
\* not submitted or not answered yet can be told apart by nothing but their names.  The
\* last command is the one whose patches may fail.
Order == <<c1, c2, c3, c4>>
Unanswered(c) == job[c] \in {"pending", "post"}
InOrder == /\ \A i \in 1 .. 3 : job[Order[i]] = "pending" => job[Order[i + 1]] = "pending"
           /\ \A i \in 1 .. 2 : Unanswered(Order[i]) => Unanswered(Order[i + 1])
OrderedSpec == Init /\ [][Next /\ InOrder']_vars /\ Fairness
=============================================================================
